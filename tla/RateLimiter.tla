----------------------------- MODULE RateLimiter -----------------------------
(***************************************************************************)
(* InMemoryRateLimiter: a fixed window per key, in a Map that holds at     *)
(* most MaxBuckets keys. Expired buckets are thrown out only when a new    *)
(* key finds the Map full; when none is expired the new key is refused.    *)
(***************************************************************************)
EXTENDS Integers, FiniteSets, Sequences

CONSTANTS Callers,       \* keys: user and address, or provider and address
          RateLimit,     \* calls of a key in one window
          WindowLength,  \* windowMs, in ticks of the clock
          MaxBuckets,
          Horizon        \* bound: the clock stops here

ASSUME RateLimiterAssumption ==
  RateLimit \in Nat \ {0} /\ WindowLength \in Nat \ {0} /\ MaxBuckets \in Nat \ {0} /\ Horizon \in Nat

VARIABLES buckets,  \* the Map: a function on the keys that have a bucket
          clock,    \* Date.now()
          granted   \* history: when each key was allowed a call

limiterVars == <<buckets, clock, granted>>

Bucket == [count : 1 .. RateLimit, resetAt : Nat]

Expired(bucket) == bucket.resetAt <= clock

LiveBuckets == {key \in DOMAIN buckets : ~Expired(buckets[key])}

\* Plausible error: a full Map is cleared.
NoBuckets(key) == IF key \in DOMAIN buckets \/ Cardinality(DOMAIN buckets) < MaxBuckets
                  THEN DOMAIN buckets ELSE {}

\* The keys whose buckets are kept when `key` starts a window.
KeptFor(key) == IF key \in DOMAIN buckets \/ Cardinality(DOMAIN buckets) < MaxBuckets
                THEN DOMAIN buckets ELSE LiveBuckets

InitLimiter ==
  /\ buckets = [key \in {} |-> [count |-> 1, resetAt |-> 0]]
  /\ clock = 0
  /\ granted = [key \in Callers |-> <<>>]

Granted(key) == granted' = [granted EXCEPT ![key] = Append(@, clock)] /\ UNCHANGED clock

StartWindow(key) ==
  LET kept == KeptFor(key) IN
  /\ key \notin LiveBuckets
  /\ key \in DOMAIN buckets \/ Cardinality(kept) < MaxBuckets
  /\ buckets' = [k \in kept \cup {key} |->
                  IF k = key THEN [count |-> 1, resetAt |-> clock + WindowLength] ELSE buckets[k]]
  /\ Granted(key)

CallsLeft(bucket) == bucket.count < RateLimit

CountCall(key) ==
  /\ key \in LiveBuckets
  /\ CallsLeft(buckets[key])
  /\ buckets' = [buckets EXCEPT ![key].count = @ + 1]
  /\ Granted(key)

\* Every other call is refused with RATE_LIMITED and changes nothing.
Tick == clock < Horizon /\ clock' = clock + 1 /\ UNCHANGED <<buckets, granted>>

NextLimiter == Tick \/ \E key \in Callers : StartWindow(key) \/ CountCall(key)

LimiterSpec == InitLimiter /\ [][NextLimiter]_limiterVars

LimiterTypeOK ==
  /\ DOMAIN buckets \subseteq Callers
  /\ \A key \in DOMAIN buckets : buckets[key] \in Bucket
  /\ clock \in 0 .. Horizon
  /\ granted \in [Callers -> Seq(0 .. Horizon)]

\* Whatever is thrown out to make room, no key is allowed more calls in any stretch of time as
\* long as a window than two windows hold, and the Map never outgrows its bound.
\* (InMemoryRateLimiter.allow)
RateIsLimited ==
  /\ Cardinality(DOMAIN buckets) <= MaxBuckets
  /\ \A key \in Callers : \A i \in DOMAIN granted[key] :
       i > 2 * RateLimit => granted[key][i] >= granted[key][i - 2 * RateLimit] + WindowLength
=============================================================================
