------------------------- MODULE OwnerSessionProofs -------------------------
(***************************************************************************)
(* Proofs about OwnerSession, for any accounts and businesses and any      *)
(* bounds. What the page shows depends on requests of this mount only, so  *)
(* the invariant says of the state of the component, of the numbers that   *)
(* snapshots were given and of the promises how they fit; every step is    *)
(* one of a few changes of these three.                                    *)
(***************************************************************************)
EXTENDS OwnerSession, TLAPS

AuthRows ==
  [status : {"loading", "authenticated", "unauthenticated", "error"}, user : Users \cup {None},
   restoring : BOOLEAN, expired : BOOLEAN, signingOut : BOOLEAN]

Ids == Tenants \cup {None}
Errors == {None, "NETWORK", "FORBIDDEN", "SERVER"}

OwnerRows ==
  [mount : 0 .. MaxMounts, tenants : SUBSET Tenants, active : Ids,
   snapshot : [tenant : Ids, number : Nat], loading : BOOLEAN, error : Errors]

Listed(p) == IF p.tenants = {} THEN p.active = None ELSE p.active \in p.tenants

\* A component shows nothing that was not numbered before.
OwnerOK(p, seq) ==
  /\ p \in OwnerRows
  /\ Listed(p)
  /\ p.mount > 0 => p.snapshot.number <= seq[p.mount]

\* Promises of this mount and of earlier ones, with numbers that were given.
RequestsOK(rs, mount, seq, n) ==
  \A r \in rs :
    /\ r \in RequestRows
    /\ r.mount <= mount
    /\ IF r.kind = "SNAPSHOT" THEN r.number \in 1 .. seq[r.mount] ELSE r.number < n

\* The answer to r ends the spinner of p.
EndsSpinner(r, p, seq) ==
  /\ r.mount = p.mount
  /\ r.kind = "TENANTS" \/ (r.kind = "SNAPSHOT" /\ r.number = seq[r.mount])

Caused(p, rs, seq) == p.loading /\ p.tenants # {} => \E r \in rs : EndsSpinner(r, p, seq)

SessionInv ==
  /\ auth \in AuthRows
  /\ (auth.user # None) <=> Mounted
  /\ Mounted => owner.mount > 0
  /\ ~Mounted => owner = Unmounted(owner.mount)
  /\ OwnerOK(owner, sequence)
  /\ sequence \in [Mounts -> Nat] /\ asked \in Nat /\ stored \in Ids
  /\ RequestsOK(requests, owner.mount, sequence, asked)
  /\ auth.signingOut \/ Caused(owner, requests, sequence)

\* What a mount shows gives way to newer loads only.
Newer ==
  owner'.mount = owner.mount /\ owner'.snapshot # NoSnapshot =>
    owner'.snapshot.number >= owner.snapshot.number

-----------------------------------------------------------------------------
(* The records.                                                            *)

LEMMA UnmountedRow ==
  ASSUME NEW mount \in 0 .. MaxMounts
  PROVE  /\ Unmounted(mount) \in OwnerRows
         /\ Unmounted(mount).mount = mount
         /\ Unmounted(mount).tenants = {}
         /\ Unmounted(mount).active = None
         /\ Unmounted(mount).snapshot = NoSnapshot
         /\ ~Unmounted(mount).loading
BY SessionAssumption DEF Unmounted, OwnerRows, Ids, Errors, NoSnapshot

LEMMA WaitingRow ==
  ASSUME NEW p \in OwnerRows
  PROVE  /\ Waiting(p) \in OwnerRows
         /\ Waiting(p).mount = p.mount
         /\ Waiting(p).tenants = p.tenants
         /\ Waiting(p).active = p.active
         /\ Waiting(p).snapshot = p.snapshot
BY DEF Waiting, OwnerRows, Errors

LEMMA ForgottenRow ==
  ASSUME NEW p \in OwnerRows
  PROVE  /\ Forgotten(p) \in OwnerRows
         /\ Forgotten(p).mount = p.mount
         /\ Forgotten(p).tenants = {}
         /\ Forgotten(p).active = None
         /\ Forgotten(p).snapshot = NoSnapshot
         /\ ~Forgotten(p).loading
BY DEF Forgotten, OwnerRows, Errors, Ids, NoSnapshot

LEMMA FailedRow ==
  ASSUME NEW p \in OwnerRows, NEW kind \in Errors
  PROVE  /\ Failed(p, kind) \in OwnerRows
         /\ Failed(p, kind).mount = p.mount
         /\ Failed(p, kind).tenants = p.tenants
         /\ Failed(p, kind).active = p.active
         /\ Failed(p, kind).snapshot = p.snapshot
         /\ ~Failed(p, kind).loading
BY DEF Failed, OwnerRows, Errors

LEMMA RequestRow ==
  ASSUME NEW kind \in {"SNAPSHOT", "TENANTS", "COMMAND", "JOIN"}, NEW mount \in Mounts,
         NEW number \in Nat, NEW tenant \in Ids, NEW preferred \in Ids
  PROVE  LET r == Request(kind, mount, number, tenant, preferred)
         IN  /\ r \in RequestRows /\ r.kind = kind /\ r.mount = mount /\ r.number = number
             /\ r.tenant = tenant
BY DEF Request, RequestRows, Ids

LEMMA SignedRows ==
  ASSUME auth \in AuthRows, NEW u \in Users
  PROVE  /\ SignedIn(u) \in AuthRows
         /\ SignedIn(u).status = "authenticated" /\ SignedIn(u).user = u
         /\ SignedIn(u).signingOut = auth.signingOut
         /\ [SignedIn(u) EXCEPT !.restoring = FALSE] \in AuthRows
         /\ [SignedIn(u) EXCEPT !.restoring = FALSE].status = "authenticated"
         /\ [SignedIn(u) EXCEPT !.restoring = FALSE].user = u
         /\ [SignedIn(u) EXCEPT !.restoring = FALSE].signingOut = auth.signingOut
<1>1. SignedIn(u) \in AuthRows
  BY DEF SignedIn, AuthRows
<1>2. /\ SignedIn(u).status = "authenticated" /\ SignedIn(u).user = u
      /\ SignedIn(u).signingOut = auth.signingOut
  BY DEF SignedIn, AuthRows
<1> QED
  BY <1>1, <1>2 DEF AuthRows

\* The session after it ended: whoever ended it, and wherever it came from.
Ended(a) == a \in AuthRows /\ a.status # "authenticated" /\ a.user = None

LEMMA SignedOutRows ==
  ASSUME auth \in AuthRows
  PROVE  /\ Ended(SignedOut(auth))
         /\ Ended([SignedOut(auth) EXCEPT !.restoring = FALSE])
         /\ Ended([SignedOut(auth) EXCEPT !.signingOut = FALSE])
         /\ Ended([auth EXCEPT !.restoring = FALSE, !.status = "error", !.user = None])
<1>1. Ended(SignedOut(auth))
  BY DEF SignedOut, AuthRows, Ended
<1>2. /\ Ended([SignedOut(auth) EXCEPT !.restoring = FALSE])
      /\ Ended([SignedOut(auth) EXCEPT !.signingOut = FALSE])
  BY <1>1 DEF AuthRows, Ended
<1>3. Ended([auth EXCEPT !.restoring = FALSE, !.status = "error", !.user = None])
  BY DEF AuthRows, Ended
<1> QED
  BY <1>1, <1>2, <1>3

-----------------------------------------------------------------------------
(* Numbers and promises.                                                   *)

\* A mount counts its loads up; what was asked before keeps its number.
LEMMA Counted ==
  ASSUME NEW seq \in [Mounts -> Nat], NEW m \in Mounts, NEW k, NEW n, NEW rs, RequestsOK(rs, k, seq, n)
  PROVE  LET next == [seq EXCEPT ![m] = @ + 1]
         IN  /\ next \in [Mounts -> Nat]
             /\ next[m] = seq[m] + 1
             /\ \A other \in Mounts : next[other] >= seq[other] /\ (other # m => next[other] = seq[other])
             /\ RequestsOK(rs, k, next, n)
<1> DEFINE next == [seq EXCEPT ![m] = @ + 1]
<1>1. /\ next \in [Mounts -> Nat] /\ next[m] = seq[m] + 1
      /\ \A other \in Mounts : next[other] >= seq[other] /\ (other # m => next[other] = seq[other])
  OBVIOUS
<1> HIDE DEF next
<1>2. ASSUME NEW r \in rs
      PROVE  /\ r \in RequestRows /\ r.mount <= k
             /\ IF r.kind = "SNAPSHOT" THEN r.number \in 1 .. next[r.mount] ELSE r.number < n
  <2>1. /\ r \in RequestRows /\ r.mount <= k
        /\ IF r.kind = "SNAPSHOT" THEN r.number \in 1 .. seq[r.mount] ELSE r.number < n
    BY DEF RequestsOK
  <2>2. r.mount \in Mounts /\ r.number \in Nat
    BY <2>1 DEF RequestRows
  <2>3. next[r.mount] >= seq[r.mount] /\ next[r.mount] \in Nat /\ seq[r.mount] \in Nat
    BY <1>1, <2>2
  <2> QED
    BY <2>1, <2>2, <2>3
<1>3. RequestsOK(rs, k, next, n)
  BY <1>2 DEF RequestsOK
<1> QED
  BY <1>1, <1>3 DEF next

LEMMA PromisesJoin ==
  ASSUME NEW seq, NEW k, NEW n, NEW rs, NEW more, RequestsOK(rs, k, seq, n), RequestsOK(more, k, seq, n)
  PROVE  RequestsOK(rs \cup more, k, seq, n)
BY DEF RequestsOK

LEMMA PromisesSettle ==
  ASSUME NEW seq, NEW k, NEW n, NEW rs, NEW fewer \in SUBSET rs, RequestsOK(rs, k, seq, n)
  PROVE  RequestsOK(fewer, k, seq, n)
BY DEF RequestsOK

LEMMA SnapshotPromise ==
  ASSUME NEW seq \in [Mounts -> Nat], NEW m \in Mounts, NEW k, m <= k, NEW n, NEW tenant \in Ids,
         seq[m] > 0
  PROVE  LET q == Request("SNAPSHOT", m, seq[m], tenant, None)
         IN  RequestsOK({q}, k, seq, n) /\ \A p \in OwnerRows : p.mount = m => EndsSpinner(q, p, seq)
<1> DEFINE q == Request("SNAPSHOT", m, seq[m], tenant, None)
<1>1. q \in RequestRows /\ q.kind = "SNAPSHOT" /\ q.mount = m /\ q.number = seq[m]
  BY RequestRow DEF Ids
<1> QED
  BY <1>1 DEF RequestsOK, EndsSpinner

\* A request that is numbered by the others.
LEMMA OtherPromise ==
  ASSUME NEW seq, NEW m \in Mounts, NEW k, m <= k, asked \in Nat, NEW rs,
         RequestsOK(rs, k, seq, asked), NEW tenant \in Ids, NEW preferred \in Ids,
         NEW kind \in {"TENANTS", "COMMAND", "JOIN"}
  PROVE  LET q == Request(kind, m, asked, tenant, preferred)
         IN  RequestsOK(rs \cup {q}, k, seq, asked + 1)
<1> DEFINE q == Request(kind, m, asked, tenant, preferred)
<1>1. q \in RequestRows /\ q.kind = kind /\ q.mount = m /\ q.number = asked
  BY RequestRow
<1> HIDE DEF q
<1>2. RequestsOK({q}, k, seq, asked + 1)
  BY <1>1 DEF RequestsOK
<1>3. \A r \in rs : r \in RequestRows /\ r.number \in Nat
  BY DEF RequestsOK, RequestRows
<1>4. RequestsOK(rs, k, seq, asked + 1)
  BY <1>3 DEF RequestsOK
<1> QED
  BY <1>2, <1>4, PromisesJoin DEF q

-----------------------------------------------------------------------------
(* Changes that steps are made of.                                         *)

\* What a change leaves behind; the number of other requests is what the caller makes of it.
Left(mount, n) ==
  /\ OwnerOK(owner', sequence')
  /\ owner'.mount = mount
  /\ sequence' \in [Mounts -> Nat]
  /\ RequestsOK(requests', mount, sequence', n)

LEMMA RenderKeeps ==
  ASSUME NEW p \in OwnerRows, p.mount \in Mounts, Listed(p), p.snapshot.number <= sequence[p.mount],
         sequence \in [Mounts -> Nat], NEW others, NEW n, RequestsOK(others, p.mount, sequence, n),
         NEW authChanged \in BOOLEAN, Render(p, others, authChanged),
         p.active = owner.active /\ ~authChanged => Caused(p, others, sequence)
  PROVE  /\ Left(p.mount, n)
         /\ Caused(owner', requests', sequence')
         /\ owner'.snapshot \in {p.snapshot, NoSnapshot}
<1> DEFINE m == p.mount
           next == [sequence EXCEPT ![m] = @ + 1]
           q == Request("SNAPSHOT", m, next[m], p.active, None)
<1>1. p.snapshot.number \in Nat /\ p.active \in Ids
  BY DEF OwnerRows
<1>2. CASE p.active = owner.active /\ ~authChanged
  BY <1>2 DEF Render, Left, OwnerOK
<1>3. CASE ~(p.active = owner.active /\ ~authChanged)
  <2>1. /\ next \in [Mounts -> Nat] /\ next[m] = sequence[m] + 1
        /\ RequestsOK(others, m, next, n)
    BY Counted
  <2>2. sequence[m] \in Nat
    OBVIOUS
  <2>3. sequence' = next
    BY <1>3 DEF Render
  <2>4. CASE p.active # None
    <3>1. q = SnapshotRequest(m, p.active)
      BY <2>1 DEF SnapshotRequest
    <3>2. owner' = Waiting(p) /\ requests' = others \cup {q}
      BY <1>3, <2>4, <3>1 DEF Render
    <3> HIDE DEF next
    <3>0. m <= m
      BY SessionAssumption DEF Mounts
    <3>3. RequestsOK({q}, m, next, n) /\ \A w \in OwnerRows : w.mount = m => EndsSpinner(q, w, next)
      BY <1>1, <2>1, <2>2, <3>0, SnapshotPromise
    <3>4. RequestsOK(requests', m, next, n)
      BY <2>1, <3>2, <3>3, PromisesJoin
    <3>5. /\ owner' \in OwnerRows /\ owner'.mount = m /\ owner'.snapshot = p.snapshot
          /\ owner'.tenants = p.tenants /\ owner'.active = p.active
      BY <3>2, WaitingRow
    <3>6. OwnerOK(owner', next)
      BY <1>1, <2>1, <2>2, <3>5 DEF OwnerOK, Listed
    <3>7. Caused(owner', requests', next)
      BY <3>2, <3>3, <3>5 DEF Caused
    <3> QED
      BY <2>1, <2>3, <3>4, <3>5, <3>6, <3>7 DEF Left
  <2>5. CASE p.active = None
    <3>1. owner' = [p EXCEPT !.snapshot = NoSnapshot] /\ requests' = others
      BY <1>3, <2>5 DEF Render
    <3>2. /\ owner' \in OwnerRows /\ owner'.mount = m /\ owner'.snapshot = NoSnapshot
          /\ owner'.tenants = p.tenants /\ owner'.active = p.active
      BY <3>1 DEF OwnerRows, NoSnapshot, Ids
    <3>3. p.tenants = {}
      BY <2>5, SessionAssumption DEF Listed, OwnerRows
    <3> HIDE DEF next
    <3>4. OwnerOK(owner', next)
      BY <2>1, <2>2, <3>2 DEF OwnerOK, Listed, NoSnapshot
    <3> QED
      BY <2>1, <2>3, <3>1, <3>2, <3>3, <3>4 DEF Left, Caused
  <2> QED
    BY <2>4, <2>5
<1> QED
  BY <1>2, <1>3

LEMMA LoadKeeps ==
  ASSUME NEW p, OwnerOK(p, sequence), NEW m \in Mounts, m <= p.mount, NEW tenant \in Ids,
         sequence \in [Mounts -> Nat], NEW others, NEW n, RequestsOK(others, p.mount, sequence, n),
         LoadSnapshot(p, m, tenant, others)
  PROVE  /\ Left(p.mount, n)
         /\ owner' = p
         /\ m = p.mount \/ Caused(p, others, sequence) => Caused(owner', requests', sequence')
<1> DEFINE next == [sequence EXCEPT ![m] = @ + 1]
           q == Request("SNAPSHOT", m, next[m], tenant, None)
<1>1. /\ next \in [Mounts -> Nat] /\ next[m] = sequence[m] + 1
      /\ \A other \in Mounts : next[other] >= sequence[other] /\ (other # m => next[other] = sequence[other])
      /\ RequestsOK(others, p.mount, next, n)
  BY Counted
<1>2. q = SnapshotRequest(m, tenant)
  BY <1>1 DEF SnapshotRequest
<1>3. owner' = p /\ requests' = others \cup {q} /\ sequence' = next
  BY <1>2 DEF LoadSnapshot
<1> HIDE DEF next
<1>4. sequence[m] \in Nat /\ p \in OwnerRows
  BY DEF OwnerOK
<1>5. RequestsOK({q}, p.mount, next, n) /\ \A w \in OwnerRows : w.mount = m => EndsSpinner(q, w, next)
  BY <1>1, <1>4, SnapshotPromise
<1>6. RequestsOK(requests', p.mount, next, n)
  BY <1>1, <1>3, <1>5, PromisesJoin
<1>7. OwnerOK(p, next)
  <2>1. p.mount \in 0 .. MaxMounts /\ p.snapshot.number \in Nat
    BY <1>4 DEF OwnerRows
  <2>2. CASE p.mount > 0
    <3>1. p.mount \in Mounts
      BY <2>1, <2>2, SessionAssumption DEF Mounts
    <3>2. next[p.mount] >= sequence[p.mount] /\ next[p.mount] \in Nat /\ sequence[p.mount] \in Nat
      BY <1>1, <3>1
    <3> QED
      BY <2>1, <2>2, <3>2 DEF OwnerOK
  <2>3. CASE ~(p.mount > 0)
    BY <2>3 DEF OwnerOK
  <2> QED
    BY <2>2, <2>3
<1>8. ASSUME m = p.mount \/ Caused(p, others, sequence) PROVE Caused(p, requests', next)
  <2>1. CASE m = p.mount
    BY <1>3, <1>4, <1>5, <2>1 DEF Caused
  <2>2. CASE m # p.mount
    <3>1. ASSUME NEW r \in others, EndsSpinner(r, p, sequence) PROVE EndsSpinner(r, p, next)
      <4>1. r.mount \in Mounts /\ r.mount # m
        BY <2>2, <3>1 DEF RequestsOK, RequestRows, EndsSpinner
      <4> QED
        BY <1>1, <3>1, <4>1 DEF EndsSpinner
    <3> QED
      BY <1>3, <1>8, <2>2, <3>1 DEF Caused
  <2> QED
    BY <2>1, <2>2
<1> QED
  BY <1>1, <1>3, <1>6, <1>7, <1>8 DEF Left

\* The component goes, its promises stay.
LEMMA EndKeeps ==
  ASSUME SessionInv, EndSession, Ended(auth'), stored' = stored
  PROVE  SessionInv' /\ Newer
<1>1. owner' = Unmounted(owner.mount) /\ UNCHANGED <<sequence, requests, asked>>
  BY DEF EndSession
<1>2. owner.mount \in 0 .. MaxMounts
  BY DEF SessionInv, OwnerOK, OwnerRows
<1>3. /\ owner' \in OwnerRows /\ owner'.mount = owner.mount /\ owner'.tenants = {}
      /\ owner'.active = None /\ owner'.snapshot = NoSnapshot
  BY <1>1, <1>2, UnmountedRow
<1>4. OwnerOK(owner', sequence)
  <2>1. CASE owner.mount > 0
    <3>1. owner.mount \in Mounts
      BY <1>2, <2>1, SessionAssumption DEF Mounts
    <3>2. sequence[owner.mount] \in Nat
      BY <3>1 DEF SessionInv
    <3> QED
      BY <1>3, <3>2 DEF OwnerOK, Listed, NoSnapshot
  <2>2. CASE ~(owner.mount > 0)
    BY <1>3, <2>2 DEF OwnerOK, Listed
  <2> QED
    BY <2>1, <2>2
<1>5. ~Mounted' /\ auth' \in AuthRows /\ auth'.user = None
  BY DEF Ended, Mounted
<1>6. /\ sequence' \in [Mounts -> Nat] /\ asked' \in Nat /\ stored' \in Ids
      /\ RequestsOK(requests', owner'.mount, sequence', asked')
  BY <1>1, <1>3 DEF SessionInv
<1>7. owner' = Unmounted(owner'.mount)
  BY <1>1, <1>3
<1> QED
  BY <1>1, <1>3, <1>4, <1>5, <1>6, <1>7 DEF SessionInv, Caused, Newer

-----------------------------------------------------------------------------
(* The session's steps.                                                    *)

\* What the invariant says of a state while somebody is signed in, by its parts.
LEMMA MountedInv ==
  ASSUME SessionInv, Mounted
  PROVE  /\ owner \in OwnerRows /\ owner.mount \in Mounts /\ owner.mount <= owner.mount
         /\ Listed(owner) /\ OwnerOK(owner, sequence)
         /\ owner.snapshot.number <= sequence[owner.mount] /\ owner.snapshot.number \in Nat
         /\ owner.active \in Ids
         /\ sequence \in [Mounts -> Nat] /\ sequence[owner.mount] \in Nat /\ asked \in Nat
         /\ stored \in Ids
         /\ RequestsOK(requests, owner.mount, sequence, asked)
         /\ auth.signingOut \/ Caused(owner, requests, sequence)
<1>1. owner \in OwnerRows /\ owner.mount > 0 /\ Listed(owner) /\ OwnerOK(owner, sequence)
  BY DEF SessionInv, OwnerOK
<1>2. owner.mount \in 0 .. MaxMounts /\ owner.snapshot.number \in Nat /\ owner.active \in Ids
  BY <1>1 DEF OwnerRows
<1>3. owner.mount \in Mounts
  BY <1>1, <1>2, SessionAssumption DEF Mounts
<1> QED
  BY <1>1, <1>2, <1>3 DEF SessionInv, OwnerOK

\* A step of which the session knows nothing, or which it survives.
LEMMA MountedAgain ==
  ASSUME SessionInv, NEW n \in Nat, Left(owner'.mount, n), asked' = n, stored' \in Ids,
         auth' \in AuthRows, Mounted', auth'.user # None, owner'.mount > 0,
         auth'.signingOut \/ Caused(owner', requests', sequence')
  PROVE  SessionInv'
BY DEF SessionInv, Left

LEMMA BeginKeeps ==
  ASSUME SessionInv, NEW u \in Users, BeginSession(u), auth' \in AuthRows,
         auth'.status = "authenticated", auth'.user = u, auth'.signingOut = auth.signingOut,
         stored' = stored
  PROVE  SessionInv' /\ Newer
<1> USE SessionAssumption
<1>1. Mounted' /\ auth'.user # None /\ stored' \in Ids /\ asked \in Nat
  BY DEF Mounted, SessionInv
<1>2. CASE ~Mounted
  <2> DEFINE m == owner.mount + 1
             next == [sequence EXCEPT ![m] = 1]
             q == Request("TENANTS", m, asked, None, None)
  <2>1. owner.mount \in 0 .. MaxMounts /\ owner.mount < MaxMounts
    BY <1>2 DEF BeginSession, SessionInv, OwnerOK, OwnerRows
  <2>2. m \in Mounts /\ m \in 0 .. MaxMounts /\ m <= m /\ m # owner.mount /\ m > 0
    BY <2>1 DEF Mounts
  <2>3. owner' = Waiting(Unmounted(m)) /\ sequence' = next /\ requests' = requests \cup {q}
        /\ asked' = asked + 1
    BY <1>2 DEF BeginSession
  <2>4. Unmounted(m) \in OwnerRows /\ Unmounted(m).mount = m /\ Unmounted(m).tenants = {}
        /\ Unmounted(m).active = None /\ Unmounted(m).snapshot = NoSnapshot
    BY <2>2, UnmountedRow
  <2>5. owner' \in OwnerRows /\ owner'.mount = m /\ owner'.tenants = {}
        /\ owner'.active = None /\ owner'.snapshot = NoSnapshot
    BY <2>3, <2>4, WaitingRow
  <2>6. next \in [Mounts -> Nat] /\ next[m] = 1 /\ \A other \in Mounts : other # m => next[other] = sequence[other]
    BY <2>2 DEF SessionInv
  <2> HIDE DEF next
  <2>7. OwnerOK(owner', next)
    BY <2>5, <2>6 DEF OwnerOK, Listed, NoSnapshot
  <2>8. RequestsOK(requests, m, next, asked)
    <3>1. ASSUME NEW r \in requests
          PROVE  /\ r \in RequestRows /\ r.mount <= m
                 /\ IF r.kind = "SNAPSHOT" THEN r.number \in 1 .. next[r.mount] ELSE r.number < asked
      <4>1. /\ r \in RequestRows /\ r.mount <= owner.mount
            /\ IF r.kind = "SNAPSHOT" THEN r.number \in 1 .. sequence[r.mount] ELSE r.number < asked
        BY DEF SessionInv, RequestsOK
      <4>2. r.mount \in Mounts
        BY <4>1 DEF RequestRows
      <4>3. r.mount # m /\ r.mount <= m
        BY <2>1, <4>1, <4>2 DEF Mounts
      <4> QED
        BY <2>6, <4>1, <4>2, <4>3
    <3> QED
      BY <3>1 DEF RequestsOK
  <2>9. RequestsOK(requests', m, next, asked + 1)
    BY <1>1, <2>2, <2>3, <2>8, OtherPromise DEF Ids
  <2> HIDE DEF m, q
  <2>10. Left(owner'.mount, asked + 1)
    BY <2>3, <2>5, <2>6, <2>7, <2>9 DEF Left
  <2>11. Caused(owner', requests', sequence')
    BY <2>5 DEF Caused
  <2>12. SessionInv'
    <3>1. asked + 1 \in Nat /\ asked' = asked + 1
      BY <1>1, <2>2, <2>3
    <3>2. owner'.mount > 0
      BY <2>2, <2>3, <2>5
    <3> QED
      BY <1>1, <2>10, <2>11, <3>1, <3>2, MountedAgain
  <2> QED
    BY <2>2, <2>5, <2>12 DEF Newer
<1>3. CASE Mounted
  <2> USE MountedInv, <1>3
  <2>1. CASE u = auth.user
    <3>1. Render(owner, requests, TRUE) /\ asked' = asked
      BY <2>1 DEF BeginSession
    <3>2. Left(owner.mount, asked) /\ Caused(owner', requests', sequence')
          /\ owner'.snapshot \in {owner.snapshot, NoSnapshot}
      BY <3>1, RenderKeeps
    <3>3. owner'.mount = owner.mount /\ owner'.mount > 0
      BY <3>2 DEF Left, Mounts
    <3>4. SessionInv'
      BY <1>1, <3>1, <3>2, <3>3, MountedAgain
    <3> QED
      BY <3>2, <3>4 DEF Newer
  <2>2. CASE u # auth.user
    <3> DEFINE q == Request("TENANTS", owner.mount, asked, owner.active, None)
    <3>1. Render(Waiting(owner), requests \cup {q}, TRUE) /\ asked' = asked + 1
      BY <2>2 DEF BeginSession
    <3>2. /\ Waiting(owner) \in OwnerRows /\ Waiting(owner).mount = owner.mount
          /\ Waiting(owner).snapshot = owner.snapshot /\ Listed(Waiting(owner))
      BY WaitingRow DEF Listed
    <3>3. RequestsOK(requests \cup {q}, owner.mount, sequence, asked + 1)
      BY OtherPromise DEF Ids
    <3> HIDE DEF q
    <3>4. Left(owner.mount, asked + 1) /\ Caused(owner', requests', sequence')
          /\ owner'.snapshot \in {owner.snapshot, NoSnapshot}
      BY <3>1, <3>2, <3>3, RenderKeeps
    <3>5. owner'.mount = owner.mount /\ owner'.mount > 0
      BY <3>4 DEF Left, Mounts
    <3>6. SessionInv'
      BY <1>1, <3>1, <3>4, <3>5, MountedAgain
    <3> QED
      BY <3>4, <3>6 DEF Newer
  <2> QED
    BY <2>1, <2>2
<1> QED
  BY <1>2, <1>3

LEMMA InitHasSessionInv == InitSession => SessionInv
<1> SUFFICES ASSUME InitSession PROVE SessionInv
  OBVIOUS
<1> USE SessionAssumption DEF InitSession
<1>1. auth \in AuthRows /\ ~Mounted /\ auth.user = None
  BY DEF AuthRows, Mounted
<1>2. 0 \in 0 .. MaxMounts
  OBVIOUS
<1>3. owner \in OwnerRows /\ owner.mount = 0 /\ owner.tenants = {} /\ owner.active = None /\ ~owner.loading
  BY <1>2, UnmountedRow
<1>4. OwnerOK(owner, sequence) /\ Caused(owner, requests, sequence)
  BY <1>3 DEF OwnerOK, Listed, Caused
<1>5. sequence \in [Mounts -> Nat] /\ asked \in Nat /\ stored \in Ids
  BY DEF Ids
<1>6. RequestsOK(requests, owner.mount, sequence, asked)
  BY DEF RequestsOK
<1> QED
  BY <1>1, <1>3, <1>4, <1>5, <1>6 DEF SessionInv

\* Steps that set the session and nothing that the owner's component did not ask for.
LEMMA SessionStepsKeep ==
  ASSUME SessionInv,
         \/ \E u \in Users \cup {None} : RestoreSession(u) \/ AuthEvent(u)
         \/ RestoreFails
         \/ \E u \in Users : SignIn(u)
         \/ SignUpUnconfirmed \/ SignOut \/ ExpiryEnds
  PROVE  SessionInv' /\ Newer
<1>0. auth \in AuthRows
  BY DEF SessionInv
<1>1. ASSUME NEW u \in Users \cup {None}, RestoreSession(u) PROVE SessionInv' /\ Newer
  <2>1. CASE u = None
    <3>1. auth' = [SignedOut(auth) EXCEPT !.restoring = FALSE] /\ EndSession /\ stored' = stored
      BY <1>1, <2>1 DEF RestoreSession
    <3> QED
      BY <1>0, <3>1, SignedOutRows, EndKeeps
  <2>2. CASE u # None
    <3>1. auth' = [SignedIn(u) EXCEPT !.restoring = FALSE] /\ BeginSession(u) /\ stored' = stored
      BY <1>1, <2>2 DEF RestoreSession
    <3> QED
      BY <1>0, <2>2, <3>1, SignedRows, BeginKeeps
  <2> QED
    BY <2>1, <2>2
<1>2. ASSUME NEW u \in Users \cup {None}, AuthEvent(u) PROVE SessionInv' /\ Newer
  <2>1. CASE u = None
    <3>1. auth' = SignedOut(auth) /\ EndSession /\ stored' = stored
      BY <1>2, <2>1 DEF AuthEvent
    <3> QED
      BY <1>0, <3>1, SignedOutRows, EndKeeps
  <2>2. CASE u # None
    <3>1. auth' = SignedIn(u) /\ BeginSession(u) /\ stored' = stored
      BY <1>2, <2>2 DEF AuthEvent
    <3> QED
      BY <1>0, <2>2, <3>1, SignedRows, BeginKeeps
  <2> QED
    BY <2>1, <2>2
<1>3. ASSUME RestoreFails PROVE SessionInv' /\ Newer
  <2>1. /\ auth' = [auth EXCEPT !.restoring = FALSE, !.status = "error", !.user = None]
        /\ EndSession /\ stored' = stored
    BY <1>3 DEF RestoreFails
  <2> QED
    BY <1>0, <2>1, SignedOutRows, EndKeeps
<1>4. ASSUME NEW u \in Users, SignIn(u) PROVE SessionInv' /\ Newer
  <2>1. auth' = SignedIn(u) /\ BeginSession(u) /\ stored' = stored
    BY <1>4 DEF SignIn
  <2> QED
    BY <1>0, <2>1, SignedRows, BeginKeeps
<1>5. ASSUME SignUpUnconfirmed \/ SignOut PROVE SessionInv' /\ Newer
  <2>1. auth' = SignedOut(auth) /\ EndSession /\ stored' = stored
    BY <1>5 DEF SignUpUnconfirmed, SignOut
  <2> QED
    BY <1>0, <2>1, SignedOutRows, EndKeeps
<1>6. ASSUME ExpiryEnds PROVE SessionInv' /\ Newer
  <2>1. auth' = [SignedOut(auth) EXCEPT !.signingOut = FALSE] /\ EndSession /\ stored' = stored
    BY <1>6 DEF ExpiryEnds
  <2> QED
    BY <1>0, <2>1, SignedOutRows, EndKeeps
<1> QED
  BY <1>1, <1>2, <1>3, <1>4, <1>5, <1>6

-----------------------------------------------------------------------------
(* Steps that leave the user signed in, or the tab empty.                  *)

LEMMA QuietStep ==
  ASSUME SessionInv, NEW n \in Nat, Left(owner.mount, n), asked' = n, stored' \in Ids,
         auth' \in AuthRows, auth'.status = auth.status, auth'.user = auth.user,
         ~Mounted => owner' = owner,
         Mounted => auth'.signingOut \/ Caused(owner', requests', sequence')
  PROVE  SessionInv'
<1>1. Mounted' <=> Mounted
  BY DEF Mounted
<1>2. owner'.mount = owner.mount
  BY DEF Left
<1>3. CASE Mounted
  BY <1>1, <1>2, <1>3 DEF SessionInv, Left
<1>4. CASE ~Mounted
  <2>1. owner' = Unmounted(owner'.mount)
    BY <1>2, <1>4 DEF SessionInv
  <2>2. owner.mount \in 0 .. MaxMounts
    BY DEF SessionInv, OwnerOK, OwnerRows
  <2>3. owner'.tenants = {}
    BY <1>2, <2>1, <2>2, UnmountedRow
  <2> QED
    BY <1>1, <1>2, <1>4, <2>1, <2>3 DEF SessionInv, Left, Caused
<1> QED
  BY <1>3, <1>4

LEMMA CausedStays ==
  ASSUME NEW p, NEW is, NEW rs, NEW more, NEW seq, Caused(p, rs, seq), rs \subseteq more,
         is.mount = p.mount, is.tenants = p.tenants, is.loading => p.loading
  PROVE  Caused(is, more, seq)
BY DEF Caused, EndsSpinner

LEMMA RefusedRow ==
  ASSUME NEW p \in OwnerRows
  PROVE  LET is == [p EXCEPT !.error = "FORBIDDEN"]
         IN  /\ is \in OwnerRows /\ is.mount = p.mount /\ is.tenants = p.tenants
             /\ is.active = p.active /\ is.snapshot = p.snapshot /\ is.loading = p.loading
BY DEF OwnerRows, Errors

LEMMA SelectKeeps ==
  ASSUME SessionInv, NEW t \in Tenants, SelectTenant(t) \/ SelectRefused(t)
  PROVE  SessionInv' /\ Newer
<1>0. Mounted /\ auth' = auth /\ asked' = asked
  BY DEF SelectTenant, SelectRefused, Routed
<1>1. auth \in AuthRows
  BY DEF SessionInv
<1> USE MountedInv, <1>0
<1>2. CASE SelectTenant(t)
  <2> DEFINE p == [owner EXCEPT !.active = t]
  <2>1. /\ p \in OwnerRows /\ p.mount = owner.mount /\ p.tenants = owner.tenants
        /\ p.active = t /\ p.snapshot = owner.snapshot /\ p.loading = owner.loading
    BY DEF OwnerRows, Ids
  <2>2. Render(p, requests, FALSE) /\ stored' = t /\ t \in owner.tenants
    BY <1>2 DEF SelectTenant, Selectable
  <2> HIDE DEF p
  <2>3. Listed(p)
    BY <2>1, <2>2 DEF Listed
  <2>4. CASE p.active # owner.active
    <3>1. Left(p.mount, asked) /\ Caused(owner', requests', sequence')
          /\ owner'.snapshot \in {p.snapshot, NoSnapshot}
      BY <2>1, <2>2, <2>3, <2>4, RenderKeeps
    <3>2. SessionInv'
      BY <1>1, <2>1, <2>2, <3>1, QuietStep DEF Ids
    <3> QED
      BY <2>1, <3>1, <3>2 DEF Newer
  <2>5. CASE p.active = owner.active
    <3>1. owner' = p /\ requests' = requests /\ sequence' = sequence
      BY <2>2, <2>5 DEF Render
    <3>2. Left(owner.mount, asked)
      BY <2>1, <2>3, <3>1 DEF Left, OwnerOK
    <3>3. auth.signingOut \/ Caused(owner', requests', sequence')
      BY <2>1, <3>1, CausedStays
    <3>4. SessionInv'
      BY <1>1, <2>2, <3>2, <3>3, QuietStep DEF Ids
    <3> QED
      BY <2>1, <3>1, <3>4 DEF Newer
  <2> QED
    BY <2>4, <2>5
<1>3. CASE SelectRefused(t)
  <2>1. owner' = [owner EXCEPT !.error = "FORBIDDEN"] /\ UNCHANGED <<sequence, stored, requests>>
    BY <1>3 DEF SelectRefused
  <2>2. /\ owner' \in OwnerRows /\ owner'.mount = owner.mount /\ owner'.tenants = owner.tenants
        /\ owner'.active = owner.active /\ owner'.snapshot = owner.snapshot
        /\ owner'.loading = owner.loading
    BY <2>1, RefusedRow
  <2>3. Left(owner.mount, asked)
    BY <2>1, <2>2 DEF Left, OwnerOK, Listed
  <2>4. auth.signingOut \/ Caused(owner', requests', sequence')
    BY <2>1, <2>2, CausedStays
  <2>5. SessionInv'
    BY <1>1, <2>1, <2>3, <2>4, QuietStep
  <2> QED
    BY <2>2, <2>5 DEF Newer
<1> QED
  BY <1>2, <1>3

LEMMA RefreshKeeps ==
  ASSUME SessionInv, Refresh
  PROVE  SessionInv' /\ Newer
<1>0. /\ Mounted /\ UNCHANGED <<auth, stored, asked>>
      /\ LoadSnapshot(Waiting(owner), owner.mount, owner.active, requests)
  BY DEF Refresh, Routed
<1>1. auth \in AuthRows
  BY DEF SessionInv
<1> USE MountedInv, <1>0
<1>2. /\ Waiting(owner).mount = owner.mount /\ Waiting(owner).snapshot = owner.snapshot
      /\ OwnerOK(Waiting(owner), sequence)
  BY WaitingRow DEF OwnerOK, Listed
<1>3. /\ Left(owner.mount, asked) /\ owner' = Waiting(owner)
      /\ Caused(owner', requests', sequence')
  BY <1>2, LoadKeeps
<1>4. SessionInv'
  BY <1>1, <1>3, QuietStep
<1> QED
  BY <1>2, <1>3, <1>4 DEF Newer

LEMMA AskKeeps ==
  ASSUME SessionInv, Mounted, NEW kind \in {"TENANTS", "COMMAND", "JOIN"}, NEW p \in {owner, Waiting(owner)},
         Ask(kind, p), kind = "TENANTS" \/ p = owner
  PROVE  SessionInv' /\ Newer
<1> DEFINE q == Request(kind, owner.mount, asked, owner.active, None)
<1>1. auth \in AuthRows
  BY DEF SessionInv
<1> USE MountedInv
<1>2. /\ owner' = p /\ requests' = requests \cup {q} /\ asked' = asked + 1
      /\ UNCHANGED <<auth, sequence, stored>>
  BY DEF Ask
<1>3. /\ p \in OwnerRows /\ p.mount = owner.mount /\ p.tenants = owner.tenants
      /\ p.active = owner.active /\ p.snapshot = owner.snapshot
  BY WaitingRow
<1>4. RequestsOK(requests', owner.mount, sequence, asked + 1)
  BY <1>2, OtherPromise DEF Ids
<1>5. q.kind = kind /\ q.mount = owner.mount
  BY DEF Request
<1> HIDE DEF q
<1>6. Left(owner.mount, asked + 1)
  BY <1>2, <1>3, <1>4 DEF Left, OwnerOK, Listed
<1>7. auth.signingOut \/ Caused(owner', requests', sequence')
  <2>1. CASE kind = "TENANTS"
    BY <1>2, <1>3, <1>5, <2>1 DEF Caused, EndsSpinner
  <2>2. CASE p = owner
    BY <1>2, <2>2, CausedStays
  <2> QED
    BY <2>1, <2>2
<1>8. /\ asked + 1 \in Nat /\ asked' = asked + 1 /\ stored' \in Ids /\ auth' \in AuthRows
      /\ auth'.status = auth.status /\ auth'.user = auth.user
      /\ auth'.signingOut \/ Caused(owner', requests', sequence')
  BY <1>1, <1>2, <1>7
<1>9. SessionInv'
  BY <1>6, <1>8, QuietStep
<1> QED
  BY <1>2, <1>3, <1>9 DEF Newer

LEMMA AsksKeep ==
  ASSUME SessionInv, RetryTenants \/ SendCommand \/ ProvisionTenant \/ AcceptInvitation
  PROVE  SessionInv' /\ Newer
BY AskKeeps DEF RetryTenants, SendCommand, ProvisionTenant, AcceptInvitation, Routed

-----------------------------------------------------------------------------
(* Answers.                                                                *)

\* A promise, and those that are left when it settles.
LEMMA AnsweredPromise ==
  ASSUME SessionInv, NEW r \in requests
  PROVE  /\ r.mount \in Mounts /\ r.mount <= owner.mount
         /\ r.tenant \in Ids /\ r.preferred \in Ids
         /\ RequestsOK(Settled(r), owner.mount, sequence, asked)
         /\ OwnerOK(owner, sequence) /\ owner \in OwnerRows
         /\ sequence \in [Mounts -> Nat] /\ asked \in Nat /\ stored \in Ids /\ auth \in AuthRows
<1>1. RequestsOK(requests, owner.mount, sequence, asked)
  BY DEF SessionInv
<1>2. r \in RequestRows /\ r.mount <= owner.mount
  BY <1>1 DEF RequestsOK
<1>3. RequestsOK(Settled(r), owner.mount, sequence, asked)
  BY <1>1, PromisesSettle DEF Settled
<1> QED
  BY <1>2, <1>3 DEF SessionInv, OwnerOK, RequestRows, Ids

\* An answer that the component does not handle leaves the cause of its spinner.
LEMMA OthersEndTheSpinner ==
  ASSUME SessionInv, Mounted, NEW r \in requests, ~(Here(r) /\ Handled(r))
  PROVE  auth.signingOut \/ Caused(owner, Settled(r), sequence)
<1>1. auth.signingOut \/ Caused(owner, requests, sequence)
  BY DEF SessionInv
<1>2. ~EndsSpinner(r, owner, sequence)
  BY DEF EndsSpinner, Here, Handled, Current
<1> QED
  BY <1>1, <1>2 DEF Caused, Settled

\* The answer is dropped.
LEMMA DroppedAnswer ==
  ASSUME SessionInv, NEW r \in requests, ~(Here(r) /\ Handled(r)), requests' = Settled(r),
         UNCHANGED <<owner, sequence, asked>>, stored' \in Ids, auth' \in AuthRows,
         auth'.status = auth.status, auth'.user = auth.user, auth.signingOut => auth'.signingOut
  PROVE  SessionInv' /\ Newer
<1>1. Left(owner.mount, asked) /\ asked \in Nat
  BY AnsweredPromise DEF Left
<1>2. Mounted => auth'.signingOut \/ Caused(owner', requests', sequence')
  BY OthersEndTheSpinner
<1>3. SessionInv'
  BY <1>1, <1>2, QuietStep
<1>4. owner'.snapshot.number >= owner.snapshot.number
  BY AnsweredPromise DEF OwnerRows
<1> QED
  BY <1>3, <1>4 DEF Newer

\* The component takes the answer, and waits no more.
LEMMA TakenAnswer ==
  ASSUME SessionInv, NEW r \in requests, Here(r), requests' = Settled(r), OwnerOK(owner', sequence),
         owner'.mount = owner.mount, ~owner'.loading, UNCHANGED <<auth, sequence, stored, asked>>
  PROVE  SessionInv'
<1>1. Left(owner.mount, asked) /\ asked \in Nat
  BY AnsweredPromise DEF Left
<1>2. Mounted /\ Caused(owner', requests', sequence')
  BY DEF Caused, Here
<1>3. auth' \in AuthRows /\ stored' \in Ids
  BY AnsweredPromise
<1> QED
  BY <1>1, <1>2, <1>3, QuietStep

LEMMA SnapshotKeeps ==
  ASSUME SessionInv, NEW r \in requests, SnapshotArrives(r)
  PROVE  SessionInv' /\ Newer
<1>0. r.kind = "SNAPSHOT" /\ requests' = Settled(r) /\ UNCHANGED <<auth, sequence, stored, asked>>
  BY DEF SnapshotArrives
<1>1. CASE Current(r) /\ Here(r)
  <2>1. /\ owner' = [owner EXCEPT !.snapshot = [tenant |-> r.tenant, number |-> r.number], !.loading = FALSE]
        /\ r.number = sequence[owner.mount] /\ Mounted
    BY <1>1 DEF SnapshotArrives, Current, Here
  <2>2. sequence[owner.mount] \in Nat /\ owner.snapshot.number <= sequence[owner.mount]
    BY <2>1, MountedInv
  <2>3. /\ owner' \in OwnerRows /\ owner'.mount = owner.mount /\ owner'.tenants = owner.tenants
        /\ owner'.active = owner.active /\ ~owner'.loading /\ owner'.snapshot.number = r.number
    BY <2>1, <2>2, AnsweredPromise DEF OwnerRows
  <2>4. OwnerOK(owner', sequence)
    BY <2>1, <2>2, <2>3, AnsweredPromise DEF OwnerOK, Listed
  <2>5. SessionInv'
    BY <1>0, <1>1, <2>3, <2>4, TakenAnswer
  <2> QED
    BY <2>1, <2>2, <2>3, <2>5 DEF Newer
<1>2. CASE ~(Current(r) /\ Here(r))
  <2>1. owner' = owner
    BY <1>2 DEF SnapshotArrives
  <2>2. ~(Here(r) /\ Handled(r))
    BY <1>0, <1>2 DEF Handled
  <2> QED
    BY <1>0, <2>1, <2>2, AnsweredPromise, DroppedAnswer
<1> QED
  BY <1>1, <1>2

LEMMA AuthorizedIsListed ==
  ASSUME SessionInv, NEW r \in requests, NEW list \in SUBSET Tenants, NEW first,
         IF list = {} THEN first = None ELSE first \in list
  PROVE  /\ AuthorizedId(r, list, first) \in Ids
         /\ IF list = {} THEN AuthorizedId(r, list, first) = None ELSE AuthorizedId(r, list, first) \in list
BY AnsweredPromise DEF AuthorizedId, Ids

LEMMA ListKeeps ==
  ASSUME SessionInv, NEW r \in requests, NEW list \in SUBSET Tenants, NEW first \in Tenants \cup {None},
         TenantsListed(r, list, first)
  PROVE  SessionInv' /\ Newer
<1> DEFINE id == AuthorizedId(r, list, first)
           p == [owner EXCEPT !.tenants = list, !.active = id, !.loading = FALSE]
<1>1. /\ r.kind = "TENANTS" /\ stored' = id /\ UNCHANGED <<auth, asked>>
      /\ IF list = {} THEN first = None ELSE first \in list
  BY DEF TenantsListed
<1>2. id \in Ids /\ (IF list = {} THEN id = None ELSE id \in list)
  BY <1>1, AuthorizedIsListed
<1>3. CASE Here(r)
  <2>1. Render(p, Settled(r), FALSE) /\ Mounted
    BY <1>3 DEF TenantsListed, Here
  <2> HIDE DEF id
  <2>2. /\ p \in OwnerRows /\ p.mount = owner.mount /\ p.snapshot = owner.snapshot
        /\ p.tenants = list /\ p.active = id /\ ~p.loading
    BY <1>2, AnsweredPromise DEF OwnerRows
  <2> HIDE DEF p
  <2>3. Listed(p) /\ Caused(p, Settled(r), sequence)
    BY <1>2, <2>2 DEF Listed, Caused
  <2>4. /\ p.mount \in Mounts /\ p.snapshot.number <= sequence[p.mount]
        /\ sequence \in [Mounts -> Nat] /\ RequestsOK(Settled(r), p.mount, sequence, asked)
    <3>1. owner.mount \in Mounts /\ owner.snapshot.number <= sequence[owner.mount]
      BY <2>1, MountedInv
    <3>2. sequence \in [Mounts -> Nat] /\ RequestsOK(Settled(r), owner.mount, sequence, asked)
      BY AnsweredPromise
    <3> QED
      BY <2>2, <3>1, <3>2
  <2>5. Left(owner.mount, asked) /\ Caused(owner', requests', sequence')
        /\ owner'.snapshot \in {owner.snapshot, NoSnapshot}
    BY <2>1, <2>2, <2>3, <2>4, RenderKeeps
  <2>6. SessionInv'
    BY <1>1, <1>2, <2>1, <2>5, AnsweredPromise, QuietStep
  <2> QED
    BY <2>1, <2>5, <2>6, MountedInv DEF Newer
<1>4. CASE ~Here(r)
  BY <1>1, <1>2, <1>4, AnsweredPromise, DroppedAnswer DEF TenantsListed
<1> QED
  BY <1>3, <1>4

LEMMA CommandKeeps ==
  ASSUME SessionInv, NEW r \in requests, CommandDone(r)
  PROVE  SessionInv' /\ Newer
<1> DEFINE p == IF Here(r) THEN Waiting(owner) ELSE owner
<1>1. /\ r.kind = "COMMAND" /\ UNCHANGED <<auth, stored, asked>>
      /\ LoadSnapshot(p, r.mount, r.tenant, Settled(r))
  BY DEF CommandDone
<1>2. /\ p \in OwnerRows /\ p.mount = owner.mount /\ p.tenants = owner.tenants
      /\ p.active = owner.active /\ p.snapshot = owner.snapshot
  BY AnsweredPromise, WaitingRow
<1>3. OwnerOK(p, sequence)
  BY <1>2, AnsweredPromise DEF OwnerOK, Listed
<1>4. p = owner \/ (Here(r) /\ r.mount = p.mount)
  BY <1>2 DEF Here
<1>5. ~Mounted => p = owner
  BY DEF Here
<1> HIDE DEF p
<1>6. /\ Left(owner.mount, asked) /\ owner' = p
      /\ r.mount = p.mount \/ Caused(p, Settled(r), sequence) => Caused(owner', requests', sequence')
  BY <1>1, <1>2, <1>3, AnsweredPromise, LoadKeeps
<1>7. Mounted => auth.signingOut \/ Caused(owner', requests', sequence')
  <2>1. CASE r.mount = p.mount
    BY <1>6, <2>1
  <2>2. CASE r.mount # p.mount
    <3>1. Mounted => auth.signingOut \/ Caused(owner, Settled(r), sequence)
      BY <1>2, <2>2, OthersEndTheSpinner DEF Here
    <3> QED
      BY <1>4, <1>6, <2>2, <3>1
  <2> QED
    BY <2>1, <2>2
<1>8. SessionInv'
  BY <1>1, <1>5, <1>6, <1>7, AnsweredPromise, QuietStep
<1>9. owner'.snapshot = owner.snapshot /\ owner.snapshot.number \in Nat
  BY <1>2, <1>6, AnsweredPromise DEF OwnerRows
<1> QED
  BY <1>8, <1>9 DEF Newer

LEMMA JoinedKeeps ==
  ASSUME SessionInv, NEW r \in requests, NEW tenant \in Tenants, Joined(r, tenant)
  PROVE  SessionInv' /\ Newer
<1> DEFINE p == IF Here(r) THEN Waiting(owner) ELSE owner
           q == Request("TENANTS", r.mount, asked, r.tenant, tenant)
<1>1. /\ r.kind = "JOIN" /\ UNCHANGED <<auth, sequence, stored>> /\ asked' = asked + 1
      /\ owner' = p /\ requests' = Settled(r) \cup {q}
  BY DEF Joined
<1>2. /\ p \in OwnerRows /\ p.mount = owner.mount /\ p.tenants = owner.tenants
      /\ p.active = owner.active /\ p.snapshot = owner.snapshot
  BY AnsweredPromise, WaitingRow
<1>3. OwnerOK(p, sequence)
  BY <1>2, AnsweredPromise DEF OwnerOK, Listed
<1>4. p = owner \/ (Here(r) /\ r.mount = p.mount)
  BY <1>2 DEF Here
<1>5. ~Mounted => p = owner
  BY DEF Here
<1>6. q.kind = "TENANTS" /\ q.mount = r.mount
  BY DEF Request
<1>7. RequestsOK(requests', owner.mount, sequence, asked + 1)
  BY <1>1, AnsweredPromise, OtherPromise DEF Ids
<1> HIDE DEF p, q
<1>8. Left(owner.mount, asked + 1)
  BY <1>1, <1>2, <1>3, <1>7, AnsweredPromise DEF Left
<1>9. Mounted => auth.signingOut \/ Caused(owner', requests', sequence')
  <2>1. CASE r.mount = p.mount
    BY <1>1, <1>6, <2>1 DEF Caused, EndsSpinner
  <2>2. CASE r.mount # p.mount
    <3>1. Mounted => auth.signingOut \/ Caused(owner, Settled(r), sequence)
      BY <1>2, <2>2, OthersEndTheSpinner DEF Here
    <3> QED
      BY <1>1, <1>4, <2>2, <3>1, CausedStays
  <2> QED
    BY <2>1, <2>2
<1>10. asked + 1 \in Nat /\ stored' \in Ids /\ auth' \in AuthRows
  BY <1>1, AnsweredPromise
<1>11. SessionInv'
  BY <1>1, <1>5, <1>8, <1>9, <1>10, QuietStep
<1>12. owner'.snapshot = owner.snapshot /\ owner.snapshot.number \in Nat
  BY <1>1, <1>2, AnsweredPromise DEF OwnerRows
<1> QED
  BY <1>11, <1>12 DEF Newer

\* Every error of a request, whoever asked and whether the component is still there.
LEMMA FailureKeeps ==
  ASSUME SessionInv, NEW r \in requests, NEW status \in ErrorStatuses, Fails(r, status)
  PROVE  SessionInv' /\ Newer
<1> USE AnsweredPromise
<1>1. CASE FormFails(r)
  BY <1>1, DroppedAnswer DEF FormFails, Handled
<1>2. CASE StaleFailure(r)
  BY <1>2, DroppedAnswer DEF StaleFailure, Handled
<1>3. CASE Unauthenticated(r)
  <2>1. /\ auth' = [auth EXCEPT !.expired = TRUE, !.signingOut = @ \/ ~auth.expired]
        /\ requests' = Settled(r) /\ UNCHANGED <<sequence, stored, asked>>
    BY <1>3 DEF Unauthenticated, ExpireSession
  <2>2. /\ auth' \in AuthRows /\ auth'.status = auth.status /\ auth'.user = auth.user
        /\ auth'.signingOut = (auth.signingOut \/ ~auth.expired)
    BY <2>1 DEF AuthRows
  <2>3. CASE Here(r) /\ auth.expired
    <3>1. owner' = [owner EXCEPT !.loading = FALSE] /\ Mounted
      BY <1>3, <2>3 DEF Unauthenticated, Here
    <3>2. /\ owner' \in OwnerRows /\ owner'.mount = owner.mount /\ owner'.tenants = owner.tenants
          /\ owner'.active = owner.active /\ owner'.snapshot = owner.snapshot /\ ~owner'.loading
      BY <3>1 DEF OwnerRows
    <3>3. OwnerOK(owner', sequence)
      BY <3>2 DEF OwnerOK, Listed
    <3>4. Left(owner.mount, asked) /\ Caused(owner', requests', sequence')
      BY <2>1, <3>2, <3>3 DEF Left, Caused
    <3>5. SessionInv'
      BY <2>1, <2>2, <3>1, <3>4, QuietStep
    <3>6. owner.snapshot.number \in Nat
      BY DEF OwnerRows
    <3> QED
      BY <3>2, <3>5, <3>6 DEF Newer
  <2>4. CASE Here(r) /\ ~auth.expired
    <3>1. owner' = owner
      BY <1>3, <2>4 DEF Unauthenticated
    <3>2. auth'.signingOut
      BY <2>2, <2>4
    <3>3. Left(owner.mount, asked)
      BY <2>1, <3>1 DEF Left
    <3>4. SessionInv'
      BY <2>1, <2>2, <3>1, <3>2, <3>3, QuietStep
    <3>5. owner.snapshot.number \in Nat
      BY DEF OwnerRows
    <3> QED
      BY <3>1, <3>4, <3>5 DEF Newer
  <2>5. CASE ~Here(r)
    <3>1. owner' = owner
      BY <1>3, <2>5 DEF Unauthenticated
    <3> QED
      BY <2>1, <2>2, <2>5, <3>1, DroppedAnswer
  <2> QED
    BY <2>3, <2>4, <2>5
<1>4. CASE Forbidden(r)
  <2>1. stored' = None /\ UNCHANGED <<auth, asked>> /\ stored' \in Ids
    BY <1>4 DEF Forbidden, Ids
  <2>2. CASE Here(r)
    <3> DEFINE p == Forgotten(owner)
    <3>1. Render(p, Settled(r), FALSE) /\ Mounted
      BY <1>4, <2>2 DEF Forbidden, Here
    <3>2. /\ p \in OwnerRows /\ p.mount = owner.mount /\ p.tenants = {} /\ p.active = None
          /\ p.snapshot = NoSnapshot /\ ~p.loading
      BY ForgottenRow
    <3> HIDE DEF p
    <3>3. Listed(p) /\ Caused(p, Settled(r), sequence)
      BY <3>2 DEF Listed, Caused
    <3>4. /\ p.mount \in Mounts /\ sequence[p.mount] \in Nat
          /\ RequestsOK(Settled(r), p.mount, sequence, asked)
      BY <3>1, <3>2, MountedInv
    <3>5. p.snapshot.number <= sequence[p.mount]
      BY <3>2, <3>4 DEF NoSnapshot
    <3>6. Left(owner.mount, asked) /\ Caused(owner', requests', sequence')
          /\ owner'.snapshot = NoSnapshot
      BY <3>1, <3>2, <3>3, <3>4, <3>5, RenderKeeps
    <3>7. SessionInv'
      BY <2>1, <3>1, <3>6, QuietStep
    <3> QED
      BY <3>6, <3>7 DEF Newer
  <2>3. CASE ~Here(r)
    BY <1>4, <2>1, <2>3, DroppedAnswer DEF Forbidden
  <2> QED
    BY <2>2, <2>3
<1>5. CASE ServerFails(r, status)
  <2> DEFINE kind == IF status = 0 THEN "NETWORK" ELSE "SERVER"
  <2>1. requests' = Settled(r) /\ UNCHANGED <<auth, sequence, stored, asked>> /\ kind \in Errors
    BY <1>5 DEF ServerFails, Errors
  <2>2. CASE Here(r)
    <3>1. owner' = Failed(owner, kind)
      BY <1>5, <2>2 DEF ServerFails
    <3> HIDE DEF kind
    <3>2. /\ owner' \in OwnerRows /\ owner'.mount = owner.mount /\ owner'.tenants = owner.tenants
          /\ owner'.active = owner.active /\ owner'.snapshot = owner.snapshot /\ ~owner'.loading
      BY <2>1, <3>1, FailedRow
    <3>3. OwnerOK(owner', sequence)
      BY <3>2 DEF OwnerOK, Listed
    <3>4. SessionInv'
      BY <2>1, <2>2, <3>2, <3>3, TakenAnswer
    <3>5. owner.snapshot.number \in Nat
      BY DEF OwnerRows
    <3> QED
      BY <3>2, <3>4, <3>5 DEF Newer
  <2>3. CASE ~Here(r)
    BY <1>5, <2>1, <2>3, DroppedAnswer DEF ServerFails
  <2> QED
    BY <2>2, <2>3
<1> QED
  BY <1>1, <1>2, <1>3, <1>4, <1>5 DEF Fails

LEMMA AnswerKeepsSession ==
  ASSUME SessionInv, NEW r \in requests, Answers(r)
  PROVE  SessionInv' /\ Newer
<1>1. ASSUME NEW list \in SUBSET Tenants, NEW first \in Tenants \cup {None}, TenantsListed(r, list, first)
      PROVE  SessionInv' /\ Newer
  BY <1>1, ListKeeps
<1>2. ASSUME NEW tenant \in Tenants, Joined(r, tenant) PROVE SessionInv' /\ Newer
  BY <1>2, JoinedKeeps
<1>3. ASSUME NEW status \in ErrorStatuses, Fails(r, status) PROVE SessionInv' /\ Newer
  BY <1>3, FailureKeeps
<1>4. CASE SnapshotArrives(r)
  BY <1>4, SnapshotKeeps
<1>5. CASE CommandDone(r)
  BY <1>5, CommandKeeps
<1> QED
  BY <1>1, <1>2, <1>3, <1>4, <1>5 DEF Answers

LEMMA StutterKeepsSession ==
  ASSUME SessionInv, UNCHANGED sessionVars
  PROVE  SessionInv' /\ (owner'.snapshot = owner.snapshot)
BY DEF sessionVars, SessionInv, Mounted

LEMMA StepKeepsSession ==
  ASSUME SessionInv, [NextSession]_sessionVars
  PROVE  SessionInv' /\ (NextSession => Newer)
<1>1. CASE UNCHANGED sessionVars
  <2>1. SessionInv' /\ owner'.snapshot = owner.snapshot
    BY <1>1, StutterKeepsSession
  <2>2. owner.snapshot.number \in Nat
    BY DEF SessionInv, OwnerOK, OwnerRows
  <2> QED
    BY <2>1, <2>2 DEF Newer
<1>2. CASE NextSession
  <2>1. ASSUME NEW r \in requests, Answers(r) PROVE SessionInv' /\ Newer
    BY <2>1, AnswerKeepsSession
  <2>2. ASSUME NEW t \in Tenants, SelectTenant(t) \/ SelectRefused(t) PROVE SessionInv' /\ Newer
    BY <2>2, SelectKeeps
  <2> QED
    BY <1>2, <2>1, <2>2, SessionStepsKeep, RefreshKeeps, AsksKeep DEF NextSession
<1> QED
  BY <1>1, <1>2

LEMMA SessionInvHolds == SessionSpec => []SessionInv
<1>1. SessionInv /\ [NextSession]_sessionVars => SessionInv'
  BY StepKeepsSession
<1> QED
  BY <1>1, InitHasSessionInv, PTL DEF SessionSpec

-----------------------------------------------------------------------------
(* The theorems.                                                           *)

\* For any accounts and businesses: there is a user exactly while the session is authenticated, and
\* no promise is outstanding that was not asked for. (AuthContext, ProductionOwnerContext)
THEOREM SessionTypes == SessionSpec => []SessionTypeOK
<1>1. SessionInv => SessionTypeOK
  BY DEF SessionInv, SessionTypeOK, OwnerOK, OwnerRows, RequestsOK, AuthRows, Ids, Errors
<1> QED
  BY <1>1, SessionInvHolds, PTL

\* Whatever was stored, selected, preferred or captured, the active business is one that the server
\* listed. (refreshTenants, selectTenant)
THEOREM ActiveIsAlwaysListed == SessionSpec => []ActiveIsListed
<1>1. SessionInv => ActiveIsListed
  BY DEF SessionInv, OwnerOK, Listed, ActiveIsListed
<1> QED
  BY <1>1, SessionInvHolds, PTL

\* In whatever order promises settle, a page of a user with a business that waits has something to
\* wait for. (loadSnapshot, refreshTenants, expireSession)
THEOREM SpinnersHaveCauses == SessionSpec => []SpinnerHasCause
<1>1. SessionInv => SpinnerHasCause
  BY DEF SessionInv, Caused, EndsSpinner, SpinnerHasCause, Handled, Current
<1> QED
  BY <1>1, SessionInvHolds, PTL

\* In whatever order snapshots arrive, a mount never goes back to an older one. (loadSnapshot)
THEOREM SnapshotsAreNeverOlder == SessionSpec => NewerSnapshotsOnly
<1> DEFINE Forward == owner'.mount = owner.mount /\ owner'.snapshot # NoSnapshot =>
                        owner'.snapshot.number >= owner.snapshot.number
<1>1. SessionInv /\ [NextSession]_sessionVars => [Forward]_sessionVars
  BY StepKeepsSession DEF Newer
<1>2. SessionSpec => [][Forward]_sessionVars
  BY <1>1, SessionInvHolds, PTL DEF SessionSpec
<1> QED
  BY <1>2 DEF NewerSnapshotsOnly
=============================================================================
