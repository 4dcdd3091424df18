------------------------- MODULE FollowUpJobsProofs -------------------------
(***************************************************************************)
(* Proofs about FollowUpJobs, for any number of follow-ups and attempts.   *)
(***************************************************************************)
EXTENDS FollowUpJobs, TLAPS

SomeAttempts == MaxAttempts \in Nat \ {0}

LEMMA BoundedStep ==
  SomeAttempts /\ AttemptsAreBounded /\ [Next]_followUps => AttemptsAreBounded'
<1> SUFFICES ASSUME SomeAttempts, AttemptsAreBounded, [Next]_followUps PROVE AttemptsAreBounded'
  OBVIOUS
<1>a. MaxAttempts \in Nat \ {0}
  BY DEF SomeAttempts
<1>t. \A j \in Jobs : followUps[j] \in FollowUpType
  BY DEF AttemptsAreBounded
<1>1. ASSUME NEW j \in Jobs, Schedule(j) PROVE AttemptsAreBounded'
  <2>1. Created \in FollowUpType /\ Created.status = "scheduled"
    BY <1>a DEF Created, FollowUpType, FollowUpStatuses
  <2> QED
    BY <1>1, <2>1 DEF Schedule, AttemptsAreBounded
<1>2. ASSUME NEW j \in Jobs, Claim(j) PROVE AttemptsAreBounded'
  BY <1>2, <1>t DEF Claim, MayBeTried, AttemptsAreBounded, FollowUpType, FollowUpStatuses
<1>3. ASSUME NEW j \in Jobs, NEW result \in {"sent", "failed"}, Record(j, result)
      PROVE  AttemptsAreBounded'
  <2> DEFINE st == IF result = "sent" THEN "completed" ELSE "failed"
             n  == followUps[j].attempts + 1
  <2>1. n \in 1 .. MaxAttempts /\ st \in {"completed", "failed"}
    BY <1>3, <1>t, <1>a DEF Record, TakesResult, AttemptsAreBounded, FollowUpType
  <2>2. followUps' = [followUps EXCEPT ![j] = [status |-> st, attempts |-> n]]
    BY <1>3 DEF Record
  <2> HIDE DEF st, n
  <2> QED
    BY <2>1, <2>2, <1>a DEF AttemptsAreBounded, FollowUpType, FollowUpStatuses
<1>4. ASSUME NEW cancelled \in SUBSET Jobs, Cancel(cancelled) PROVE AttemptsAreBounded'
  <2>1. \A j \in Jobs : /\ [followUps[j] EXCEPT !.status = "cancelled"] \in FollowUpType
                        /\ [followUps[j] EXCEPT !.status = "cancelled"].status = "cancelled"
    BY <1>t DEF FollowUpType, FollowUpStatuses
  <2> QED
    BY <1>4, <1>t, <2>1 DEF Cancel, AttemptsAreBounded
<1>5. CASE UNCHANGED followUps
  BY <1>5 DEF AttemptsAreBounded
<1> QED
  BY <1>1, <1>2, <1>3, <1>4, <1>5 DEF Next

\* The bound on attempts, which only the claim's guard establishes, survives
\* any order of claims, results and cancellations.
THEOREM AttemptsAreAlwaysBounded ==
  ASSUME SomeAttempts PROVE Spec => []AttemptsAreBounded
<1>1. Init => AttemptsAreBounded
  <2>1. /\ Created \in FollowUpType /\ Created.status = "scheduled"
        /\ NotCreated \in FollowUpType /\ NotCreated.status = "ABSENT"
    BY DEF SomeAttempts, Created, NotCreated, FollowUpType, FollowUpStatuses
  <2> QED
    BY <2>1 DEF Init, AttemptsAreBounded
<1> QED
  BY <1>1, BoundedStep, PTL DEF Spec

\* No claim, result or cancellation changes a follow-up that was sent or cancelled.
THEOREM SettledAlwaysStaysSettled ==
  ASSUME SomeAttempts PROVE Spec => SettledStaysSettled
<1> DEFINE Kept == \A j \in Jobs : followUps[j].status \in {"completed", "cancelled"} =>
                     followUps'[j] = followUps[j]
<1>1. AttemptsAreBounded /\ [Next]_followUps => Kept
  <2> SUFFICES ASSUME AttemptsAreBounded, [Next]_followUps, NEW j \in Jobs,
                      followUps[j].status \in {"completed", "cancelled"}
               PROVE  followUps'[j] = followUps[j]
    OBVIOUS
  <2>1. \A i \in Jobs : followUps[i] \in FollowUpType
    BY DEF AttemptsAreBounded
  <2>2. CASE \E i \in Jobs : Schedule(i) \/ Claim(i) \/ \E r \in {"sent", "failed"} : Record(i, r)
    BY <2>2 DEF Schedule, Claim, MayBeTried, Open, Record, TakesResult, AttemptsAreBounded
  <2>3. ASSUME NEW cancelled \in SUBSET Jobs, Cancel(cancelled) PROVE followUps'[j] = followUps[j]
    <3>1. CASE j \in cancelled
      BY <2>1, <2>3, <3>1 DEF Cancel, FollowUpType
    <3>2. CASE j \notin cancelled
      BY <2>3, <3>2 DEF Cancel
    <3> QED
      BY <3>1, <3>2
  <2> QED
    BY <2>2, <2>3 DEF Next
<1>2. SettledStaysSettled <=> [][Kept]_followUps
  BY DEF SettledStaysSettled
<1> QED
  BY <1>1, <1>2, AttemptsAreAlwaysBounded, PTL DEF Spec
=============================================================================
