---------------------------- MODULE FollowUpJobs ----------------------------
(***************************************************************************)
(* What the follow_up_jobs table promises to the rest of the server: a     *)
(* follow-up is tried a bounded number of times, one result at a time, and *)
(* is never touched again once it was sent or cancelled. Who tries it, on  *)
(* which lease and after which failures is FollowUpWorker's business; what *)
(* else the operations change is OpportunityRecovery's.                    *)
(***************************************************************************)
EXTENDS Integers

CONSTANTS Jobs,        \* identities of follow-ups
          MaxAttempts  \* max_attempts, a positive number

VARIABLE followUps

FollowUpStatuses == {"scheduled", "leased", "failed", "completed", "cancelled"}

\* "ABSENT": the follow-up was not created yet.
FollowUpType == [status : FollowUpStatuses \cup {"ABSENT"}, attempts : 0 .. MaxAttempts]

Open == {"scheduled", "failed", "leased"}

NotCreated == [status |-> "ABSENT", attempts |-> 0]
Created    == [status |-> "scheduled", attempts |-> 0]

Init == followUps \in [Jobs -> {NotCreated, Created}]

Schedule(j) ==
  /\ followUps[j].status = "ABSENT"
  /\ followUps' = [followUps EXCEPT ![j] = Created]

MayBeTried(followUp) == followUp.status \in Open /\ followUp.attempts < MaxAttempts

Claim(j) ==
  /\ MayBeTried(followUps[j])
  /\ followUps' = [followUps EXCEPT ![j].status = "leased"]

TakesResult(status) == status = "leased"

Record(j, result) ==
  /\ TakesResult(followUps[j].status)
  /\ followUps' = [followUps EXCEPT
       ![j] = [status   |-> IF result = "sent" THEN "completed" ELSE "failed",
               attempts |-> followUps[j].attempts + 1]]

\* One operation may cancel the follow-ups of a conversation or of a customer.
Cancel(cancelled) ==
  /\ \A j \in cancelled : followUps[j].status \notin {"ABSENT", "completed"}
  /\ followUps' = [j \in Jobs |->
       IF j \in cancelled THEN [followUps[j] EXCEPT !.status = "cancelled"] ELSE followUps[j]]

Next ==
  \/ \E j \in Jobs : \/ Schedule(j)
                     \/ Claim(j)
                     \/ \E result \in {"sent", "failed"} : Record(j, result)
  \/ \E cancelled \in SUBSET Jobs : Cancel(cancelled)

Spec == Init /\ [][Next]_followUps

\* A follow-up is tried at most MaxAttempts times, and one that is being tried
\* has an attempt left to be recorded; what is sent or failed was tried.
AttemptsAreBounded ==
  /\ followUps \in [Jobs -> FollowUpType]
  /\ \A j \in Jobs :
       /\ followUps[j].status = "leased" => followUps[j].attempts < MaxAttempts
       /\ followUps[j].status \in {"failed", "completed"} => followUps[j].attempts > 0

\* What was sent stays sent and what was cancelled stays cancelled, with the
\* attempts it had.
SettledStaysSettled ==
  [][\A j \in Jobs : followUps[j].status \in {"completed", "cancelled"} =>
       followUps'[j] = followUps[j]]_followUps
=============================================================================
