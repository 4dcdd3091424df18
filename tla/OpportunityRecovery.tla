------------------------ MODULE OpportunityRecovery ------------------------
(***************************************************************************)
(* The recovery life cycle of one tenant's opportunities as the PostgreSQL *)
(* store keeps it: opportunities with their conversation, customer         *)
(* consent, persisted recovery actions and follow-up jobs.  An HTTP        *)
(* request runs its operation in one transaction, and every error rolls    *)
(* the transaction back.  An operation whose first statement locks the row *)
(* it is about is one action.  Four operations decide from rows that they  *)
(* read without a lock and write later: an evaluation, a follow-up, a      *)
(* reactivation and a revenue entry.  Each of them is two actions, and     *)
(* between the two the request keeps what it read while others go on.      *)
(*                                                                         *)
(* A lead, its conversation and its opportunity are created together and   *)
(* are one to one: the conversation is part of the opportunity record.     *)
(***************************************************************************)
EXTENDS RecoveryPolicy, FiniteSets, FiniteSetsExt

CONSTANTS Customers,        \* the tenant's customers
          Opportunities,    \* identities of opportunities
          CustomerOf,       \* the customer that each opportunity is about
          Actions,          \* identities of recovery actions
          Jobs,             \* identities of follow-up jobs
          Requests,         \* slots of the requests in flight that read without a lock
          ClientAttributions, \* attributions that clients of the revenue ledger claim
          Profiles,         \* what an inquiry fixes for good (ProfileType below)
          LegacyStatuses,   \* statuses of the rows that migration 0004 may have left
          DayLength,        \* clock ticks in 24 hours
          ContactHours,     \* ticks of the day inside the contact window
          MaxTime,          \* bound of the clock
          ManyAttempts,     \* attempts from which the score is lowered (3)
          MaxAttempts       \* max_attempts of a follow-up job (5)

ProfileType == [autonomy : AutonomyLevels, highValue : BOOLEAN,
                serviceIntent : BOOLEAN, missedCall : BOOLEAN]

AttributionTypes == {"GENERATED", "RECOVERED", "ASSISTED", "ORGANIC"}

ASSUME RecoveryAssumptions ==
  /\ Opportunities # {}
  /\ CustomerOf \in [Opportunities -> Customers]
  /\ Profiles \subseteq ProfileType /\ Profiles # {}
  /\ ClientAttributions \subseteq AttributionTypes
  /\ LegacyStatuses \subseteq {"NEW", "ENGAGED", "QUALIFIED", "WON", "LOST", "SNOOZED"}
  /\ DayLength \in Nat \ {0}
  /\ ContactHours \subseteq 0 .. (DayLength - 1)
  /\ MaxTime \in Nat
  /\ ManyAttempts \in Nat \ {0}
  /\ MaxAttempts \in Nat \ {0}
  /\ IsFiniteSet(Jobs)

VARIABLES customers,      \* consent of each customer
          opportunities,  \* opportunity and conversation rows
          actions,        \* recovery_actions rows
          jobs,           \* follow_up_jobs rows
          reads,          \* what each request in flight has read without a lock
          now             \* the clock that validity periods are compared with

vars == <<customers, opportunities, actions, jobs, reads, now>>

-----------------------------------------------------------------------------
(* Rows *)

\* A row that does not exist yet.
Absent == "ABSENT"

CustomerType == [optedOut : BOOLEAN, operational : BOOLEAN, marketing : BOOLEAN]

Modes == {"AI_ACTIVE", "HUMAN_ACTIVE"}

\* lead: the lead row is LOST (only then can a copilot reactivate it).
OpportunityType ==
  [status : Statuses \cup {Absent}, recovery : RecoveryStates, profile : ProfileType,
   mode : Modes, openHandoff : BOOLEAN, replied : BOOLEAN,
   answered : BOOLEAN, estimate : BOOLEAN, rejected : BOOLEAN, leadLost : BOOLEAN,
   attribution : AttributionTypes \cup {None}]

\* validUntil 0 is the code's null: an action that never expires.
ActionType ==
  [status : ActionStatuses \cup {Absent}, opportunity : Opportunities, kind : ActionKinds,
   reason : SuppressionReasons \cup {None}, requiresApproval : BOOLEAN,
   approved : BOOLEAN, validUntil : Nat]

JobStatuses == {"scheduled", "leased", "failed", "completed", "cancelled"}

JobType == [status : JobStatuses \cup {Absent}, opportunity : Opportunities,
            attempts : Nat]

\* A slot without a request.
Idle == [purpose |-> None]

\* What the query of evaluateOpportunityRecovery takes from rows that it does
\* not lock: FOR UPDATE OF opportunity waits for that row and reads it again,
\* the conversation, the customer and the attempts stay as they were.
EvaluationReading ==
  [purpose : {"EVALUATION"}, opportunity : Opportunities, mode : Modes, replied : BOOLEAN,
   consent : CustomerType, manyAttempts : BOOLEAN]

\* A follow-up and a reactivation keep nothing but that contact was allowed.
ContactReading == [purpose : {"FOLLOW_UP", "REACTIVATION"}, opportunity : Opportunities]

RevenueReading ==
  [purpose : {"REVENUE_ENTRY"}, opportunity : Opportunities,
   attribution : AttributionTypes \cup {None}]

Readings == {Idle} \cup EvaluationReading \cup ContactReading \cup RevenueReading

\* Every variable holds rows of its table, and every slot a reading.
TypeOK ==
  /\ customers \in [Customers -> CustomerType]
  /\ opportunities \in [Opportunities -> OpportunityType]
  /\ actions \in [Actions -> ActionType]
  /\ jobs \in [Jobs -> JobType]
  /\ reads \in [Requests -> Readings]
  /\ now \in Nat \ {0}

-----------------------------------------------------------------------------
(* Vocabulary of the store's WHERE clauses *)

LiveStatuses == {"PENDING", "READY", "WAITING_APPROVAL", "EXECUTING", "WAITING_CUSTOMER",
                 "HUMAN_REQUIRED"}

\* Plausible error: send-ready work is not thought of as pending.
PendingStatuses == LiveStatuses \ {"HUMAN_REQUIRED", "READY"}

\* The live statuses other than HUMAN_REQUIRED: work an assistant prepared.
PreparedStatuses == LiveStatuses \ {"HUMAN_REQUIRED"}

\* Plausible error: a follow-up that a worker holds is left alone.
UnclaimedJobStatuses == {"scheduled", "failed"}

OpenJobStatuses == {"scheduled", "failed", "leased"}

\* Where a follow-up ends; nothing claims it from there.
SettledJobStatuses == {"completed", "cancelled"}

\* Plausible error: do-not-contact work is not thought of as closed.
OnlyWon == {"WON"}

Closed == {"WON", "DO_NOT_CONTACT"}

\* Plausible error: the check the in-memory store makes, which is none.
AnyStatus == Statuses

Bookable == {"NEW", "CONTACTING", "ENGAGED", "QUALIFIED"}

Exists(o) == opportunities[o].status # Absent

ActionsOf(o) == {a \in Actions : actions[a].status # Absent /\ actions[a].opportunity = o}

LiveActionsOf(o) == {a \in ActionsOf(o) : actions[a].status \in LiveStatuses}

JobsOf(o) == {j \in Jobs : jobs[j].status # Absent /\ jobs[j].opportunity = o}

\* Plausible error: validity is not looked at.
NeverExpired(a) == FALSE

Expired(a) == actions[a].validUntil # 0 /\ actions[a].validUntil <= now

InContactWindow == now % DayLength \in ContactHours

Contactable(consent) == ~consent.optedOut /\ consent.operational

\* SUM(attempt_count) over the conversation's jobs.
FollowUpAttempts(o) == MapThenSumSet(LAMBDA j : jobs[j].attempts, JobsOf(o))

\* Bulk updates: what an UPDATE ... WHERE does to the rows it selects.
WithStatus(row, status) == [row EXCEPT !.status = status]

ActionsCancelled(S) ==
  [a \in Actions |-> IF a \in S THEN WithStatus(actions[a], "CANCELLED") ELSE actions[a]]

JobsCancelled(S) ==
  [j \in Jobs |-> IF j \in S /\ jobs[j].status \in OpenJobStatuses
                  THEN WithStatus(jobs[j], "cancelled") ELSE jobs[j]]

\* The CHECK constraints on opportunities: a statement that breaks one fails
\* and takes its whole transaction with it.
RowAllowed(status, recovery) ==
  /\ status = "WON" => recovery \in {"RECOVERED", "NOT_AT_RISK"}
  /\ status = "DO_NOT_CONTACT" => recovery = "STOPPED"

-----------------------------------------------------------------------------
(* Initial states *)

\* recovery_state that migration 0004 gives a legacy lead.
LegacyRecovery(status) ==
  IF status = "LOST" THEN "AT_RISK" ELSE IF status = "SNOOZED" THEN "STOPPED" ELSE "NOT_AT_RISK"

LegacyProfiles == [autonomy : {"SUGGEST"}, highValue : BOOLEAN, serviceIntent : {FALSE},
                   missedCall : {FALSE}]

\* A lead that was there before opportunities were, as migration 0004 imports it.
LegacyOpportunities(status) ==
  {op \in [status : {status}, recovery : {LegacyRecovery(status)}, profile : LegacyProfiles,
           mode : Modes, openHandoff : BOOLEAN, replied : BOOLEAN, answered : BOOLEAN,
           estimate : BOOLEAN, rejected : {FALSE, status = "LOST"},
           leadLost : {status = "LOST"},
           attribution : {IF status = "WON" THEN "ORGANIC" ELSE None}] :
     op.openHandoff = (op.mode = "HUMAN_ACTIVE")}

NoOpportunity ==
  [status |-> Absent, recovery |-> "NOT_AT_RISK", profile |-> CHOOSE p \in Profiles : TRUE,
   mode |-> "AI_ACTIVE", openHandoff |-> FALSE, replied |-> FALSE, answered |-> FALSE,
   estimate |-> FALSE, rejected |-> FALSE, leadLost |-> FALSE, attribution |-> None]

\* Which opportunity an absent row carries does not matter: it is written on creation.
NoAction(o) ==
  [status |-> Absent, opportunity |-> o, kind |-> "WAIT", reason |-> None,
   requiresApproval |-> FALSE, approved |-> FALSE, validUntil |-> 0]

NoJob(o) == [status |-> Absent, opportunity |-> o, attempts |-> 0]

\* Contact is allowed by default; marketing only by an import.
Init ==
  /\ customers \in [Customers -> [optedOut : {FALSE}, operational : {TRUE},
                                  marketing : {FALSE, LegacyStatuses # {}}]]
  /\ opportunities \in
       [Opportunities -> {NoOpportunity} \cup UNION {LegacyOpportunities(st) : st \in LegacyStatuses}]
  /\ actions = [a \in Actions |-> NoAction(CHOOSE o \in Opportunities : TRUE)]
  /\ jobs = [j \in Jobs |-> NoJob(CHOOSE o \in Opportunities : TRUE)]
  /\ reads = [r \in Requests |-> Idle]
  /\ now = 1

-----------------------------------------------------------------------------
(* Store operations *)

NewOpportunity(profile) ==
  [NoOpportunity EXCEPT !.status = "NEW", !.recovery = "AT_RISK", !.profile = profile]

\* createJourney and createOpportunity: a new lead, conversation and opportunity.
\* Neither looks at the customer's consent.
CreateOpportunity(o, profile) ==
  /\ ~Exists(o)
  /\ opportunities' = [opportunities EXCEPT ![o] = NewOpportunity(profile)]
  /\ UNCHANGED <<customers, actions, jobs, reads, now>>

-----------------------------------------------------------------------------
(* Requests that read before they lock *)

Begins(r, reading) ==
  /\ reads[r] = Idle
  /\ reads' = [reads EXCEPT ![r] = reading]
  /\ UNCHANGED <<customers, opportunities, actions, jobs, now>>

Pending(r, purpose) == reads[r].purpose = purpose

Ends(r) == reads' = [reads EXCEPT ![r] = Idle]

\* The request ends and has changed nothing: it was refused, it failed and was
\* rolled back, or it found the action that is already there.
EndUnchanged(r) ==
  /\ reads[r] # Idle
  /\ Ends(r)
  /\ UNCHANGED <<customers, opportunities, actions, jobs, now>>

\* The query that opens evaluateOpportunityRecovery.
BeginEvaluation(r, o) ==
  /\ Exists(o)
  /\ Begins(r, [purpose |-> "EVALUATION", opportunity |-> o, mode |-> opportunities[o].mode,
               replied |-> opportunities[o].replied, consent |-> customers[CustomerOf[o]],
               manyAttempts |-> FollowUpAttempts(o) >= ManyAttempts])

\* The observation that the store reconstructs: the opportunity as it is, the
\* rest as it was read. Elapsed times are free within what the rows allow: a
\* recent reply needs a reply, an open follow-up window an answer of the
\* business (legacy conversations only).
Observation(reading, recent, window) ==
  LET op == opportunities[reading.opportunity]
  IN  [status |-> op.status, recovery |-> op.recovery, autonomy |-> op.profile.autonomy,
       missedCall |-> op.profile.missedCall, highValue |-> op.profile.highValue,
       serviceIntent |-> op.profile.serviceIntent, estimate |-> op.estimate,
       rejected |-> op.rejected, replied |-> reading.replied,
       recentReply |-> op.replied /\ recent, businessWindow |-> op.answered /\ window,
       manyAttempts |-> reading.manyAttempts,
       optedOut |-> reading.consent.optedOut, operational |-> reading.consent.operational,
       handoff |-> reading.mode = "HUMAN_ACTIVE", inWindow |-> InContactWindow]

\* recoveryActionValidUntil: a human request is due at once and so expires at
\* once; a stop never expires; everything else is valid for a day.
ValidUntil(ob) ==
  IF NextActionKind(ob) = "REQUEST_HUMAN" THEN now
  ELSE IF NextActionKind(ob) = "STOP_RECOVERY" THEN 0
  ELSE now + DayLength

\* The recovery_actions row of a decision, approved in the same transaction or not.
DecidedAction(o, ob, approved) ==
  [status |-> IF approved THEN "READY" ELSE RecoveryActionStatus(ob), opportunity |-> o,
   kind |-> NextActionKind(ob), reason |-> SuppressionReason(ob),
   requiresApproval |-> NextActionRequiresApproval(ob), approved |-> approved,
   validUntil |-> ValidUntil(ob)]

\* Plausible error: an expired action is passed over but not cancelled.
PassedOver(o) == IF \A a \in LiveActionsOf(o) : Expired(a) THEN {{}} ELSE {}

\* What the evaluation may retire before it decides: nothing when there is no
\* live action, the newest one when it has expired (ORDER BY created_at DESC
\* LIMIT 1; OneLiveAction shows that there is no choice). When it has not, the
\* evaluation returns it and there is no decision.
Retirable(o) ==
  IF LiveActionsOf(o) = {} THEN {{}} ELSE {{a} : a \in {b \in LiveActionsOf(o) : Expired(b)}}

Decided(op, recovery) == [op EXCEPT !.recovery = recovery]

\* evaluateOpportunityRecovery past that point; with ownerApproves, the
\* copilot's PREPARE_OPPORTUNITY_RECOVERY, which approves what it finds waiting.
Evaluate(r, new, recent, window, ownerApproves) ==
  /\ Pending(r, "EVALUATION")
  /\ actions[new].status = Absent
  /\ LET o        == reads[r].opportunity
         ob       == Observation(reads[r], recent, window)
         approved == ownerApproves /\ RecoveryActionStatus(ob) = "WAITING_APPROVAL"
         recovery == IF approved THEN "RECOVERY_ACTIVE" ELSE RecoveryStateAfterDecision(ob)
     IN  /\ RowAllowed(opportunities[o].status, recovery)
         /\ \E retired \in Retirable(o) :
              actions' = [ActionsCancelled(retired) EXCEPT
                            ![new] = DecidedAction(o, ob, approved)]
         /\ opportunities' = [opportunities EXCEPT ![o] = Decided(opportunities[o], recovery)]
  /\ Ends(r)
  /\ UNCHANGED <<customers, jobs, now>>

Approved(action) == [action EXCEPT !.status = "READY", !.approved = TRUE]

Activated(op) ==
  [op EXCEPT !.recovery = IF op.status \in Closed THEN op.recovery ELSE "RECOVERY_ACTIVE"]

\* approveRecoveryAction. An expired action is refused, and the refusal rolls
\* back the cancellation written just before it: nothing changes.
ApproveRecoveryAction(a) ==
  LET o == actions[a].opportunity
  IN  /\ actions[a].status = "WAITING_APPROVAL"
      /\ ~Expired(a)
      /\ actions' = [actions EXCEPT ![a] = Approved(actions[a])]
      /\ opportunities' = [opportunities EXCEPT ![o] = Activated(opportunities[o])]
      /\ UNCHANGED <<customers, jobs, reads, now>>

\* The opportunities that an opt-out of the customer stops.
StoppedByOptOut(c) ==
  {o \in Opportunities : Exists(o) /\ CustomerOf[o] = c /\ opportunities[o].status \notin Closed}

Stopped(op) == [op EXCEPT !.status = "DO_NOT_CONTACT", !.recovery = "STOPPED"]

\* recordCustomerOptOut.
RecordCustomerOptOut(c) ==
  LET stopped == StoppedByOptOut(c)
  IN  /\ customers' = [customers EXCEPT
           ![c] = [optedOut |-> TRUE, operational |-> FALSE, marketing |-> FALSE]]
      /\ opportunities' = [o \in Opportunities |->
           IF o \in stopped THEN Stopped(opportunities[o]) ELSE opportunities[o]]
      /\ actions' = ActionsCancelled({a \in Actions : \E o \in stopped : a \in LiveActionsOf(o)})
      /\ jobs' = JobsCancelled({j \in Jobs : \E o \in Opportunities :
                                  CustomerOf[o] = c /\ j \in JobsOf(o)})
      /\ UNCHANGED <<reads, now>>

StatusAfterReply(status) == IF status \in {"NEW", "CONTACTING"} THEN "ENGAGED" ELSE status

\* Plausible error: a reply ends the wait for a person, too.
RepliedAtLast(op) ==
  [op EXCEPT !.status = StatusAfterReply(op.status), !.recovery = "NOT_AT_RISK", !.replied = TRUE]

Replied(op) ==
  [op EXCEPT !.status = StatusAfterReply(op.status),
             !.recovery = IF op.recovery = "HUMAN_REQUIRED" THEN op.recovery ELSE "NOT_AT_RISK",
             !.replied = TRUE]

RetiredByReply(action) ==
  [action EXCEPT !.status = IF action.status = "WAITING_CUSTOMER" THEN "COMPLETED" ELSE "CANCELLED"]

\* recordCustomerResponse of a message not seen before.
RecordCustomerResponse(o) ==
  /\ Exists(o)
  /\ opportunities[o].status # "DO_NOT_CONTACT"
  /\ opportunities' = [opportunities EXCEPT ![o] = Replied(opportunities[o])]
  /\ jobs' = JobsCancelled(JobsOf(o))
  /\ actions' = [a \in Actions |->
       IF a \in ActionsOf(o) /\ actions[a].status \in PreparedStatuses
       THEN RetiredByReply(actions[a]) ELSE actions[a]]
  /\ UNCHANGED <<customers, reads, now>>

\* Plausible error: a takeover leaves the recovery state to the next evaluation.
OnlyTakenOver(op) == [op EXCEPT !.mode = "HUMAN_ACTIVE", !.openHandoff = TRUE]

HandedOver(op) ==
  [op EXCEPT !.mode = "HUMAN_ACTIVE", !.openHandoff = TRUE,
             !.recovery = IF op.status \in Closed THEN op.recovery ELSE "HUMAN_REQUIRED"]

\* startHumanTakeover of the opportunity's conversation; repeating it reuses the handoff.
StartHumanTakeover(o) ==
  /\ Exists(o)
  /\ opportunities' = [opportunities EXCEPT ![o] = HandedOver(opportunities[o])]
  /\ jobs' = JobsCancelled(JobsOf(o))
  /\ actions' = ActionsCancelled({a \in ActionsOf(o) : actions[a].status \in PreparedStatuses})
  /\ UNCHANGED <<customers, reads, now>>

\* Plausible error: resuming leaves the recovery state to the next evaluation.
RecoveryKept(op) == op.recovery

RecoveryAfterResume(op) ==
  IF op.recovery = "HUMAN_REQUIRED" /\ op.status \notin Closed THEN "AT_RISK" ELSE op.recovery

Resumed(op) ==
  [op EXCEPT !.mode = "AI_ACTIVE", !.openHandoff = FALSE, !.recovery = RecoveryAfterResume(op)]

\* resumeAssistant.
ResumeAssistant(o) ==
  /\ Exists(o)
  /\ opportunities[o].mode = "HUMAN_ACTIVE"
  /\ opportunities[o].openHandoff
  /\ opportunities' = [opportunities EXCEPT ![o] = Resumed(opportunities[o])]
  /\ actions' = ActionsCancelled({a \in ActionsOf(o) : actions[a].status = "HUMAN_REQUIRED"})
  /\ UNCHANGED <<customers, jobs, reads, now>>

\* The actions that count as evidence of recovery.
RecoveryEvidence(o) ==
  {a \in ActionsOf(o) : actions[a].status \notin
                          {"FAILED", "SUPPRESSED", "CANCELLED", "HUMAN_REQUIRED"}}

\* What the booking is attributed to. Which action is the newest does not
\* matter: nothing completes or awaits a customer, so evidence is prepared work.
Attribution(o) ==
  IF RecoveryEvidence(o) = {} THEN "ORGANIC"
  ELSE IF \E a \in RecoveryEvidence(o) : actions[a].status \in {"COMPLETED", "WAITING_CUSTOMER"}
       THEN "RECOVERED" ELSE "ASSISTED"

Booked(op, attribution) ==
  [op EXCEPT !.status = "BOOKED",
             !.recovery = IF op.recovery \in {"AT_RISK", "RECOVERY_ACTIVE", "WAITING_FOR_CUSTOMER"}
                          THEN "RECOVERED" ELSE "NOT_AT_RISK",
             !.attribution = attribution]

\* createBooking, as far as the opportunity is concerned. It leaves prepared
\* actions and scheduled follow-ups as they are.
CreateBooking(o) ==
  /\ opportunities[o].status \in Bookable
  /\ opportunities' = [opportunities EXCEPT ![o] = Booked(opportunities[o], Attribution(o))]
  /\ UNCHANGED <<customers, actions, jobs, reads, now>>

ScheduledJob(o) == [status |-> "scheduled", opportunity |-> o, attempts |-> 0]

\* The query that opens createFollowUp, and its two refusals.
BeginFollowUp(r, o) ==
  /\ Exists(o)
  /\ Contactable(customers[CustomerOf[o]])
  /\ opportunities[o].mode = "AI_ACTIVE"
  /\ Begins(r, [purpose |-> "FOLLOW_UP", opportunity |-> o])

\* The rest of createFollowUp: the insert looks at nothing again.
CreateFollowUp(r, j) ==
  /\ Pending(r, "FOLLOW_UP")
  /\ jobs[j].status = Absent
  /\ jobs' = [jobs EXCEPT ![j] = ScheduledJob(reads[r].opportunity)]
  /\ Ends(r)
  /\ UNCHANGED <<customers, opportunities, actions, now>>

Reactivated(op) == [op EXCEPT !.leadLost = FALSE]

\* The query of the copilot's PREPARE_REACTIVATION. It locks the lead and no
\* more.
BeginReactivation(r, o) ==
  /\ Exists(o)
  /\ customers[CustomerOf[o]].marketing /\ ~customers[CustomerOf[o]].optedOut
  /\ opportunities[o].mode # "HUMAN_ACTIVE"
  /\ opportunities[o].leadLost
  /\ Begins(r, [purpose |-> "REACTIVATION", opportunity |-> o])

\* The rest of it: it reopens the lead, not the opportunity.
PrepareReactivation(r, j) ==
  LET o == reads[r].opportunity
  IN  /\ Pending(r, "REACTIVATION")
      /\ jobs[j].status = Absent
      /\ opportunities[o].leadLost
      /\ jobs' = [jobs EXCEPT ![j] = ScheduledJob(o)]
      /\ opportunities' = [opportunities EXCEPT ![o] = Reactivated(opportunities[o])]
      /\ Ends(r)
      /\ UNCHANGED <<customers, actions, now>>

\* The query of appendRevenueEntry for the opportunity of the entry.
BeginRevenueEntry(r, o) ==
  /\ Exists(o)
  /\ Begins(r, [purpose |-> "REVENUE_ENTRY", opportunity |-> o,
               attribution |-> opportunities[o].attribution])

\* COALESCE.
OrElse(type, other) == IF type # None THEN type ELSE other

\* The rest of appendRevenueEntry, as far as the opportunity is concerned (the
\* ledger itself is in StoreTransactions): the attribution becomes what the
\* client claims, or without a claim what the request read.
AppendRevenueEntry(r, claimed) ==
  LET o    == reads[r].opportunity
      type == OrElse(claimed, reads[r].attribution)
  IN  /\ Pending(r, "REVENUE_ENTRY")
      /\ opportunities' = [opportunities EXCEPT
                              ![o].attribution = OrElse(type, opportunities[o].attribution)]
      /\ Ends(r)
      /\ UNCHANGED <<customers, actions, jobs, now>>

\* cancelFollowUp: everything but a completed job.
CancelFollowUp(j) ==
  /\ jobs[j].status \notin {Absent, "completed"}
  /\ jobs' = [jobs EXCEPT ![j] = WithStatus(jobs[j], "cancelled")]
  /\ UNCHANGED <<customers, opportunities, actions, reads, now>>

\* claim_follow_up_job, whenever the job is due (FollowUpWorker has the times
\* and the owners of leases).
ClaimFollowUp(j) ==
  /\ jobs[j].status \in OpenJobStatuses
  /\ jobs[j].attempts < MaxAttempts
  /\ jobs' = [jobs EXCEPT ![j] = WithStatus(jobs[j], "leased")]
  /\ UNCHANGED <<customers, opportunities, actions, reads, now>>

\* Plausible error: a result is accepted without a lease.
Unfinished(j) == jobs[j].status \notin {Absent, "completed"}

Finishable(j) == jobs[j].status = "leased"

\* Plausible error: the job gets the result of its attempt as its status.
ResultAsStatus(result) == result

StatusAfterAttempt(result) == IF result = "sent" THEN "completed" ELSE "failed"

\* Plausible error: only a sent message counts as an attempt.
SentAttempted(job, result) ==
  [job EXCEPT !.status = StatusAfterAttempt(result),
              !.attempts = IF result = "sent" THEN job.attempts + 1 ELSE job.attempts]

Attempted(job, result) ==
  [job EXCEPT !.status = StatusAfterAttempt(result), !.attempts = job.attempts + 1]

\* finishFollowUp by the worker that owns the lease.
FinishFollowUp(j, result) ==
  /\ Finishable(j)
  /\ jobs' = [jobs EXCEPT ![j] = Attempted(jobs[j], result)]
  /\ UNCHANGED <<customers, opportunities, actions, reads, now>>

\* A request takes the time of the step in which it writes for its own.
Tick ==
  /\ now < MaxTime
  /\ now' = now + 1
  /\ UNCHANGED <<customers, opportunities, actions, jobs, reads>>

Next ==
  \/ \E o \in Opportunities :
       \/ \E p \in Profiles : CreateOpportunity(o, p)
       \/ RecordCustomerResponse(o)
       \/ StartHumanTakeover(o)
       \/ ResumeAssistant(o)
       \/ CreateBooking(o)
       \/ \E r \in Requests : \/ BeginEvaluation(r, o)
                              \/ BeginFollowUp(r, o)
                              \/ BeginReactivation(r, o)
                              \/ BeginRevenueEntry(r, o)
  \/ \E r \in Requests :
       \/ \E new \in Actions, recent, window, ownerApproves \in BOOLEAN :
            Evaluate(r, new, recent, window, ownerApproves)
       \/ \E j \in Jobs : CreateFollowUp(r, j) \/ PrepareReactivation(r, j)
       \/ \E claimed \in ClientAttributions \cup {None} : AppendRevenueEntry(r, claimed)
       \/ EndUnchanged(r)
  \/ \E a \in Actions : ApproveRecoveryAction(a)
  \/ \E c \in Customers : RecordCustomerOptOut(c)
  \/ \E j \in Jobs : \/ CancelFollowUp(j)
                     \/ ClaimFollowUp(j)
                     \/ \E result \in {"sent", "failed"} : FinishFollowUp(j, result)
  \/ Tick

Spec == Init /\ [][Next]_vars

-----------------------------------------------------------------------------
(* Safety *)

\* An opportunity never has two live actions: an evaluation reuses or retires
\* the current one, whatever expired, was approved or was taken over meanwhile.
OneLiveAction ==
  \A o \in Opportunities : \A a, b \in LiveActionsOf(o) : a = b

\* A person owns a conversation exactly while its handoff is open, and meanwhile
\* no action that an assistant prepared is live, only the request to that
\* person: not even an evaluation that had read the mode before the takeover
\* brings one back (startHumanTakeover against evaluateOpportunityRecovery).
HandoffSilencesAutomation ==
  \A o \in Opportunities :
    /\ (opportunities[o].mode = "HUMAN_ACTIVE") = opportunities[o].openHandoff
    /\ opportunities[o].mode = "HUMAN_ACTIVE" =>
         \A a \in LiveActionsOf(o) : actions[a].status = "HUMAN_REQUIRED"

\* What domain/opportunity.ts calls assertOpportunityState, which no store
\* operation calls: closed opportunities do not run recovery.
ClosedDoesNotRunRecovery ==
  \A o \in Opportunities :
    LET op == opportunities[o]
    IN  /\ op.status = "WON" => op.recovery \in {"RECOVERED", "NOT_AT_RISK"}
        /\ op.status = "DO_NOT_CONTACT" => op.recovery = "STOPPED"
        /\ op.status \in Closed => LiveActionsOf(o) = {}

\* Until a booking, the recovery state tells what the live action is: two
\* tables written by seven operations stay in step.
LiveActionMatchesRecoveryState ==
  \A o \in Opportunities : \A a \in LiveActionsOf(o) :
    opportunities[o].status # "BOOKED" =>
      opportunities[o].recovery =
        CASE actions[a].status = "READY" -> "RECOVERY_ACTIVE"
          [] actions[a].status = "HUMAN_REQUIRED" -> "HUMAN_REQUIRED"
          [] OTHER -> "AT_RISK"

\* Send-ready work, and work that an approval would make send-ready, never
\* exists under OBSERVE or SUGGEST; and send-ready work was approved by an owner
\* unless it is to wait or, under AUTOPILOT, has a low value and does not book.
ReadyIsAuthorised ==
  \A o \in Opportunities : \A a \in ActionsOf(o) :
    LET profile == opportunities[o].profile
    IN  /\ actions[a].status \in {"READY", "WAITING_APPROVAL"} =>
             profile.autonomy \notin {"OBSERVE", "SUGGEST"}
        /\ actions[a].status = "READY" =>
             \/ actions[a].approved
             \/ actions[a].kind = "WAIT"
             \/ /\ profile.autonomy = "AUTOPILOT"
                /\ ~profile.highValue
                /\ actions[a].kind # "ATTEMPT_BOOKING"

\* The foreign keys of actions and follow-ups; and a request in flight has
\* found its opportunity.
RowsReferToOpportunities ==
  /\ \A a \in Actions : actions[a].status # Absent => Exists(actions[a].opportunity)
  /\ \A j \in Jobs : jobs[j].status # Absent => Exists(jobs[j].opportunity)
  /\ \A r \in Requests : reads[r] # Idle => Exists(reads[r].opportunity)

\* Why an evaluation is safe with a reading that is out of date: what changed
\* since then shows in the opportunity that it has locked. An opt-out has
\* closed the opportunity. A takeover has left it HUMAN_REQUIRED, unless the
\* decision prepares nothing anyway.
ReadingsAreCovered ==
  \A r \in Requests : Pending(r, "EVALUATION") =>
    LET reading == reads[r]
        op      == opportunities[reading.opportunity]
        consent == customers[CustomerOf[reading.opportunity]]
    IN  /\ Contactable(consent) => Contactable(reading.consent)
        /\ Contactable(reading.consent) =>
             /\ Contactable(consent) \/ op.status \in Closed
             /\ reading.mode = "AI_ACTIVE" /\ op.mode = "HUMAN_ACTIVE" =>
                  \/ op.recovery = "HUMAN_REQUIRED"
                  \/ op.status \in Closed \cup {"BOOKED"}
                  \/ HasRejection(op)

\* Follow-ups keep the promises of their table, as they do in FollowUpWorker,
\* where leases, failures and processes are: this module is right to take a
\* worker's claim and its result for two steps.
TableRows == [j \in Jobs |-> [status |-> jobs[j].status, attempts |-> jobs[j].attempts]]

Table == INSTANCE FollowUpJobs WITH followUps <- TableRows

KeepsTablePromises == Table!Spec

\* The inductive invariant, with TypeOK: the parts that depend on one another.
RecoveryInvariant ==
  /\ RowsReferToOpportunities
  /\ OneLiveAction
  /\ HandoffSilencesAutomation
  /\ ClosedDoesNotRunRecovery
  /\ LiveActionMatchesRecoveryState
  /\ ReadyIsAuthorised
  /\ ReadingsAreCovered

-----------------------------------------------------------------------------
(* Action properties *)

\* The moves that domain/opportunity.ts allows; no store operation consults it.
AllowedStatusTransitions ==
  [NEW |-> {"CONTACTING", "ENGAGED", "QUALIFIED", "BOOKED", "SNOOZED", "LOST", "DO_NOT_CONTACT"},
   CONTACTING |-> {"ENGAGED", "QUALIFIED", "BOOKED", "ESTIMATE", "SNOOZED", "LOST", "DO_NOT_CONTACT"},
   ENGAGED |-> {"CONTACTING", "QUALIFIED", "BOOKED", "ESTIMATE", "SNOOZED", "LOST", "DO_NOT_CONTACT"},
   QUALIFIED |-> {"CONTACTING", "BOOKED", "ESTIMATE", "SNOOZED", "LOST", "DO_NOT_CONTACT"},
   BOOKED |-> {"ENGAGED", "ESTIMATE", "WON", "LOST", "SNOOZED", "DO_NOT_CONTACT"},
   ESTIMATE |-> {"CONTACTING", "ENGAGED", "BOOKED", "WON", "LOST", "SNOOZED", "DO_NOT_CONTACT"},
   WON |-> {},
   LOST |-> {"CONTACTING", "ENGAGED", "QUALIFIED", "SNOOZED", "DO_NOT_CONTACT"},
   SNOOZED |-> {"CONTACTING", "ENGAGED", "QUALIFIED", "LOST", "DO_NOT_CONTACT"},
   DO_NOT_CONTACT |-> {}]

\* No operation moves an opportunity against that table: in particular a won
\* or do-not-contact opportunity never comes back.
StatusMovesAreAllowed ==
  [][\A o \in Opportunities :
       Exists(o) /\ opportunities'[o].status # opportunities[o].status =>
         opportunities'[o].status \in AllowedStatusTransitions[opportunities[o].status]]_vars

\* Work that was cancelled, suppressed or completed is never brought back: not
\* by Resume AI, and not by a worker that still holds a lease on it.
RetiredWorkStaysRetired ==
  [][/\ \A a \in Actions : actions[a].status \in {"CANCELLED", "SUPPRESSED", "COMPLETED"} =>
          actions'[a] = actions[a]
     /\ \A j \in Jobs : jobs[j].status \in {"completed", "cancelled"} =>
          jobs'[j].status = jobs[j].status]_vars

\* An approval counts only while the action it approves is valid, for an
\* opportunity that is neither won nor stopped and that no person has taken
\* over.
ApprovalsAreTimely ==
  [][\A a \in Actions :
       ~actions[a].approved /\ actions'[a].approved =>
         /\ actions'[a].validUntil > now
         /\ opportunities[actions'[a].opportunity].mode = "AI_ACTIVE"
         /\ opportunities[actions'[a].opportunity].status \notin Closed]_vars

UnderHandoff(o) == opportunities[o].mode = "HUMAN_ACTIVE"

OptedOut(o) == customers[CustomerOf[o]].optedOut

\* A follow-up that should not be there: a worker may claim it or holds it,
\* although a person took over or the customer opted out.
Stray(j) ==
  /\ jobs[j].status \notin SettledJobStatuses \cup {Absent}
  /\ UnderHandoff(jobs[j].opportunity) \/ OptedOut(jobs[j].opportunity)

\* A takeover and an opt-out leave no follow-up open, not one that a worker
\* holds either, and none is opened under them later, but for one case: a
\* request that had read, before the stop, that contact was allowed inserts its
\* own (createFollowUp and PREPARE_REACTIVATION; StopsPrevail below).
OnlyRequestsInFlightStray ==
  [][\A j \in Jobs : ~Stray(j) /\ Stray(j)' =>
       /\ jobs[j].status = Absent
       /\ \E r \in Requests :
            /\ Pending(r, "FOLLOW_UP") \/ Pending(r, "REACTIVATION")
            /\ reads[r].opportunity = jobs'[j].opportunity
            /\ reads'[r] = Idle]_vars

\* An opportunity that waits for a person although no handoff is open: Resume
\* AI, which needs one, cannot bring it back.
Stranded(o) ==
  /\ ~opportunities[o].openHandoff
  /\ \/ opportunities[o].recovery = "HUMAN_REQUIRED"
     \/ \E a \in LiveActionsOf(o) : actions[a].status = "HUMAN_REQUIRED"

\* Only one thing strands an opportunity: an evaluation that had read the mode
\* while a person owned the conversation, and that decides after Resume AI
\* (resumeAssistant against evaluateOpportunityRecovery; ResumeRetiresRequests
\* below). No takeover, resume, approval, opt-out, reply or booking does.
OnlyStaleEvaluationsStrand ==
  [][\A o \in Opportunities : ~Stranded(o) /\ Stranded(o)' =>
       \E r \in Requests :
         /\ Pending(r, "EVALUATION") /\ reads[r].opportunity = o
         /\ reads[r].mode = "HUMAN_ACTIVE" /\ opportunities[o].mode = "AI_ACTIVE"
         /\ reads'[r] = Idle]_vars

-----------------------------------------------------------------------------
(* Statements of the repository that the code does not keep *)

\* "an existing active recovery suppress automated action" (docs/DOMAIN_RULES.md
\* 52): an evaluation refused for that reason leaves an action that is active.
\* The code goes by the recovery state, which outlives an expired action.
ActiveRecoveryIsLive ==
  [][\A a \in Actions :
       /\ actions[a].status = Absent /\ actions'[a].status = "SUPPRESSED"
       /\ actions'[a].reason = "RECOVERY_ALREADY_ACTIVE"
       => \E b \in Actions : /\ actions'[b].opportunity = actions'[a].opportunity
                             /\ actions'[b].status \in LiveStatuses]_vars

\* "Opt-out, Human Takeover, contact hours and idempotency always prevail over
\* an active play" (features/production/ProductionPages.tsx 220, translated):
\* under a takeover or an opt-out there is no open follow-up.
StopsPrevail == \A j \in Jobs : ~Stray(j)

\* "Resume also retires the persisted human-required action so the next
\* evaluation cannot reuse stale handoff state" (docs/HVAC_REVENUE_RECOVERY.md
\* 33): without an open handoff nothing waits for a person.
ResumeRetiresRequests == \A o \in Opportunities : ~Stranded(o)

\* "RECOVERED attribution requires material completed/waiting-customer recovery
\* evidence" (docs/DOMAIN_RULES.md 54): the actions of the opportunity hold it.
RecoveredHasEvidence ==
  \A o \in Opportunities : opportunities[o].attribution = "RECOVERED" =>
    \E a \in ActionsOf(o) : actions[a].status \in {"COMPLETED", "WAITING_CUSTOMER"}
=============================================================================
