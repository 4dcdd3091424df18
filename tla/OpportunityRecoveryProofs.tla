--------------------- MODULE OpportunityRecoveryProofs ---------------------
(***************************************************************************)
(* What holds of OpportunityRecovery for every set of customers,           *)
(* opportunities, actions and jobs, every number of requests in flight,    *)
(* every policy profile and every clock: of its states, and of its steps,  *)
(* whatever the state they find.                                           *)
(***************************************************************************)
EXTENDS OpportunityRecovery, TLAPS

-----------------------------------------------------------------------------
(* The policy *)

\* The results of the policy are values of the columns they are stored in.
LEMMA PolicyTypes ==
  ASSUME NEW ob, ob.recovery \in RecoveryStates
  PROVE  /\ SuppressionReason(ob) \in SuppressionReasons \cup {None}
         /\ NextActionKind(ob) \in ActionKinds
         /\ NextActionRequiresApproval(ob) \in BOOLEAN
         /\ RecoveryActionStatus(ob) \in ActionStatuses
         /\ RecoveryStateAfterDecision(ob) \in RecoveryStates
<1>1. SuppressionReason(ob) \in SuppressionReasons \cup {None}
  BY DEF SuppressionReason, SuppressionReasons, None
<1>2. NextActionKind(ob) \in ActionKinds
  BY DEF NextActionKind, ActionKinds
<1>3. NextActionRequiresApproval(ob) \in BOOLEAN
  BY DEF NextActionRequiresApproval
<1>4. RecoveryActionStatus(ob) \in ActionStatuses
  BY DEF RecoveryActionStatus, ActionStatuses
<1>5. RecoveryStateAfterDecision(ob) \in RecoveryStates
  BY DEF RecoveryStateAfterDecision, RecoveryStates
<1> QED
  BY <1>1, <1>2, <1>3, <1>4, <1>5

\* An eligible opportunity may be contacted, is in nobody's hands, and is at a
\* stage that has a play.
LEMMA EligibleIsOpen ==
  ASSUME NEW ob, Eligible(ob)
  PROVE  /\ ~ob.optedOut /\ ob.operational /\ ~HumanInvolved(ob)
         /\ ob.status \notin Closed \cup {"BOOKED"}
<1>1. SuppressionReason(ob) = None /\ ChoosePlay(ob) # None
  BY DEF Eligible
<1>2. /\ ~ob.optedOut /\ ob.operational /\ ~HumanInvolved(ob)
      /\ ob.status \notin Closed
  BY <1>1 DEF SuppressionReason, None, Closed
<1>3. ob.status # "BOOKED"
  BY <1>1 DEF ChoosePlay, None
<1> QED
  BY <1>2, <1>3

\* A decision asks for a person only when one is involved already and contact
\* is allowed; and only then does the opportunity wait for one.
LEMMA HumanRequestIsJustified ==
  ASSUME NEW ob
  PROVE  /\ RecoveryActionStatus(ob) = "HUMAN_REQUIRED" =>
              /\ HumanInvolved(ob) /\ ~ob.optedOut /\ ob.status \notin Closed
              /\ RecoveryStateAfterDecision(ob) = "HUMAN_REQUIRED"
         /\ RecoveryStateAfterDecision(ob) = "HUMAN_REQUIRED" => HumanInvolved(ob)
<1>1. ASSUME RecoveryActionStatus(ob) = "HUMAN_REQUIRED"
      PROVE  SuppressionReason(ob) = "HUMAN_TAKEOVER_ACTIVE"
  <2>1. NextActionKind(ob) = "REQUEST_HUMAN"
    BY <1>1 DEF RecoveryActionStatus
  <2> QED
    BY <2>1 DEF NextActionKind
<1>2. SuppressionReason(ob) = "HUMAN_TAKEOVER_ACTIVE" =>
        HumanInvolved(ob) /\ ~ob.optedOut /\ ob.status \notin Closed
  BY DEF SuppressionReason, Closed, None
<1>3. RecoveryActionStatus(ob) = "HUMAN_REQUIRED" =>
        RecoveryStateAfterDecision(ob) = "HUMAN_REQUIRED"
  BY DEF RecoveryStateAfterDecision
<1>4. RecoveryStateAfterDecision(ob) = "HUMAN_REQUIRED" =>
        RecoveryActionStatus(ob) = "HUMAN_REQUIRED" \/ ob.recovery = "HUMAN_REQUIRED"
  BY DEF RecoveryStateAfterDecision
<1> QED
  BY <1>1, <1>2, <1>3, <1>4 DEF HumanInvolved

\* Where a person is involved and nothing comes before that, a decision asks
\* for a person.
LEMMA HumanIsAskedFor ==
  ASSUME NEW ob, HumanInvolved(ob), ~ob.optedOut, ob.operational, ob.status \notin Closed,
         ~HasRejection(ob)
  PROVE  /\ RecoveryActionStatus(ob) = "HUMAN_REQUIRED"
         /\ RecoveryStateAfterDecision(ob) = "HUMAN_REQUIRED"
<1>1. SuppressionReason(ob) = "HUMAN_TAKEOVER_ACTIVE"
  BY DEF SuppressionReason, Closed
<1>2. RecoveryActionStatus(ob) = "HUMAN_REQUIRED"
  BY <1>1 DEF NextActionKind, RecoveryActionStatus
<1> QED
  BY <1>2 DEF RecoveryStateAfterDecision

\* A rejected opportunity is not eligible.
LEMMA RejectedIsNotEligible ==
  ASSUME NEW ob, Eligible(ob)
  PROVE  ~HasRejection(ob)
  BY DEF Eligible, SuppressionReason, None

\* A decision that prepares work is eligible, and the recovery state says
\* whether the work is send-ready.
LEMMA PreparedIsEligible ==
  ASSUME NEW ob
  PROVE  /\ RecoveryActionStatus(ob) \in
              {"HUMAN_REQUIRED", "SUPPRESSED", "PENDING", "WAITING_APPROVAL", "READY"}
         /\ RecoveryActionStatus(ob) \in {"PENDING", "WAITING_APPROVAL", "READY"} =>
              /\ Eligible(ob)
              /\ RecoveryStateAfterDecision(ob) =
                   IF RecoveryActionStatus(ob) = "READY" THEN "RECOVERY_ACTIVE" ELSE "AT_RISK"
  BY DEF RecoveryActionStatus, RecoveryStateAfterDecision

\* Autonomy: what may become send-ready, and what may without an owner.
LEMMA AutonomyIsRespected ==
  ASSUME NEW ob
  PROVE  /\ RecoveryActionStatus(ob) \in {"READY", "WAITING_APPROVAL"} =>
              ob.autonomy \notin {"OBSERVE", "SUGGEST"}
         /\ RecoveryActionStatus(ob) = "READY" =>
              \/ NextActionKind(ob) = "WAIT"
              \/ /\ ob.autonomy = "AUTOPILOT" /\ ~ob.highValue
                 /\ NextActionKind(ob) # "ATTEMPT_BOOKING"
<1>1. RecoveryActionStatus(ob) \in {"READY", "WAITING_APPROVAL"} =>
        ob.autonomy \notin {"OBSERVE", "SUGGEST"}
  BY DEF RecoveryActionStatus
<1>2. RecoveryActionStatus(ob) = "READY" => Eligible(ob) /\ ~NextActionRequiresApproval(ob)
  BY DEF RecoveryActionStatus
<1>3. Eligible(ob) => NextActionKind(ob) \in {"ATTEMPT_BOOKING", "ASK_QUALIFICATION", "WAIT", "SEND_SMS"}
  BY DEF NextActionKind, Eligible, None
<1> QED
  BY <1>1, <1>2, <1>3 DEF NextActionRequiresApproval, PolicyRequiresApproval

-----------------------------------------------------------------------------
(* Types *)

LEMMA InitType == Init => TypeOK
<1> SUFFICES ASSUME Init PROVE TypeOK
  OBVIOUS
<1> USE RecoveryAssumptions
<1>1. customers \in [Customers -> CustomerType]
  BY DEF Init, CustomerType
<1>2. opportunities \in [Opportunities -> OpportunityType]
  <2>1. NoOpportunity \in OpportunityType
    BY DEF NoOpportunity, OpportunityType, RecoveryStates, Modes, Absent, None
  <2>2. ASSUME NEW st \in LegacyStatuses
        PROVE  LegacyOpportunities(st) \subseteq OpportunityType
    <3>1. st \in {"NEW", "ENGAGED", "QUALIFIED", "WON", "LOST", "SNOOZED"}
      OBVIOUS
    <3>2. LegacyRecovery(st) \in RecoveryStates
      BY DEF LegacyRecovery, RecoveryStates
    <3>3. LegacyProfiles \subseteq ProfileType
      BY DEF LegacyProfiles, ProfileType, AutonomyLevels
    <3>4. (st = "LOST") \in BOOLEAN
      OBVIOUS
    <3> QED
      BY <3>1, <3>2, <3>3, <3>4
         DEF LegacyOpportunities, OpportunityType, Statuses, AttributionTypes, None
  <2> QED
    BY <2>1, <2>2 DEF Init
<1>3. (CHOOSE o \in Opportunities : TRUE) \in Opportunities
  OBVIOUS
<1>4. actions \in [Actions -> ActionType]
  BY <1>3 DEF Init, NoAction, ActionType, ActionKinds, Absent, None
<1>5. jobs \in [Jobs -> JobType]
  BY <1>3 DEF Init, NoJob, JobType, Absent
<1>6. reads \in [Requests -> Readings]
  BY DEF Init, Readings
<1>7. now \in Nat \ {0}
  BY DEF Init
<1> QED
  BY <1>1, <1>2, <1>4, <1>5, <1>6, <1>7 DEF TypeOK

\* What each row operator writes, and that it leaves a row of the table.
LEMMA NewOpportunityRow ==
  ASSUME NEW p \in ProfileType
  PROVE  /\ NewOpportunity(p) \in OpportunityType
         /\ NewOpportunity(p).status = "NEW" /\ NewOpportunity(p).recovery = "AT_RISK"
         /\ NewOpportunity(p).mode = "AI_ACTIVE" /\ NewOpportunity(p).openHandoff = FALSE
  BY DEF NewOpportunity, NoOpportunity, OpportunityType, Statuses, RecoveryStates, Modes, None

LEMMA DecidedRow ==
  ASSUME NEW op \in OpportunityType, NEW r \in RecoveryStates
  PROVE  /\ Decided(op, r) \in OpportunityType
         /\ Decided(op, r).recovery = r /\ Decided(op, r).status = op.status
         /\ Decided(op, r).mode = op.mode /\ Decided(op, r).openHandoff = op.openHandoff
         /\ Decided(op, r).profile = op.profile /\ Decided(op, r).rejected = op.rejected
  BY DEF Decided, OpportunityType

LEMMA ActivatedRow ==
  ASSUME NEW op \in OpportunityType
  PROVE  /\ Activated(op) \in OpportunityType
         /\ Activated(op).recovery = IF op.status \in Closed THEN op.recovery ELSE "RECOVERY_ACTIVE"
         /\ Activated(op).status = op.status /\ Activated(op).mode = op.mode
         /\ Activated(op).openHandoff = op.openHandoff /\ Activated(op).profile = op.profile
<1> DEFINE r == IF op.status \in Closed THEN op.recovery ELSE "RECOVERY_ACTIVE"
<1>1. r \in RecoveryStates
  BY DEF OpportunityType, RecoveryStates
<1>2. Activated(op) = Decided(op, r)
  BY DEF Activated, Decided
<1> HIDE DEF r
<1>3. Activated(op).recovery = r
  BY <1>1, <1>2, DecidedRow
<1> QED
  BY <1>1, <1>2, <1>3, DecidedRow DEF r

LEMMA StoppedRow ==
  ASSUME NEW op \in OpportunityType
  PROVE  /\ Stopped(op) \in OpportunityType
         /\ Stopped(op).status = "DO_NOT_CONTACT" /\ Stopped(op).recovery = "STOPPED"
         /\ Stopped(op).mode = op.mode /\ Stopped(op).openHandoff = op.openHandoff
         /\ Stopped(op).profile = op.profile
  BY DEF Stopped, OpportunityType, Statuses, RecoveryStates

LEMMA RepliedRow ==
  ASSUME NEW op \in OpportunityType, op.status # Absent
  PROVE  /\ Replied(op) \in OpportunityType
         /\ Replied(op).status = StatusAfterReply(op.status)
         /\ Replied(op).recovery =
              IF op.recovery = "HUMAN_REQUIRED" THEN op.recovery ELSE "NOT_AT_RISK"
         /\ Replied(op).mode = op.mode /\ Replied(op).openHandoff = op.openHandoff
         /\ Replied(op).profile = op.profile /\ Replied(op).rejected = op.rejected
<1> DEFINE st == StatusAfterReply(op.status)
           r  == IF op.recovery = "HUMAN_REQUIRED" THEN op.recovery ELSE "NOT_AT_RISK"
<1>1. st \in Statuses \cup {Absent} /\ r \in RecoveryStates
  BY DEF OpportunityType, StatusAfterReply, Statuses, RecoveryStates
<1>2. Replied(op) = [op EXCEPT !.status = st, !.recovery = r, !.replied = TRUE]
  BY DEF Replied
<1> HIDE DEF st, r
<1>3. /\ Replied(op) \in OpportunityType
      /\ Replied(op).status = st /\ Replied(op).recovery = r
      /\ Replied(op).mode = op.mode /\ Replied(op).openHandoff = op.openHandoff
      /\ Replied(op).profile = op.profile /\ Replied(op).rejected = op.rejected
  BY <1>1, <1>2 DEF OpportunityType
<1> QED
  BY <1>3 DEF st, r

LEMMA HandedOverRow ==
  ASSUME NEW op \in OpportunityType
  PROVE  /\ HandedOver(op) \in OpportunityType
         /\ HandedOver(op).mode = "HUMAN_ACTIVE" /\ HandedOver(op).openHandoff = TRUE
         /\ HandedOver(op).recovery =
              IF op.status \in Closed THEN op.recovery ELSE "HUMAN_REQUIRED"
         /\ HandedOver(op).status = op.status /\ HandedOver(op).profile = op.profile
<1> DEFINE r == IF op.status \in Closed THEN op.recovery ELSE "HUMAN_REQUIRED"
<1>1. r \in RecoveryStates
  BY DEF OpportunityType, RecoveryStates
<1>2. HandedOver(op) = [op EXCEPT !.mode = "HUMAN_ACTIVE", !.openHandoff = TRUE, !.recovery = r]
  BY DEF HandedOver
<1> HIDE DEF r
<1>3. /\ HandedOver(op) \in OpportunityType
      /\ HandedOver(op).mode = "HUMAN_ACTIVE" /\ HandedOver(op).openHandoff = TRUE
      /\ HandedOver(op).recovery = r
      /\ HandedOver(op).status = op.status /\ HandedOver(op).profile = op.profile
  BY <1>1, <1>2 DEF OpportunityType, Modes
<1> QED
  BY <1>3 DEF r

LEMMA ResumedRow ==
  ASSUME NEW op \in OpportunityType
  PROVE  /\ Resumed(op) \in OpportunityType
         /\ Resumed(op).mode = "AI_ACTIVE" /\ Resumed(op).openHandoff = FALSE
         /\ Resumed(op).recovery = RecoveryAfterResume(op)
         /\ Resumed(op).status = op.status /\ Resumed(op).profile = op.profile
<1>1. RecoveryAfterResume(op) \in RecoveryStates
  BY DEF RecoveryAfterResume, OpportunityType, RecoveryStates
<1> QED
  BY <1>1 DEF Resumed, OpportunityType, Modes

LEMMA BookedRow ==
  ASSUME NEW op \in OpportunityType, NEW w \in AttributionTypes
  PROVE  /\ Booked(op, w) \in OpportunityType
         /\ Booked(op, w).status = "BOOKED"
         /\ Booked(op, w).recovery \in {"RECOVERED", "NOT_AT_RISK"}
         /\ Booked(op, w).mode = op.mode /\ Booked(op, w).openHandoff = op.openHandoff
         /\ Booked(op, w).profile = op.profile
<1> DEFINE r == IF op.recovery \in {"AT_RISK", "RECOVERY_ACTIVE", "WAITING_FOR_CUSTOMER"}
                THEN "RECOVERED" ELSE "NOT_AT_RISK"
<1>1. r \in {"RECOVERED", "NOT_AT_RISK"}
  OBVIOUS
<1>2. Booked(op, w) = [op EXCEPT !.status = "BOOKED", !.recovery = r, !.attribution = w]
  BY DEF Booked
<1> HIDE DEF r
<1> QED
  BY <1>1, <1>2 DEF OpportunityType, Statuses, RecoveryStates

LEMMA ReactivatedRow ==
  ASSUME NEW op \in OpportunityType
  PROVE  /\ Reactivated(op) \in OpportunityType
         /\ Reactivated(op).status = op.status /\ Reactivated(op).recovery = op.recovery
         /\ Reactivated(op).mode = op.mode /\ Reactivated(op).openHandoff = op.openHandoff
         /\ Reactivated(op).profile = op.profile /\ Reactivated(op).rejected = op.rejected
  BY DEF Reactivated, OpportunityType

\* What a revenue entry leaves of an opportunity.
LEMMA AttributedRow ==
  ASSUME NEW op \in OpportunityType, NEW w \in AttributionTypes \cup {None}
  PROVE  /\ [op EXCEPT !.attribution = w] \in OpportunityType
         /\ [op EXCEPT !.attribution = w].status = op.status
         /\ [op EXCEPT !.attribution = w].recovery = op.recovery
         /\ [op EXCEPT !.attribution = w].mode = op.mode
         /\ [op EXCEPT !.attribution = w].openHandoff = op.openHandoff
         /\ [op EXCEPT !.attribution = w].profile = op.profile
         /\ [op EXCEPT !.attribution = w].rejected = op.rejected
  BY DEF OpportunityType

\* What a request in flight holds.
LEMMA ReadingTypes ==
  ASSUME TypeOK, NEW r \in Requests
  PROVE  /\ reads[r] # Idle => reads[r].opportunity \in Opportunities
         /\ Pending(r, "EVALUATION") => reads[r] # Idle /\ reads[r] \in EvaluationReading
         /\ Pending(r, "FOLLOW_UP") \/ Pending(r, "REACTIVATION") =>
              reads[r] # Idle /\ reads[r] \in ContactReading
         /\ Pending(r, "REVENUE_ENTRY") => reads[r] # Idle /\ reads[r] \in RevenueReading
<1>1. reads[r] \in Readings
  BY DEF TypeOK
<1>2. reads[r] # Idle => reads[r].opportunity \in Opportunities
  BY <1>1 DEF Readings, EvaluationReading, ContactReading, RevenueReading
<1>3. Idle.purpose = "NONE"
  BY DEF Idle, None
<1> QED
  BY <1>1, <1>2, <1>3 DEF Pending, Readings, EvaluationReading, ContactReading, RevenueReading

\* A request that ends leaves its slot empty and the others as they are.
LEMMA EndsRows ==
  ASSUME TypeOK, NEW r \in Requests, Ends(r)
  PROVE  /\ reads' \in [Requests -> Readings]
         /\ reads'[r] = Idle
         /\ \A q \in Requests : q # r => reads'[q] = reads[q]
  BY DEF Ends, TypeOK, Readings

LEMMA ActionStatusRow ==
  ASSUME NEW action \in ActionType, NEW st \in ActionStatuses
  PROVE  /\ WithStatus(action, st) \in ActionType
         /\ WithStatus(action, st).status = st
         /\ WithStatus(action, st).opportunity = action.opportunity
         /\ WithStatus(action, st).kind = action.kind
         /\ WithStatus(action, st).approved = action.approved
  BY DEF WithStatus, ActionType

LEMMA RetiredByReplyRow ==
  ASSUME NEW action \in ActionType
  PROVE  /\ RetiredByReply(action) \in ActionType
         /\ RetiredByReply(action).status \in {"COMPLETED", "CANCELLED"}
         /\ RetiredByReply(action).opportunity = action.opportunity
<1> DEFINE st == IF action.status = "WAITING_CUSTOMER" THEN "COMPLETED" ELSE "CANCELLED"
<1>1. st \in {"COMPLETED", "CANCELLED"} /\ st \in ActionStatuses
  BY DEF ActionStatuses
<1>2. RetiredByReply(action) = WithStatus(action, st)
  BY DEF RetiredByReply, WithStatus
<1> HIDE DEF st
<1> QED
  BY <1>1, <1>2, ActionStatusRow

LEMMA ApprovedRow ==
  ASSUME NEW action \in ActionType
  PROVE  /\ Approved(action) \in ActionType
         /\ Approved(action).status = "READY" /\ Approved(action).approved = TRUE
         /\ Approved(action).opportunity = action.opportunity
         /\ Approved(action).kind = action.kind
  BY DEF Approved, ActionType, ActionStatuses

LEMMA JobStatusRow ==
  ASSUME NEW job \in JobType, NEW st \in JobStatuses
  PROVE  /\ WithStatus(job, st) \in JobType
         /\ WithStatus(job, st).status = st
         /\ WithStatus(job, st).opportunity = job.opportunity
         /\ WithStatus(job, st).attempts = job.attempts
  BY DEF WithStatus, JobType

LEMMA AttemptedRow ==
  ASSUME NEW job \in JobType, NEW result
  PROVE  /\ Attempted(job, result) \in JobType
         /\ Attempted(job, result).status \in {"completed", "failed"}
         /\ Attempted(job, result).opportunity = job.opportunity
<1> DEFINE st == StatusAfterAttempt(result)
           n  == job.attempts + 1
<1>1. st \in {"completed", "failed"} /\ n \in Nat
  BY DEF StatusAfterAttempt, JobType
<1>2. Attempted(job, result) = [job EXCEPT !.status = st, !.attempts = n]
  BY DEF Attempted
<1> HIDE DEF st, n
<1> QED
  BY <1>1, <1>2 DEF JobType, JobStatuses

\* The bulk updates return tables.
LEMMA BulkUpdateTypes ==
  ASSUME TypeOK
  PROVE  /\ \A S : ActionsCancelled(S) \in [Actions -> ActionType]
         /\ \A S : JobsCancelled(S) \in [Jobs -> JobType]
<1>1. \A a \in Actions : WithStatus(actions[a], "CANCELLED") \in ActionType
  BY ActionStatusRow DEF TypeOK, ActionStatuses
<1>2. \A j \in Jobs : WithStatus(jobs[j], "cancelled") \in JobType
  BY JobStatusRow DEF TypeOK, JobStatuses
<1> QED
  BY <1>1, <1>2 DEF TypeOK, ActionsCancelled, JobsCancelled

\* The observation carries the reading over, and the locked row.
LEMMA ObservationReads ==
  ASSUME TypeOK, NEW reading \in EvaluationReading, NEW recent, NEW window
  PROVE  LET ob == Observation(reading, recent, window)
             op == opportunities[reading.opportunity]
         IN  /\ ob.status = op.status
             /\ ob.recovery = op.recovery /\ ob.recovery \in RecoveryStates
             /\ ob.autonomy = op.profile.autonomy
             /\ ob.highValue = op.profile.highValue
             /\ ob.rejected = op.rejected
             /\ ob.optedOut = reading.consent.optedOut
             /\ ob.operational = reading.consent.operational
             /\ ob.handoff = (reading.mode = "HUMAN_ACTIVE")
  BY DEF TypeOK, OpportunityType, EvaluationReading, Observation

LEMMA DecidedActionRow ==
  ASSUME TypeOK, NEW o \in Opportunities, NEW ob, ob.recovery \in RecoveryStates,
         NEW approved \in BOOLEAN
  PROVE  /\ DecidedAction(o, ob, approved) \in ActionType
         /\ DecidedAction(o, ob, approved).opportunity = o
         /\ DecidedAction(o, ob, approved).kind = NextActionKind(ob)
         /\ DecidedAction(o, ob, approved).approved = approved
         /\ DecidedAction(o, ob, approved).status =
              IF approved THEN "READY" ELSE RecoveryActionStatus(ob)
<1>1. ValidUntil(ob) \in Nat
  BY RecoveryAssumptions DEF ValidUntil, TypeOK
<1> QED
  BY <1>1, PolicyTypes DEF DecidedAction, ActionType, ActionStatuses

LEMMA NextType == TypeOK /\ [Next]_vars => TypeOK'
<1> SUFFICES ASSUME TypeOK, [Next]_vars PROVE TypeOK'
  OBVIOUS
<1>o. \A o \in Opportunities : opportunities[o] \in OpportunityType
  BY DEF TypeOK
<1>a. \A a \in Actions : actions[a] \in ActionType
  BY DEF TypeOK
<1>j. \A j \in Jobs : jobs[j] \in JobType
  BY DEF TypeOK
<1>1. ASSUME NEW o \in Opportunities, NEW p \in Profiles, CreateOpportunity(o, p)
      PROVE  TypeOK'
  <2>1. p \in ProfileType
    BY RecoveryAssumptions
  <2> QED
    BY <1>1, <2>1, NewOpportunityRow DEF CreateOpportunity, TypeOK
<1>2. ASSUME NEW r \in Requests, NEW new \in Actions, NEW recent \in BOOLEAN,
             NEW window \in BOOLEAN, NEW ownerApproves \in BOOLEAN,
             Evaluate(r, new, recent, window, ownerApproves)
      PROVE  TypeOK'
  <2> DEFINE o        == reads[r].opportunity
             ob       == Observation(reads[r], recent, window)
             approved == ownerApproves /\ RecoveryActionStatus(ob) = "WAITING_APPROVAL"
             recovery == IF approved THEN "RECOVERY_ACTIVE" ELSE RecoveryStateAfterDecision(ob)
  <2>1. reads[r] \in EvaluationReading /\ o \in Opportunities
    BY <1>2, ReadingTypes DEF Evaluate
  <2>2. ob.recovery \in RecoveryStates
    BY <2>1, ObservationReads
  <2>3. recovery \in RecoveryStates
    BY <2>2, PolicyTypes DEF RecoveryStates
  <2>4. Decided(opportunities[o], recovery) \in OpportunityType
    BY <1>o, <2>1, <2>3, DecidedRow
  <2>5. DecidedAction(o, ob, approved) \in ActionType
    BY <2>1, <2>2, DecidedActionRow
  <2>6. PICK retired : actions' = [ActionsCancelled(retired) EXCEPT
                                     ![new] = DecidedAction(o, ob, approved)]
    BY <1>2 DEF Evaluate
  <2>7. /\ opportunities' = [opportunities EXCEPT ![o] = Decided(opportunities[o], recovery)]
        /\ UNCHANGED <<customers, jobs, now>>
    BY <1>2 DEF Evaluate
  <2>8. reads' \in [Requests -> Readings]
    BY <1>2, EndsRows DEF Evaluate
  <2> HIDE DEF o, ob, approved, recovery
  <2> QED
    BY <2>4, <2>5, <2>6, <2>7, <2>8, BulkUpdateTypes DEF TypeOK
<1>3. ASSUME NEW a \in Actions, ApproveRecoveryAction(a)
      PROVE  TypeOK'
  <2>1. actions[a].opportunity \in Opportunities
    BY <1>a DEF ActionType
  <2> QED
    BY <1>3, <1>o, <1>a, <2>1, ApprovedRow, ActivatedRow DEF ApproveRecoveryAction, TypeOK
<1>4. ASSUME NEW c \in Customers, RecordCustomerOptOut(c)
      PROVE  TypeOK'
  <2>1. customers' \in [Customers -> CustomerType]
    BY <1>4 DEF RecordCustomerOptOut, TypeOK, CustomerType
  <2>2. opportunities' \in [Opportunities -> OpportunityType]
    BY <1>4, <1>o, StoppedRow DEF RecordCustomerOptOut
  <2>3. actions' \in [Actions -> ActionType] /\ jobs' \in [Jobs -> JobType]
    BY <1>4, BulkUpdateTypes DEF RecordCustomerOptOut
  <2> QED
    BY <1>4, <2>1, <2>2, <2>3 DEF RecordCustomerOptOut, TypeOK
<1>5. ASSUME NEW o \in Opportunities, RecordCustomerResponse(o)
      PROVE  TypeOK'
  <2>1. opportunities' \in [Opportunities -> OpportunityType]
    BY <1>5, <1>o, RepliedRow DEF RecordCustomerResponse, Exists, TypeOK
  <2>2. actions' \in [Actions -> ActionType]
    BY <1>5, <1>a, RetiredByReplyRow DEF RecordCustomerResponse
  <2> QED
    BY <1>5, <2>1, <2>2, BulkUpdateTypes DEF RecordCustomerResponse, TypeOK
<1>6. ASSUME NEW o \in Opportunities, StartHumanTakeover(o)
      PROVE  TypeOK'
  BY <1>6, <1>o, HandedOverRow, BulkUpdateTypes DEF StartHumanTakeover, TypeOK
<1>7. ASSUME NEW o \in Opportunities, ResumeAssistant(o)
      PROVE  TypeOK'
  BY <1>7, <1>o, ResumedRow, BulkUpdateTypes DEF ResumeAssistant, TypeOK
<1>8. ASSUME NEW o \in Opportunities, CreateBooking(o)
      PROVE  TypeOK'
  <2>1. Attribution(o) \in AttributionTypes
    BY DEF Attribution, AttributionTypes
  <2> QED
    BY <1>8, <1>o, <2>1, BookedRow DEF CreateBooking, TypeOK
<1>9. ASSUME NEW r \in Requests, NEW j \in Jobs,
             CreateFollowUp(r, j) \/ PrepareReactivation(r, j)
      PROVE  TypeOK'
  <2> DEFINE o == reads[r].opportunity
  <2>1. o \in Opportunities
    BY <1>9, ReadingTypes DEF CreateFollowUp, PrepareReactivation
  <2>2. ScheduledJob(o) \in JobType
    BY <2>1 DEF ScheduledJob, JobType, JobStatuses
  <2>3. reads' \in [Requests -> Readings]
    BY <1>9, EndsRows DEF CreateFollowUp, PrepareReactivation
  <2>4. Reactivated(opportunities[o]) \in OpportunityType
    BY <1>o, <2>1, ReactivatedRow
  <2> QED
    BY <1>9, <2>1, <2>2, <2>3, <2>4 DEF CreateFollowUp, PrepareReactivation, TypeOK
<1>10. ASSUME NEW j \in Jobs, CancelFollowUp(j) \/ ClaimFollowUp(j)
       PROVE  TypeOK'
  <2>1. WithStatus(jobs[j], "cancelled") \in JobType /\ WithStatus(jobs[j], "leased") \in JobType
    BY <1>j, JobStatusRow DEF JobStatuses
  <2> QED
    BY <1>10, <2>1 DEF CancelFollowUp, ClaimFollowUp, TypeOK
<1>11. ASSUME NEW j \in Jobs, NEW result \in {"sent", "failed"}, FinishFollowUp(j, result)
       PROVE  TypeOK'
  BY <1>11, <1>j, AttemptedRow DEF FinishFollowUp, TypeOK
<1>12. ASSUME NEW r \in Requests, NEW reading \in Readings, Begins(r, reading)
       PROVE  TypeOK'
  BY <1>12 DEF Begins, TypeOK
<1>13. ASSUME NEW r \in Requests, NEW o \in Opportunities, BeginEvaluation(r, o)
       PROVE  TypeOK'
  <2> DEFINE reading == [purpose |-> "EVALUATION", opportunity |-> o, mode |-> opportunities[o].mode,
                         replied |-> opportunities[o].replied, consent |-> customers[CustomerOf[o]],
                         manyAttempts |-> FollowUpAttempts(o) >= ManyAttempts]
  <2>1. /\ opportunities[o].mode \in Modes /\ opportunities[o].replied \in BOOLEAN
        /\ customers[CustomerOf[o]] \in CustomerType
    BY <1>o, RecoveryAssumptions DEF OpportunityType, TypeOK
  <2>2. reading \in EvaluationReading
    <3>1. (FollowUpAttempts(o) >= ManyAttempts) \in BOOLEAN
      OBVIOUS
    <3> QED
      BY <2>1, <3>1 DEF EvaluationReading
  <2>3. Begins(r, reading)
    BY <1>13 DEF BeginEvaluation
  <2> QED
    BY <1>12, <2>2, <2>3 DEF Readings
<1>14. ASSUME NEW r \in Requests, NEW o \in Opportunities,
              BeginFollowUp(r, o) \/ BeginReactivation(r, o)
       PROVE  TypeOK'
  <2>1. /\ [purpose |-> "FOLLOW_UP", opportunity |-> o] \in Readings
        /\ [purpose |-> "REACTIVATION", opportunity |-> o] \in Readings
    BY DEF Readings, ContactReading
  <2> QED
    BY <1>12, <1>14, <2>1 DEF BeginFollowUp, BeginReactivation
<1>15. ASSUME NEW r \in Requests, NEW o \in Opportunities, BeginRevenueEntry(r, o)
       PROVE  TypeOK'
  <2>1. opportunities[o].attribution \in AttributionTypes \cup {None}
    BY <1>o DEF OpportunityType
  <2>2. [purpose |-> "REVENUE_ENTRY", opportunity |-> o,
         attribution |-> opportunities[o].attribution] \in Readings
    BY <2>1 DEF Readings, RevenueReading
  <2> QED
    BY <1>12, <1>15, <2>2 DEF BeginRevenueEntry
<1>16. ASSUME NEW r \in Requests, NEW claimed \in ClientAttributions \cup {None},
              AppendRevenueEntry(r, claimed)
       PROVE  TypeOK'
  <2> DEFINE o == reads[r].opportunity
             w == OrElse(OrElse(claimed, reads[r].attribution), opportunities[o].attribution)
  <2>1. reads[r] \in RevenueReading /\ o \in Opportunities
    BY <1>16, ReadingTypes DEF AppendRevenueEntry
  <2>2. w \in AttributionTypes \cup {None}
    <3>1. /\ opportunities[o].attribution \in AttributionTypes \cup {None}
          /\ reads[r].attribution \in AttributionTypes \cup {None}
          /\ claimed \in AttributionTypes \cup {None}
      BY <1>o, <2>1, RecoveryAssumptions DEF OpportunityType, RevenueReading
    <3> QED
      BY <3>1 DEF OrElse
  <2>3. opportunities' = [opportunities EXCEPT ![o] = [opportunities[o] EXCEPT !.attribution = w]]
    BY <1>16 DEF AppendRevenueEntry
  <2>4. reads' \in [Requests -> Readings] /\ UNCHANGED <<customers, actions, jobs, now>>
    BY <1>16, EndsRows DEF AppendRevenueEntry
  <2>5. [opportunities[o] EXCEPT !.attribution = w] \in OpportunityType
    BY <1>o, <2>1, <2>2, AttributedRow
  <2> HIDE DEF o, w
  <2> QED
    BY <2>3, <2>4, <2>5 DEF TypeOK
<1>17. ASSUME NEW r \in Requests, EndUnchanged(r)
       PROVE  TypeOK'
  BY <1>17, EndsRows DEF EndUnchanged, TypeOK
<1>18. CASE Tick
  BY <1>18 DEF Tick, TypeOK
<1>19. CASE UNCHANGED vars
  BY <1>19 DEF vars, TypeOK
<1> QED
  BY <1>1, <1>2, <1>3, <1>4, <1>5, <1>6, <1>7, <1>8, <1>9, <1>10, <1>11, <1>13, <1>14, <1>15,
     <1>16, <1>17, <1>18, <1>19 DEF Next

\* Every reachable state is a state of the tables, with any number of rows.
THEOREM TypeCorrect == Spec => []TypeOK
  BY InitType, NextType, PTL DEF Spec

-----------------------------------------------------------------------------
(* The invariant, row by row *)

OpportunityOf(a) == opportunities[actions[a].opportunity]

\* An action belongs to an opportunity whose policy it respects.
ActionSound(a) ==
  actions[a].status # Absent =>
    /\ OpportunityOf(a).status # Absent
    /\ actions[a].status \in {"READY", "WAITING_APPROVAL"} =>
         OpportunityOf(a).profile.autonomy \notin {"OBSERVE", "SUGGEST"}
    /\ actions[a].status = "READY" =>
         \/ actions[a].approved
         \/ actions[a].kind = "WAIT"
         \/ /\ OpportunityOf(a).profile.autonomy = "AUTOPILOT"
            /\ ~OpportunityOf(a).profile.highValue
            /\ actions[a].kind # "ATTEMPT_BOOKING"

\* A live action belongs to an opportunity that is open, and is in the recovery
\* state that the action says; in a person's hands it is the request to them.
LiveSound(a) ==
  actions[a].status \in LiveStatuses =>
    /\ OpportunityOf(a).status \notin Closed
    /\ OpportunityOf(a).mode = "HUMAN_ACTIVE" => actions[a].status = "HUMAN_REQUIRED"
    /\ OpportunityOf(a).status # "BOOKED" =>
         OpportunityOf(a).recovery =
           IF actions[a].status = "READY" THEN "RECOVERY_ACTIVE"
           ELSE IF actions[a].status = "HUMAN_REQUIRED" THEN "HUMAN_REQUIRED" ELSE "AT_RISK"

JobSound(j) == jobs[j].status # Absent => opportunities[jobs[j].opportunity].status # Absent

OpportunitySound(o) ==
  /\ (opportunities[o].mode = "HUMAN_ACTIVE") = opportunities[o].openHandoff
  /\ RowAllowed(opportunities[o].status, opportunities[o].recovery)

\* Nothing that an assistant could send is decided for such an opportunity.
Covered(op) ==
  \/ op.recovery = "HUMAN_REQUIRED"
  \/ op.status \in Closed \cup {"BOOKED"}
  \/ HasRejection(op)

\* A reading that is out of date does no harm.
ReadingCovered(reading) ==
  LET op      == opportunities[reading.opportunity]
      consent == customers[CustomerOf[reading.opportunity]]
  IN  /\ Contactable(consent) => Contactable(reading.consent)
      /\ Contactable(reading.consent) =>
           /\ Contactable(consent) \/ op.status \in Closed
           /\ reading.mode = "AI_ACTIVE" /\ op.mode = "HUMAN_ACTIVE" => Covered(op)

ReadingSound(r) ==
  /\ reads[r] # Idle => opportunities[reads[r].opportunity].status # Absent
  /\ Pending(r, "EVALUATION") => ReadingCovered(reads[r])

LiveAction(a) == actions[a].status \in LiveStatuses

OneLive ==
  \A a, b \in Actions :
    LiveAction(a) /\ LiveAction(b) /\ actions[a].opportunity = actions[b].opportunity => a = b

Sound ==
  /\ OneLive
  /\ \A a \in Actions : ActionSound(a) /\ LiveSound(a)
  /\ \A j \in Jobs : JobSound(j)
  /\ \A o \in Opportunities : OpportunitySound(o)
  /\ \A r \in Requests : ReadingSound(r)

LEMMA SoundIsEnough == TypeOK /\ Sound => RecoveryInvariant
<1> SUFFICES ASSUME TypeOK, Sound PROVE RecoveryInvariant
  OBVIOUS
<1>1. RowsReferToOpportunities
  BY DEF Sound, ActionSound, JobSound, ReadingSound, OpportunityOf, RowsReferToOpportunities, Exists
<1>2. OneLiveAction
  BY DEF Sound, OneLive, LiveAction, OneLiveAction, LiveActionsOf, ActionsOf
<1>3. \A o \in Opportunities : \A a \in LiveActionsOf(o) :
        a \in Actions /\ actions[a].opportunity = o /\ LiveSound(a)
          /\ actions[a].status \in LiveStatuses
  BY DEF Sound, LiveActionsOf, ActionsOf
<1>4. HandoffSilencesAutomation
  BY <1>3 DEF Sound, LiveSound, OpportunitySound, OpportunityOf, HandoffSilencesAutomation
<1>5. ClosedDoesNotRunRecovery
  BY <1>3 DEF Sound, LiveSound, OpportunitySound, OpportunityOf, RowAllowed,
              ClosedDoesNotRunRecovery
<1>6. LiveActionMatchesRecoveryState
  BY <1>3 DEF LiveSound, OpportunityOf, LiveActionMatchesRecoveryState
<1>7. ReadyIsAuthorised
  BY DEF Sound, ActionSound, OpportunityOf, ReadyIsAuthorised, ActionsOf
<1>8. ReadingsAreCovered
  BY DEF Sound, ReadingSound, ReadingCovered, Covered, ReadingsAreCovered
<1> QED
  BY <1>1, <1>2, <1>4, <1>5, <1>6, <1>7, <1>8 DEF RecoveryInvariant

LEMMA InitSound == Init => Sound
<1> SUFFICES ASSUME Init PROVE Sound
  OBVIOUS
<1>1. \A a \in Actions : actions[a].status = Absent
  BY DEF Init, NoAction
<1>2. \A j \in Jobs : jobs[j].status = Absent
  BY DEF Init, NoJob
<1>3. ASSUME NEW o \in Opportunities PROVE OpportunitySound(o)
  <2>1. CASE opportunities[o] = NoOpportunity
    <3>1. /\ NoOpportunity.status = "ABSENT" /\ NoOpportunity.recovery = "NOT_AT_RISK"
          /\ NoOpportunity.mode = "AI_ACTIVE" /\ NoOpportunity.openHandoff = FALSE
      BY DEF NoOpportunity, Absent
    <3> QED
      BY <2>1, <3>1 DEF OpportunitySound, RowAllowed
  <2>2. CASE \E st \in LegacyStatuses : opportunities[o] \in LegacyOpportunities(st)
    <3>1. PICK st \in LegacyStatuses : opportunities[o] \in LegacyOpportunities(st)
      BY <2>2
    <3>2. st # "DO_NOT_CONTACT"
      BY RecoveryAssumptions
    <3>3. /\ opportunities[o].status = st /\ opportunities[o].recovery = LegacyRecovery(st)
          /\ opportunities[o].openHandoff = (opportunities[o].mode = "HUMAN_ACTIVE")
      BY <3>1 DEF LegacyOpportunities
    <3> QED
      BY <3>2, <3>3 DEF OpportunitySound, LegacyRecovery, RowAllowed
  <2> QED
    BY <2>1, <2>2 DEF Init
<1>4. ASSUME NEW r \in Requests PROVE ReadingSound(r)
  <2>1. reads[r] = Idle
    BY DEF Init
  <2> QED
    BY <2>1 DEF ReadingSound, Pending, Idle, None
<1> QED
  BY <1>1, <1>2, <1>3, <1>4 DEF Sound, OneLive, LiveAction, ActionSound, LiveSound, JobSound,
                               LiveStatuses, Absent

\* What a step may do to an opportunity without harm to a reading of it: it
\* does not undo a stop, and a takeover leaves the opportunity covered.
CoveredMove(o) ==
  LET op      == opportunities[o]
      now_op  == opportunities'[o]
      consent == customers[CustomerOf[o]]
      allowed == customers'[CustomerOf[o]]
  IN  /\ now_op.status # Absent
      /\ op.status \in Closed => now_op.status \in Closed
      /\ Contactable(allowed) => Contactable(consent)
      /\ Contactable(consent) => Contactable(allowed) \/ now_op.status \in Closed
      /\ now_op.mode = "HUMAN_ACTIVE" =>
           Covered(now_op) \/ (op.mode = "HUMAN_ACTIVE" /\ ~Covered(op))

\* Readings survive every such step, and the end of their request.
LEMMA ReadingsKept ==
  ASSUME TypeOK, Sound, NEW r \in Requests,
         reads'[r] = reads[r] \/ reads'[r] = Idle,
         \A o \in Opportunities : opportunities[o].status # Absent => CoveredMove(o)
  PROVE  ReadingSound(r)'
<1>1. CASE reads'[r] = Idle
  BY <1>1 DEF ReadingSound, Pending, Idle, None
<1>2. CASE reads'[r] = reads[r] /\ reads[r] # Idle
  <2> DEFINE o == reads[r].opportunity
  <2>1. o \in Opportunities /\ ReadingSound(r)
    BY <1>2, ReadingTypes DEF Sound
  <2>2. CoveredMove(o)
    BY <1>2, <2>1 DEF ReadingSound
  <2>3. Pending(r, "EVALUATION") => ReadingCovered(reads[r])
    BY <2>1 DEF ReadingSound
  <2>4. Pending(r, "EVALUATION") => ReadingCovered(reads[r])'
    BY <1>2, <2>2, <2>3 DEF ReadingCovered, CoveredMove
  <2>5. opportunities'[o].status # Absent
    BY <2>2 DEF CoveredMove
  <2> QED
    BY <1>2, <2>4, <2>5 DEF ReadingSound, Pending
<1> QED
  BY <1>1, <1>2

\* An opportunity and a customer that stay as they are are such a step.
LEMMA UnchangedIsCovered ==
  ASSUME NEW o \in Opportunities, opportunities[o].status # Absent,
         customers'[CustomerOf[o]] = customers[CustomerOf[o]],
         opportunities'[o].status = opportunities[o].status,
         opportunities'[o].recovery = opportunities[o].recovery,
         opportunities'[o].mode = opportunities[o].mode,
         opportunities'[o].rejected = opportunities[o].rejected
  PROVE  CoveredMove(o)
  BY DEF CoveredMove, Covered, HasRejection

-----------------------------------------------------------------------------
(* One lemma for each operation *)

\* Nothing refers to an opportunity that does not exist.
LEMMA CreateOpportunitySound ==
  ASSUME TypeOK, Sound, NEW o \in Opportunities, NEW p \in Profiles, CreateOpportunity(o, p)
  PROVE  Sound'
<1>1. p \in ProfileType
  BY RecoveryAssumptions
<1>2. /\ UNCHANGED <<customers, actions, jobs, reads>>
      /\ opportunities[o].status = Absent
      /\ opportunities' = [opportunities EXCEPT ![o] = NewOpportunity(p)]
  BY DEF CreateOpportunity, Exists
<1>3. \A x \in Opportunities : x # o => opportunities'[x] = opportunities[x]
  BY <1>2 DEF TypeOK
<1>4. opportunities'[o] = NewOpportunity(p)
  BY <1>2 DEF TypeOK
<1>5. \A a \in Actions : actions[a].status # Absent => actions[a].opportunity \in Opportunities \ {o}
  BY <1>2 DEF TypeOK, ActionType, Sound, ActionSound, OpportunityOf
<1>6. \A j \in Jobs : jobs[j].status # Absent => jobs[j].opportunity \in Opportunities \ {o}
  BY <1>2 DEF TypeOK, JobType, Sound, JobSound
<1>7. ASSUME NEW a \in Actions PROVE ActionSound(a)' /\ LiveSound(a)'
  <2>1. ActionSound(a) /\ LiveSound(a)
    BY DEF Sound
  <2>2. CASE actions[a].status = Absent
    BY <1>2, <2>2 DEF ActionSound, LiveSound, LiveStatuses, Absent
  <2>3. CASE actions[a].status # Absent
    <3>1. OpportunityOf(a)' = OpportunityOf(a)
      BY <1>2, <1>3, <1>5, <2>3 DEF OpportunityOf
    <3> QED
      BY <1>2, <2>1, <3>1 DEF ActionSound, LiveSound
  <2> QED
    BY <2>2, <2>3
<1>8. ASSUME NEW j \in Jobs PROVE JobSound(j)'
  BY <1>2, <1>3, <1>6, <1>8 DEF Sound, JobSound
<1>9. ASSUME NEW x \in Opportunities PROVE OpportunitySound(x)'
  <2>1. CASE x = o
    BY <1>1, <1>4, <2>1, NewOpportunityRow DEF OpportunitySound, RowAllowed
  <2>2. CASE x # o
    BY <1>3, <2>2 DEF Sound, OpportunitySound
  <2> QED
    BY <2>1, <2>2
<1>10. OneLive'
  BY <1>2 DEF Sound, OneLive, LiveAction
<1>11. ASSUME NEW r \in Requests PROVE ReadingSound(r)'
  <2>1. \A x \in Opportunities : opportunities[x].status # Absent => CoveredMove(x)
    BY <1>2, <1>3, UnchangedIsCovered
  <2> QED
    BY <1>2, <2>1, ReadingsKept
<1> QED
  BY <1>7, <1>8, <1>9, <1>10, <1>11 DEF Sound

\* A decision: the invariant and the policy agree on every live status.
LEMMA EvaluateSound ==
  ASSUME TypeOK, Sound, NEW r \in Requests, NEW new \in Actions, NEW recent \in BOOLEAN,
         NEW window \in BOOLEAN, NEW ownerApproves \in BOOLEAN,
         Evaluate(r, new, recent, window, ownerApproves)
  PROVE  Sound'
<1> DEFINE o        == reads[r].opportunity
           ob       == Observation(reads[r], recent, window)
           approved == ownerApproves /\ RecoveryActionStatus(ob) = "WAITING_APPROVAL"
           recovery == IF approved THEN "RECOVERY_ACTIVE" ELSE RecoveryStateAfterDecision(ob)
           action   == DecidedAction(o, ob, approved)
           op       == opportunities[o]
<1>1. PICK retired \in Retirable(o) :
        actions' = [ActionsCancelled(retired) EXCEPT ![new] = action]
  BY DEF Evaluate
<1>r. /\ reads[r] \in EvaluationReading /\ reads[r] # Idle /\ o \in Opportunities
      /\ Pending(r, "EVALUATION") /\ Ends(r)
  BY ReadingTypes DEF Evaluate
<1>c. ReadingSound(r) /\ ReadingCovered(reads[r])
  BY <1>r DEF Sound, ReadingSound
<1>2. /\ op.status # Absent /\ actions[new].status = Absent
      /\ RowAllowed(op.status, recovery)
      /\ opportunities' = [opportunities EXCEPT ![o] = Decided(op, recovery)]
      /\ UNCHANGED <<customers, jobs>>
  BY <1>r, <1>c DEF Evaluate, ReadingSound
<1>3. /\ ob.status = op.status
      /\ ob.recovery = op.recovery /\ ob.recovery \in RecoveryStates
      /\ ob.autonomy = op.profile.autonomy /\ ob.highValue = op.profile.highValue
      /\ ob.rejected = op.rejected
      /\ ob.optedOut = reads[r].consent.optedOut
      /\ ob.operational = reads[r].consent.operational
      /\ ob.handoff = (reads[r].mode = "HUMAN_ACTIVE")
  BY <1>r, ObservationReads
<1>4. approved \in BOOLEAN /\ op \in OpportunityType
  BY <1>r DEF TypeOK
<1>5. recovery \in RecoveryStates
  BY <1>3, PolicyTypes DEF RecoveryStates
<1>6. /\ action.opportunity = o /\ action.kind = NextActionKind(ob)
      /\ action.approved = approved
      /\ action.status = IF approved THEN "READY" ELSE RecoveryActionStatus(ob)
  BY <1>r, <1>3, <1>4, DecidedActionRow
<1>7. /\ \A x \in Opportunities : x # o => opportunities'[x] = opportunities[x]
      /\ opportunities'[o] = Decided(op, recovery)
      /\ opportunities'[o].status = op.status /\ opportunities'[o].profile = op.profile
      /\ opportunities'[o].mode = op.mode /\ opportunities'[o].openHandoff = op.openHandoff
      /\ opportunities'[o].rejected = op.rejected
      /\ opportunities'[o].recovery = recovery
  BY <1>r, <1>2, <1>4, <1>5, DecidedRow DEF TypeOK
\* Who is in the way of the decision.
<1>8. HasRejection(ob) = HasRejection(op)
  BY <1>3 DEF HasRejection
<1>9. Eligible(ob) => op.mode # "HUMAN_ACTIVE" /\ op.status \notin Closed
  <2>1. SUFFICES ASSUME Eligible(ob) PROVE op.mode # "HUMAN_ACTIVE" /\ op.status \notin Closed
    OBVIOUS
  <2>2. /\ ~ob.optedOut /\ ob.operational /\ ~HumanInvolved(ob)
        /\ ob.status \notin Closed \cup {"BOOKED"} /\ ~HasRejection(ob)
    BY <2>1, EligibleIsOpen, RejectedIsNotEligible
  <2>3. /\ Contactable(reads[r].consent) /\ reads[r].mode = "AI_ACTIVE"
        /\ ~Covered(op)
    BY <1>r, <1>3, <1>8, <2>2 DEF Contactable, HumanInvolved, EvaluationReading, Modes, Covered
  <2> QED
    BY <1>c, <1>3, <2>2, <2>3 DEF ReadingCovered
<1>10. approved => RecoveryActionStatus(ob) = "WAITING_APPROVAL"
  OBVIOUS
<1>11. /\ recovery = "HUMAN_REQUIRED" => RecoveryStateAfterDecision(ob) = "HUMAN_REQUIRED"
       /\ approved => recovery = "RECOVERY_ACTIVE"
       /\ ~approved => recovery = RecoveryStateAfterDecision(ob)
  OBVIOUS
<1> HIDE DEF o, ob, approved, recovery, action
\* After the retirement no live action of o is left.
<1>12. \A a \in retired : a \in Actions /\ actions[a].status # Absent
  BY <1>1 DEF Retirable, LiveActionsOf, ActionsOf
<1>13. \A a \in Actions : LiveAction(a) /\ actions[a].opportunity = o => a \in retired
  <2>1. SUFFICES ASSUME NEW a \in Actions, LiveAction(a), actions[a].opportunity = o
                 PROVE  a \in retired
    OBVIOUS
  <2>2. a \in LiveActionsOf(o)
    BY <2>1 DEF LiveActionsOf, ActionsOf, LiveAction, LiveStatuses, Absent
  <2>3. PICK b \in LiveActionsOf(o) : retired = {b}
    BY <1>1, <2>2 DEF Retirable
  <2>4. b \in Actions /\ LiveAction(b) /\ actions[b].opportunity = o
    BY DEF LiveActionsOf, ActionsOf, LiveAction
  <2> QED
    BY <2>1, <2>3, <2>4 DEF Sound, OneLive
<1>14. actions'[new] = action
  BY <1>1 DEF ActionsCancelled
<1>15. ASSUME NEW a \in Actions, a # new, a \in retired
       PROVE  actions'[a].status = "CANCELLED" /\ actions'[a].opportunity = actions[a].opportunity
  <2>1. actions'[a] = WithStatus(actions[a], "CANCELLED")
    BY <1>1, <1>15 DEF ActionsCancelled
  <2> QED
    BY <2>1, ActionStatusRow DEF TypeOK, ActionStatuses
<1>16. ASSUME NEW a \in Actions, a # new, a \notin retired
       PROVE  actions'[a] = actions[a]
  BY <1>1, <1>16 DEF ActionsCancelled
<1>17. \A a \in Actions : actions'[a].opportunity \in Opportunities
  <2>1. TypeOK'
    <3>1. Next
      BY DEF Next
    <3> QED
      BY <3>1, NextType
  <2> QED
    BY <2>1 DEF TypeOK, ActionType
<1>18. ActionSound(new)' /\ LiveSound(new)'
  <2>1. OpportunityOf(new)' = opportunities'[o]
    BY <1>6, <1>14 DEF OpportunityOf
  <2>2. ActionSound(new)'
    <3>1. CASE approved
      <4>1. action.approved = TRUE /\ action.status = "READY"
        BY <1>4, <1>6, <3>1
      <4>2. op.profile.autonomy \notin {"OBSERVE", "SUGGEST"}
        BY <1>3, <1>10, <3>1, AutonomyIsRespected
      <4> QED
        BY <1>2, <1>7, <1>14, <2>1, <4>1, <4>2 DEF ActionSound
    <3>2. CASE ~approved
      BY <1>2, <1>3, <1>6, <1>7, <1>14, <2>1, <3>2, AutonomyIsRespected DEF ActionSound
    <3> QED
      BY <3>1, <3>2
  <2>3. CASE action.status \in {"PENDING", "WAITING_APPROVAL", "READY"}
    <3>1. /\ RecoveryActionStatus(ob) \in {"PENDING", "WAITING_APPROVAL", "READY"}
          /\ recovery = IF action.status = "READY" THEN "RECOVERY_ACTIVE" ELSE "AT_RISK"
      BY <1>6, <1>10, <1>11, <2>3, PreparedIsEligible
    <3>2. Eligible(ob)
      BY <3>1, PreparedIsEligible
    <3> QED
      BY <1>2, <1>6, <1>7, <1>9, <1>14, <2>1, <2>2, <2>3, <3>1, <3>2 DEF LiveSound
  <2>4. CASE action.status = "HUMAN_REQUIRED"
    <3>1. RecoveryActionStatus(ob) = "HUMAN_REQUIRED" /\ ~approved
      BY <1>6, <2>4
    <3>2. ob.status \notin Closed /\ recovery = "HUMAN_REQUIRED"
      BY <1>11, <3>1, HumanRequestIsJustified
    <3> QED
      BY <1>3, <1>6, <1>7, <1>14, <2>1, <2>2, <2>4, <3>2 DEF LiveSound
  <2>5. CASE action.status = "SUPPRESSED"
    BY <1>14, <2>2, <2>5 DEF LiveSound, LiveStatuses
  <2> QED
    BY <1>6, <2>3, <2>4, <2>5, PreparedIsEligible
<1>19. ASSUME NEW a \in Actions, a # new PROVE ActionSound(a)' /\ LiveSound(a)'
  <2>1. ActionSound(a) /\ LiveSound(a)
    BY DEF Sound
  <2>2. CASE a \in retired
    <3>1. OpportunityOf(a).status # Absent /\ actions[a].opportunity \in Opportunities
      BY <1>12, <2>1, <2>2 DEF ActionSound, TypeOK, ActionType
    <3>2. OpportunityOf(a)'.status # Absent
      BY <1>2, <1>7, <1>15, <1>19, <2>2, <3>1 DEF OpportunityOf
    <3> QED
      BY <1>15, <1>19, <2>2, <3>2 DEF ActionSound, LiveSound, LiveStatuses
  <2>3. CASE a \notin retired /\ actions[a].opportunity = o
    <3>1. actions'[a] = actions[a] /\ actions[a].status \notin LiveStatuses
      BY <1>13, <1>16, <1>19, <2>3 DEF LiveAction
    <3>2. OpportunityOf(a) = op /\ OpportunityOf(a)' = opportunities'[o]
      BY <2>3, <3>1 DEF OpportunityOf
    <3> QED
      BY <1>7, <2>1, <3>1, <3>2 DEF ActionSound, LiveSound, LiveStatuses
  <2>4. CASE a \notin retired /\ actions[a].opportunity # o
    <3>1. actions'[a] = actions[a] /\ OpportunityOf(a)' = OpportunityOf(a)
      BY <1>7, <1>16, <1>17, <1>19, <2>4 DEF OpportunityOf
    <3> QED
      BY <1>2, <2>1, <3>1 DEF ActionSound, LiveSound
  <2> QED
    BY <2>2, <2>3, <2>4
<1>20. ASSUME NEW j \in Jobs PROVE JobSound(j)'
  BY <1>2, <1>7, <1>20 DEF Sound, JobSound, TypeOK, JobType
<1>21. ASSUME NEW x \in Opportunities PROVE OpportunitySound(x)'
  <2>1. CASE x = o
    BY <1>2, <1>7, <2>1 DEF Sound, OpportunitySound
  <2>2. CASE x # o
    BY <1>7, <2>2 DEF Sound, OpportunitySound
  <2> QED
    BY <2>1, <2>2
<1>22. OneLive'
  <2>1. \A a \in Actions : a # new /\ LiveAction(a)' =>
          /\ LiveAction(a) /\ actions'[a].opportunity = actions[a].opportunity
          /\ actions[a].opportunity # o
    BY <1>13, <1>15, <1>16 DEF LiveAction, LiveStatuses
  <2>2. actions'[new].opportunity = o
    BY <1>6, <1>14
  <2> QED
    BY <2>1, <2>2 DEF Sound, OneLive
\* A decision leaves a covered opportunity covered: it asks for a person again,
\* unless its own reading was not to be contacted, and then nobody is.
<1>23. ASSUME NEW q \in Requests PROVE ReadingSound(q)'
  <2>1. CASE q = r
    <3>1. reads'[q] = Idle
      BY <1>r, <2>1, EndsRows
    <3> QED
      BY <3>1 DEF ReadingSound, Pending, Idle, None
  <2>2. CASE q # r /\ reads[q] # Idle
    <3>1. /\ reads'[q] = reads[q] /\ ReadingSound(q)
          /\ reads[q].opportunity \in Opportunities
      BY <1>r, <2>2, EndsRows, ReadingTypes DEF Sound
    <3>2. CASE reads[q].opportunity # o
      BY <1>2, <1>7, <3>1, <3>2 DEF ReadingSound, ReadingCovered, Pending
    <3>3. CASE reads[q].opportunity = o
      <4>1. opportunities'[o].status # Absent
        BY <1>2, <1>7
      <4>2. ASSUME Pending(q, "EVALUATION") PROVE ReadingCovered(reads[q])'
        <5>1. ReadingCovered(reads[q])
          BY <3>1, <4>2 DEF ReadingSound
        <5>2. ASSUME Contactable(reads[q].consent), reads[q].mode = "AI_ACTIVE",
                     op.mode = "HUMAN_ACTIVE"
              PROVE  Covered(opportunities'[o])
          <6>1. Covered(op) /\ (Contactable(customers[CustomerOf[o]]) \/ op.status \in Closed)
            BY <3>3, <5>1, <5>2 DEF ReadingCovered
          <6>2. CASE op.status \in Closed \cup {"BOOKED"} \/ HasRejection(op)
            BY <1>7, <6>2 DEF Covered, HasRejection
          <6>3. CASE op.recovery = "HUMAN_REQUIRED" /\ op.status \notin Closed /\ ~HasRejection(op)
            <7>1. Contactable(reads[r].consent)
              BY <1>c, <6>1, <6>3 DEF ReadingCovered, o
            <7>2. /\ HumanInvolved(ob) /\ ~ob.optedOut /\ ob.operational
                  /\ ob.status \notin Closed /\ ~HasRejection(ob)
              BY <1>3, <1>8, <6>3, <7>1 DEF Contactable, HumanInvolved
            <7>3. /\ RecoveryActionStatus(ob) = "HUMAN_REQUIRED"
                  /\ RecoveryStateAfterDecision(ob) = "HUMAN_REQUIRED"
              BY <7>2, HumanIsAskedFor
            <7> QED
              BY <1>7, <1>10, <1>11, <7>3 DEF Covered
          <6> QED
            BY <6>1, <6>2, <6>3 DEF Covered
        <5> QED
          BY <1>2, <1>7, <3>1, <3>3, <5>1, <5>2 DEF ReadingCovered
      <4> QED
        BY <3>1, <3>3, <4>1, <4>2 DEF ReadingSound, Pending
    <3> QED
      BY <3>2, <3>3
  <2>3. CASE q # r /\ reads[q] = Idle
    <3>1. reads'[q] = Idle
      BY <1>r, <2>3, EndsRows
    <3> QED
      BY <3>1 DEF ReadingSound, Pending, Idle, None
  <2> QED
    BY <2>1, <2>2, <2>3
<1> QED
  BY <1>18, <1>19, <1>20, <1>21, <1>22, <1>23 DEF Sound

\* An approval: the action waited, so nobody took the conversation over and the
\* opportunity is open.
LEMMA ApproveSound ==
  ASSUME TypeOK, Sound, NEW a \in Actions, ApproveRecoveryAction(a)
  PROVE  Sound'
<1> DEFINE o  == actions[a].opportunity
           op == opportunities[o]
<1>1. /\ actions[a].status = "WAITING_APPROVAL"
      /\ actions' = [actions EXCEPT ![a] = Approved(actions[a])]
      /\ opportunities' = [opportunities EXCEPT ![o] = Activated(op)]
      /\ UNCHANGED <<customers, jobs, reads>>
  BY DEF ApproveRecoveryAction
<1>2. o \in Opportunities /\ op \in OpportunityType /\ actions[a] \in ActionType
  BY DEF TypeOK, ActionType
<1>3. ActionSound(a) /\ LiveSound(a) /\ OpportunityOf(a) = op
  BY DEF Sound, OpportunityOf
<1>4. /\ op.status # Absent /\ op.status \notin Closed
      /\ op.mode # "HUMAN_ACTIVE"
      /\ op.profile.autonomy \notin {"OBSERVE", "SUGGEST"}
  BY <1>1, <1>3 DEF ActionSound, LiveSound, LiveStatuses, Absent
<1>5. /\ \A x \in Opportunities : x # o => opportunities'[x] = opportunities[x]
      /\ opportunities'[o].status = op.status /\ opportunities'[o].profile = op.profile
      /\ opportunities'[o].mode = op.mode /\ opportunities'[o].openHandoff = op.openHandoff
      /\ opportunities'[o].recovery = "RECOVERY_ACTIVE"
  BY <1>1, <1>2, <1>4, ActivatedRow DEF TypeOK
<1>6. /\ \A b \in Actions : b # a => actions'[b] = actions[b]
      /\ actions'[a].status = "READY" /\ actions'[a].approved = TRUE
      /\ actions'[a].opportunity = o
  BY <1>1, <1>2, ApprovedRow DEF TypeOK
<1> HIDE DEF o, op
<1>7. ActionSound(a)' /\ LiveSound(a)'
  <2>1. OpportunityOf(a)' = opportunities'[o]
    BY <1>6 DEF OpportunityOf
  <2> QED
    BY <1>1, <1>4, <1>5, <1>6, <2>1 DEF ActionSound, LiveSound, LiveStatuses
<1>8. \A b \in Actions : b # a /\ LiveAction(b) => actions[b].opportunity # o
  BY <1>1 DEF Sound, OneLive, LiveAction, LiveStatuses, o
<1>9. ASSUME NEW b \in Actions, b # a PROVE ActionSound(b)' /\ LiveSound(b)'
  <2>1. ActionSound(b) /\ LiveSound(b) /\ actions[b].opportunity \in Opportunities
    BY DEF Sound, TypeOK, ActionType
  <2>2. CASE actions[b].opportunity = o
    <3>1. OpportunityOf(b) = op /\ OpportunityOf(b)' = opportunities'[o]
      BY <1>6, <1>9, <2>2 DEF OpportunityOf, op
    <3> QED
      BY <1>5, <1>6, <1>8, <1>9, <2>1, <2>2, <3>1 DEF ActionSound, LiveSound, LiveAction
  <2>3. CASE actions[b].opportunity # o
    <3>1. OpportunityOf(b)' = OpportunityOf(b)
      BY <1>5, <1>6, <1>9, <2>1, <2>3 DEF OpportunityOf
    <3> QED
      BY <1>1, <1>6, <1>9, <2>1, <3>1 DEF ActionSound, LiveSound
  <2> QED
    BY <2>2, <2>3
<1>10. ASSUME NEW j \in Jobs PROVE JobSound(j)'
  BY <1>1, <1>5, <1>10 DEF Sound, JobSound, TypeOK, JobType, op
<1>11. ASSUME NEW x \in Opportunities PROVE OpportunitySound(x)'
  <2>1. CASE x = o
    BY <1>2, <1>4, <1>5, <2>1 DEF Sound, OpportunitySound, RowAllowed, Closed, op
  <2>2. CASE x # o
    BY <1>5, <2>2 DEF Sound, OpportunitySound
  <2> QED
    BY <2>1, <2>2
<1>12. OneLive'
  BY <1>6, <1>8 DEF Sound, OneLive, LiveAction
<1>13. ASSUME NEW r \in Requests PROVE ReadingSound(r)'
  <2>1. CoveredMove(o)
    BY <1>1, <1>4, <1>5 DEF CoveredMove, op
  <2>2. \A x \in Opportunities : opportunities[x].status # Absent => CoveredMove(x)
    BY <1>1, <1>5, <2>1, UnchangedIsCovered
  <2> QED
    BY <1>1, <2>2, ReadingsKept
<1> QED
  BY <1>7, <1>9, <1>10, <1>11, <1>12, <1>13 DEF Sound

\* An opt-out reaches every live action of the customer, and closes what a
\* reading may be about.
LEMMA OptOutSound ==
  ASSUME TypeOK, Sound, NEW c \in Customers, RecordCustomerOptOut(c)
  PROVE  Sound'
<1> DEFINE stopped   == StoppedByOptOut(c)
           cancelled == {a \in Actions : \E o \in stopped : a \in LiveActionsOf(o)}
           followUps == {j \in Jobs : \E o \in Opportunities : CustomerOf[o] = c /\ j \in JobsOf(o)}
<1>1. /\ opportunities' = [o \in Opportunities |->
           IF o \in stopped THEN Stopped(opportunities[o]) ELSE opportunities[o]]
      /\ actions' = ActionsCancelled(cancelled)
      /\ jobs' = JobsCancelled(followUps)
      /\ reads' = reads
  BY DEF RecordCustomerOptOut
<1>2. /\ \A d \in Customers : d # c => customers'[d] = customers[d]
      /\ ~Contactable(customers'[c])
  BY DEF RecordCustomerOptOut, TypeOK, Contactable
<1>3. \A o \in Opportunities :
        o \in stopped <=> /\ opportunities[o].status # Absent /\ CustomerOf[o] = c
                          /\ opportunities[o].status \notin Closed
  BY DEF StoppedByOptOut, Exists
<1>4. \A a \in Actions : a \in cancelled <=> LiveAction(a) /\ actions[a].opportunity \in stopped
  BY DEF LiveActionsOf, ActionsOf, LiveAction, LiveStatuses, Absent, StoppedByOptOut
<1> HIDE DEF stopped, cancelled, followUps
<1>6. \A o \in Opportunities : o \in stopped =>
        /\ opportunities'[o].status = "DO_NOT_CONTACT" /\ opportunities'[o].recovery = "STOPPED"
        /\ opportunities'[o].mode = opportunities[o].mode
        /\ opportunities'[o].openHandoff = opportunities[o].openHandoff
        /\ opportunities'[o].profile = opportunities[o].profile
  BY <1>1, StoppedRow DEF TypeOK
<1>7. \A o \in Opportunities : o \notin stopped => opportunities'[o] = opportunities[o]
  BY <1>1
<1>8. \A a \in Actions : a \in cancelled =>
        actions'[a].status = "CANCELLED" /\ actions'[a].opportunity = actions[a].opportunity
  BY <1>1, ActionStatusRow DEF ActionsCancelled, TypeOK, ActionStatuses
<1>9. \A a \in Actions : a \notin cancelled => actions'[a] = actions[a]
  BY <1>1 DEF ActionsCancelled
<1>10. \A j \in Jobs : /\ jobs'[j].opportunity = jobs[j].opportunity
                       /\ jobs[j].status = Absent => jobs'[j].status = Absent
  BY <1>1, JobStatusRow DEF JobsCancelled, TypeOK, JobStatuses, OpenJobStatuses, Absent
<1>13. ASSUME NEW a \in Actions PROVE ActionSound(a)' /\ LiveSound(a)'
  <2>1. /\ ActionSound(a) /\ LiveSound(a)
        /\ actions[a].opportunity \in Opportunities
        /\ CustomerOf[actions[a].opportunity] \in Customers
    BY RecoveryAssumptions DEF Sound, TypeOK, ActionType
  <2>2. /\ actions'[a].opportunity = actions[a].opportunity
        /\ OpportunityOf(a)'.status # Absent \/ OpportunityOf(a).status = Absent
        /\ OpportunityOf(a)'.profile = OpportunityOf(a).profile
    BY <1>6, <1>7, <1>8, <1>9, <2>1 DEF OpportunityOf, Absent
  <2>3. CASE a \in cancelled
    BY <1>4, <1>8, <2>1, <2>2, <2>3 DEF ActionSound, LiveSound, LiveStatuses, LiveAction, Absent
  <2>4. CASE a \notin cancelled
    <3>1. actions'[a] = actions[a]
      BY <1>9, <2>4
    <3>2. ActionSound(a)'
      BY <2>1, <2>2, <3>1 DEF ActionSound
    <3>3. LiveSound(a)'
      <4>1. CASE ~LiveAction(a)
        BY <3>1, <4>1 DEF LiveSound, LiveAction
      <4>2. CASE LiveAction(a)
        <5>1. actions[a].opportunity \notin stopped
          BY <1>4, <2>4, <4>2
        <5>2. CustomerOf[actions[a].opportunity] # c
          BY <1>3, <2>1, <4>2, <5>1 DEF ActionSound, LiveSound, LiveAction, OpportunityOf,
                                        LiveStatuses, Absent
        <5> QED
          BY <1>2, <1>7, <2>1, <3>1, <5>1, <5>2 DEF LiveSound, OpportunityOf
      <4> QED
        BY <4>1, <4>2
    <3> QED
      BY <3>2, <3>3
  <2> QED
    BY <2>3, <2>4
<1>14. ASSUME NEW j \in Jobs PROVE JobSound(j)'
  <2>1. JobSound(j) /\ jobs[j].opportunity \in Opportunities
    BY DEF Sound, TypeOK, JobType
  <2>2. opportunities'[jobs[j].opportunity].status # Absent
          \/ opportunities[jobs[j].opportunity].status = Absent
    BY <1>6, <1>7, <2>1 DEF Absent
  <2> QED
    BY <1>10, <2>1, <2>2 DEF JobSound
<1>15. ASSUME NEW x \in Opportunities PROVE OpportunitySound(x)'
  BY <1>6, <1>7, <1>15 DEF Sound, OpportunitySound, RowAllowed
<1>16. OneLive'
  BY <1>8, <1>9 DEF Sound, OneLive, LiveAction, LiveStatuses
\* The opt-out closes what it finds open.
<1>17. ASSUME NEW o \in Opportunities, opportunities[o].status # Absent PROVE CoveredMove(o)
  <2>1. CASE CustomerOf[o] # c
    <3>1. o \notin stopped /\ CustomerOf[o] \in Customers
      BY <1>3, <2>1, RecoveryAssumptions
    <3> QED
      BY <1>2, <1>7, <1>17, <2>1, <3>1, UnchangedIsCovered
  <2>2. CASE CustomerOf[o] = c
    <3>1. opportunities'[o].status \in Closed
      BY <1>3, <1>6, <1>7, <1>17, <2>2 DEF Closed
    <3> QED
      BY <1>2, <2>2, <3>1 DEF CoveredMove, Covered, Closed, Absent
  <2> QED
    BY <2>1, <2>2
<1>18. ASSUME NEW r \in Requests PROVE ReadingSound(r)'
  BY <1>1, <1>17, ReadingsKept
<1> QED
  BY <1>13, <1>14, <1>15, <1>16, <1>18 DEF Sound

\* What the operations on one conversation have in common: they write one
\* opportunity, settle some of its actions and follow-ups, and keep the rest.
LEMMA ConversationStepSound ==
  ASSUME TypeOK, Sound, TypeOK', NEW o \in Opportunities,
         UNCHANGED <<customers, reads>>,
         \A x \in Opportunities : x # o => opportunities'[x] = opportunities[x],
         CoveredMove(o),
         opportunities'[o].profile = opportunities[o].profile,
         OpportunitySound(o)',
         \A a \in Actions : \/ actions'[a] = actions[a]
                            \/ /\ actions[a].status # Absent
                               /\ actions'[a].status \in {"CANCELLED", "COMPLETED"}
                               /\ actions'[a].opportunity = actions[a].opportunity,
         \A a \in Actions : actions[a].opportunity = o /\ actions'[a] = actions[a] => LiveSound(a)',
         \A j \in Jobs : \/ jobs'[j] = jobs[j]
                         \/ /\ jobs[j].status # Absent
                            /\ jobs'[j].opportunity = jobs[j].opportunity
  PROVE  Sound'
<1>o. opportunities'[o].status # Absent
  BY DEF CoveredMove
<1>1. ASSUME NEW a \in Actions PROVE ActionSound(a)' /\ LiveSound(a)'
  <2>1. ActionSound(a) /\ LiveSound(a) /\ actions[a].opportunity \in Opportunities
    BY DEF Sound, TypeOK, ActionType
  <2>2. opportunities'[actions[a].opportunity].profile = OpportunityOf(a).profile
    BY <2>1 DEF OpportunityOf
  <2>3. OpportunityOf(a).status # Absent => opportunities'[actions[a].opportunity].status # Absent
    BY <1>o, <2>1 DEF OpportunityOf
  <2>4. CASE actions'[a] = actions[a] /\ actions[a].opportunity = o
    BY <2>1, <2>2, <2>3, <2>4 DEF ActionSound, OpportunityOf
  <2>5. CASE actions'[a] = actions[a] /\ actions[a].opportunity # o
    <3>1. OpportunityOf(a)' = OpportunityOf(a)
      BY <2>1, <2>5 DEF OpportunityOf
    <3> QED
      BY <2>1, <2>5, <3>1 DEF ActionSound, LiveSound
  <2>6. CASE actions'[a] # actions[a]
    <3>1. /\ actions[a].status # Absent
          /\ actions'[a].status \in {"CANCELLED", "COMPLETED"}
          /\ actions'[a].opportunity = actions[a].opportunity
      BY <2>6
    <3>2. OpportunityOf(a)'.status # Absent
      BY <2>1, <2>3, <3>1 DEF ActionSound, OpportunityOf
    <3> QED
      BY <3>1, <3>2 DEF ActionSound, LiveSound, LiveStatuses
  <2> QED
    BY <2>4, <2>5, <2>6
<1>2. ASSUME NEW j \in Jobs PROVE JobSound(j)'
  <2>1. JobSound(j) /\ jobs[j].opportunity \in Opportunities
    BY DEF Sound, TypeOK, JobType
  <2>2. opportunities[jobs[j].opportunity].status # Absent =>
          opportunities'[jobs[j].opportunity].status # Absent
    BY <1>o, <2>1
  <2> QED
    BY <2>1, <2>2 DEF JobSound
<1>3. ASSUME NEW x \in Opportunities PROVE OpportunitySound(x)'
  BY <1>3 DEF Sound, OpportunitySound
<1>4. OneLive'
  BY DEF Sound, OneLive, LiveAction, LiveStatuses
<1>5. ASSUME NEW r \in Requests PROVE ReadingSound(r)'
  <2>1. \A x \in Opportunities : opportunities[x].status # Absent => CoveredMove(x)
    BY UnchangedIsCovered
  <2> QED
    BY <2>1, ReadingsKept
<1> QED
  BY <1>1, <1>2, <1>3, <1>4, <1>5 DEF Sound

\* A bulk update settles follow-ups and changes nothing else about them.
LEMMA JobsCancelledRows ==
  ASSUME TypeOK, NEW S, NEW j \in Jobs
  PROVE  \/ JobsCancelled(S)[j] = jobs[j]
         \/ /\ jobs[j].status \in OpenJobStatuses /\ jobs[j].status # Absent
            /\ JobsCancelled(S)[j].status = "cancelled"
            /\ JobsCancelled(S)[j].opportunity = jobs[j].opportunity
<1>1. CASE j \in S /\ jobs[j].status \in OpenJobStatuses
  <2>1. JobsCancelled(S)[j] = WithStatus(jobs[j], "cancelled")
    BY <1>1 DEF JobsCancelled
  <2> QED
    BY <1>1, <2>1, JobStatusRow DEF TypeOK, JobStatuses, OpenJobStatuses, Absent
<1>2. CASE ~(j \in S /\ jobs[j].status \in OpenJobStatuses)
  BY <1>2 DEF JobsCancelled
<1> QED
  BY <1>1, <1>2

LEMMA ActionsCancelledRows ==
  ASSUME TypeOK, NEW S, NEW a \in Actions
  PROVE  IF a \in S
         THEN /\ ActionsCancelled(S)[a].status = "CANCELLED"
              /\ ActionsCancelled(S)[a].opportunity = actions[a].opportunity
         ELSE ActionsCancelled(S)[a] = actions[a]
  BY ActionStatusRow DEF ActionsCancelled, TypeOK, ActionStatuses

\* A reply settles all that was prepared; what is left is the request to a
\* person, and the reply leaves that recovery state alone.
LEMMA ResponseSound ==
  ASSUME TypeOK, Sound, NEW o \in Opportunities, RecordCustomerResponse(o), TypeOK'
  PROVE  Sound'
<1> DEFINE op == opportunities[o]
<1>1. /\ op.status # Absent /\ op.status # "DO_NOT_CONTACT"
      /\ opportunities' = [opportunities EXCEPT ![o] = Replied(op)]
      /\ jobs' = JobsCancelled(JobsOf(o))
      /\ UNCHANGED <<customers, reads>>
  BY DEF RecordCustomerResponse, Exists
<1>2. \A a \in Actions :
        actions'[a] = IF a \in ActionsOf(o) /\ actions[a].status \in PreparedStatuses
                      THEN RetiredByReply(actions[a]) ELSE actions[a]
  BY DEF RecordCustomerResponse
<1>3. op \in OpportunityType /\ OpportunitySound(o)
  BY DEF TypeOK, Sound
<1>4. /\ \A x \in Opportunities : x # o => opportunities'[x] = opportunities[x]
      /\ opportunities'[o].status = StatusAfterReply(op.status)
      /\ opportunities'[o].recovery =
           IF op.recovery = "HUMAN_REQUIRED" THEN op.recovery ELSE "NOT_AT_RISK"
      /\ opportunities'[o].mode = op.mode /\ opportunities'[o].openHandoff = op.openHandoff
      /\ opportunities'[o].profile = op.profile /\ opportunities'[o].rejected = op.rejected
  BY <1>1, <1>3, RepliedRow DEF TypeOK
<1> HIDE DEF op
<1>5. /\ StatusAfterReply(op.status) \notin {Absent, "DO_NOT_CONTACT"}
      /\ StatusAfterReply(op.status) = "WON" => op.status = "WON"
      /\ StatusAfterReply(op.status) = "BOOKED" => op.status = "BOOKED"
  BY <1>1 DEF StatusAfterReply, Absent
<1>6. OpportunitySound(o)'
  BY <1>3, <1>4, <1>5 DEF OpportunitySound, RowAllowed, op
<1>7. \A a \in Actions : \/ actions'[a] = actions[a]
                         \/ /\ actions[a].status # Absent
                            /\ actions'[a].status \in {"CANCELLED", "COMPLETED"}
                            /\ actions'[a].opportunity = actions[a].opportunity
  BY <1>2, RetiredByReplyRow DEF TypeOK, ActionsOf
<1>8. ASSUME NEW a \in Actions, actions[a].opportunity = o, actions'[a] = actions[a]
      PROVE  LiveSound(a)'
  <2>1. LiveSound(a) /\ OpportunityOf(a) = op /\ OpportunityOf(a)' = opportunities'[o]
    BY <1>8 DEF Sound, OpportunityOf, op
  <2>2. LiveAction(a) => actions[a].status = "HUMAN_REQUIRED"
    <3>1. SUFFICES ASSUME LiveAction(a), actions[a].status # "HUMAN_REQUIRED" PROVE FALSE
      OBVIOUS
    <3>2. a \in ActionsOf(o) /\ actions[a].status \in PreparedStatuses
      BY <1>8, <3>1 DEF LiveAction, ActionsOf, PreparedStatuses, LiveStatuses, Absent
    <3>3. actions'[a].status \in {"COMPLETED", "CANCELLED"}
      BY <1>2, <3>2, RetiredByReplyRow DEF TypeOK
    <3> QED
      BY <1>8, <3>1, <3>3 DEF LiveAction, LiveStatuses
  <2>3. CASE ~LiveAction(a)
    BY <1>8, <2>3 DEF LiveSound, LiveAction
  <2>4. CASE LiveAction(a)
    <3>1. /\ op.status \notin Closed
          /\ op.status # "BOOKED" => op.recovery = "HUMAN_REQUIRED"
      BY <1>8, <2>1, <2>2, <2>4 DEF LiveSound, LiveAction
    <3>2. StatusAfterReply(op.status) = op.status \/ op.status \in {"NEW", "CONTACTING"}
      BY DEF StatusAfterReply
    <3>3. StatusAfterReply(op.status) \notin Closed
      BY <1>5, <3>1 DEF Closed
    <3>4. StatusAfterReply(op.status) # "BOOKED" => op.status # "BOOKED"
      BY DEF StatusAfterReply
    <3> QED
      BY <1>1, <1>4, <1>8, <2>1, <2>2, <2>4, <3>1, <3>3, <3>4 DEF LiveSound
  <2> QED
    BY <2>3, <2>4
<1>9. \A j \in Jobs : \/ jobs'[j] = jobs[j]
                      \/ /\ jobs[j].status # Absent
                         /\ jobs'[j].opportunity = jobs[j].opportunity
  BY <1>1, JobsCancelledRows
<1>10. CoveredMove(o)
  <2>1. /\ op.status \in Closed \cup {"LOST", "BOOKED"} => StatusAfterReply(op.status) = op.status
        /\ StatusAfterReply(op.status) = "LOST" => op.status = "LOST"
    BY DEF StatusAfterReply, Closed
  <2>2. Covered(op) => Covered(opportunities'[o])
    BY <1>4, <2>1 DEF Covered, HasRejection
  <2> QED
    BY <1>1, <1>4, <1>5, <2>1, <2>2 DEF CoveredMove, op
<1> QED
  BY <1>1, <1>4, <1>6, <1>7, <1>8, <1>9, <1>10, ConversationStepSound DEF op

\* A takeover settles all that was prepared and hands the rest to a person.
LEMMA TakeoverSound ==
  ASSUME TypeOK, Sound, NEW o \in Opportunities, StartHumanTakeover(o), TypeOK'
  PROVE  Sound'
<1> DEFINE op        == opportunities[o]
           cancelled == {a \in ActionsOf(o) : actions[a].status \in PreparedStatuses}
<1>1. /\ op.status # Absent
      /\ opportunities' = [opportunities EXCEPT ![o] = HandedOver(op)]
      /\ jobs' = JobsCancelled(JobsOf(o))
      /\ actions' = ActionsCancelled(cancelled)
      /\ UNCHANGED <<customers, reads>>
  BY DEF StartHumanTakeover, Exists
<1>2. op \in OpportunityType /\ OpportunitySound(o)
  BY DEF TypeOK, Sound
<1>3. /\ \A x \in Opportunities : x # o => opportunities'[x] = opportunities[x]
      /\ opportunities'[o].status = op.status
      /\ opportunities'[o].recovery = IF op.status \in Closed THEN op.recovery ELSE "HUMAN_REQUIRED"
      /\ opportunities'[o].mode = "HUMAN_ACTIVE" /\ opportunities'[o].openHandoff = TRUE
      /\ opportunities'[o].profile = op.profile
  BY <1>1, <1>2, HandedOverRow DEF TypeOK
<1>4. \A a \in Actions : a \in cancelled <=> a \in ActionsOf(o) /\ actions[a].status \in PreparedStatuses
  OBVIOUS
<1>5. cancelled \subseteq Actions
  BY DEF ActionsOf
<1> HIDE DEF op, cancelled
<1>6. OpportunitySound(o)'
  BY <1>2, <1>3 DEF OpportunitySound, RowAllowed, Closed, op
<1>7. \A a \in Actions : IF a \in cancelled
                         THEN /\ actions'[a].status = "CANCELLED"
                              /\ actions'[a].opportunity = actions[a].opportunity
                         ELSE actions'[a] = actions[a]
  BY <1>1, ActionsCancelledRows
<1>8. \A a \in Actions : \/ actions'[a] = actions[a]
                         \/ /\ actions[a].status # Absent
                            /\ actions'[a].status \in {"CANCELLED", "COMPLETED"}
                            /\ actions'[a].opportunity = actions[a].opportunity
  BY <1>4, <1>7 DEF ActionsOf
<1>9. ASSUME NEW a \in Actions, actions[a].opportunity = o, actions'[a] = actions[a]
      PROVE  LiveSound(a)'
  <2>1. LiveSound(a) /\ OpportunityOf(a) = op /\ OpportunityOf(a)' = opportunities'[o]
    BY <1>9 DEF Sound, OpportunityOf, op
  <2>2. CASE ~LiveAction(a)
    BY <1>9, <2>2 DEF LiveSound, LiveAction
  <2>3. CASE LiveAction(a)
    <3>1. a \in ActionsOf(o)
      BY <1>9, <2>3 DEF LiveAction, ActionsOf, LiveStatuses, Absent
    <3>2. a \notin cancelled
      BY <1>7, <1>9, <2>3 DEF LiveAction, LiveStatuses
    <3>3. actions[a].status = "HUMAN_REQUIRED"
      BY <1>4, <2>3, <3>1, <3>2 DEF LiveAction, PreparedStatuses
    <3>4. op.status \notin Closed
      BY <1>9, <2>1, <2>3 DEF LiveSound, LiveAction
    <3> QED
      BY <1>1, <1>3, <1>9, <2>1, <3>3, <3>4 DEF LiveSound
  <2> QED
    BY <2>2, <2>3
<1>10. \A j \in Jobs : \/ jobs'[j] = jobs[j]
                       \/ /\ jobs[j].status # Absent
                          /\ jobs'[j].opportunity = jobs[j].opportunity
  BY <1>1, JobsCancelledRows
<1>11. CoveredMove(o)
  BY <1>1, <1>3 DEF CoveredMove, Covered, op
<1> QED
  BY <1>1, <1>3, <1>6, <1>8, <1>9, <1>10, <1>11, ConversationStepSound DEF op

\* Resuming settles the request to a person, the only live action there can be.
LEMMA ResumeSound ==
  ASSUME TypeOK, Sound, NEW o \in Opportunities, ResumeAssistant(o), TypeOK'
  PROVE  Sound'
<1> DEFINE op        == opportunities[o]
           cancelled == {a \in ActionsOf(o) : actions[a].status = "HUMAN_REQUIRED"}
<1>1. /\ op.status # Absent /\ op.mode = "HUMAN_ACTIVE"
      /\ opportunities' = [opportunities EXCEPT ![o] = Resumed(op)]
      /\ actions' = ActionsCancelled(cancelled)
      /\ UNCHANGED <<customers, jobs, reads>>
  BY DEF ResumeAssistant, Exists
<1>2. op \in OpportunityType /\ OpportunitySound(o)
  BY DEF TypeOK, Sound
<1>3. /\ \A x \in Opportunities : x # o => opportunities'[x] = opportunities[x]
      /\ opportunities'[o].status = op.status
      /\ opportunities'[o].recovery = RecoveryAfterResume(op)
      /\ opportunities'[o].mode = "AI_ACTIVE" /\ opportunities'[o].openHandoff = FALSE
      /\ opportunities'[o].profile = op.profile
  BY <1>1, <1>2, ResumedRow DEF TypeOK
<1>4. \A a \in Actions : a \in cancelled <=> a \in ActionsOf(o) /\ actions[a].status = "HUMAN_REQUIRED"
  BY DEF ActionsOf
<1> HIDE DEF op, cancelled
<1>5. OpportunitySound(o)'
  BY <1>2, <1>3 DEF OpportunitySound, RowAllowed, RecoveryAfterResume, Closed, op
<1>6. \A a \in Actions : IF a \in cancelled
                         THEN /\ actions'[a].status = "CANCELLED"
                              /\ actions'[a].opportunity = actions[a].opportunity
                         ELSE actions'[a] = actions[a]
  BY <1>1, ActionsCancelledRows
<1>7. \A a \in Actions : \/ actions'[a] = actions[a]
                         \/ /\ actions[a].status # Absent
                            /\ actions'[a].status \in {"CANCELLED", "COMPLETED"}
                            /\ actions'[a].opportunity = actions[a].opportunity
  BY <1>4, <1>6 DEF ActionsOf
<1>8. ASSUME NEW a \in Actions, actions[a].opportunity = o, actions'[a] = actions[a]
      PROVE  LiveSound(a)'
  <2>1. LiveSound(a) /\ OpportunityOf(a) = op
    BY <1>8 DEF Sound, OpportunityOf, op
  <2>2. ~LiveAction(a)
    <3>1. SUFFICES ASSUME LiveAction(a) PROVE FALSE
      OBVIOUS
    <3>2. actions[a].status = "HUMAN_REQUIRED"
      BY <1>1, <2>1, <3>1 DEF LiveSound, LiveAction
    <3>3. a \in cancelled
      BY <1>4, <1>8, <3>2 DEF ActionsOf, Absent
    <3> QED
      BY <1>6, <1>8, <3>2, <3>3
  <2> QED
    BY <1>8, <2>2 DEF LiveSound, LiveAction
<1>9. CoveredMove(o)
  BY <1>1, <1>3 DEF CoveredMove, op
<1> QED
  BY <1>1, <1>3, <1>5, <1>7, <1>8, <1>9, ConversationStepSound DEF op

\* A booking leaves the actions alone; from then on the recovery state does not
\* have to tell what they are.
LEMMA BookingSound ==
  ASSUME TypeOK, Sound, NEW o \in Opportunities, CreateBooking(o), TypeOK'
  PROVE  Sound'
<1> DEFINE op == opportunities[o]
<1>1. /\ op.status \in Bookable
      /\ opportunities' = [opportunities EXCEPT ![o] = Booked(op, Attribution(o))]
      /\ UNCHANGED <<customers, actions, jobs, reads>>
  BY DEF CreateBooking
<1>2. /\ op \in OpportunityType /\ OpportunitySound(o)
      /\ Attribution(o) \in AttributionTypes
  BY DEF TypeOK, Sound, Attribution, AttributionTypes
<1>3. op.status # Absent
  BY <1>1 DEF Bookable, Absent
<1>4. /\ \A x \in Opportunities : x # o => opportunities'[x] = opportunities[x]
      /\ opportunities'[o].status = "BOOKED"
      /\ opportunities'[o].recovery \in {"RECOVERED", "NOT_AT_RISK"}
      /\ opportunities'[o].mode = op.mode /\ opportunities'[o].openHandoff = op.openHandoff
      /\ opportunities'[o].profile = op.profile
  BY <1>1, <1>2, BookedRow DEF TypeOK
<1> HIDE DEF op
<1>5. OpportunitySound(o)'
  BY <1>2, <1>4 DEF OpportunitySound, RowAllowed, op
<1>6. ASSUME NEW a \in Actions, actions[a].opportunity = o PROVE LiveSound(a)'
  <2>1. LiveSound(a) /\ OpportunityOf(a) = op /\ OpportunityOf(a)' = opportunities'[o]
    BY <1>1, <1>6 DEF Sound, OpportunityOf, op
  <2> QED
    BY <1>1, <1>4, <1>6, <2>1 DEF LiveSound, Closed
<1>7. CoveredMove(o)
  BY <1>1, <1>4 DEF CoveredMove, Covered, Bookable, Closed, Absent, op
<1> QED
  BY <1>1, <1>4, <1>5, <1>6, <1>7, ConversationStepSound DEF op

\* Steps that write at most a follow-up and a reading, and of an opportunity
\* no more than whether its lead is lost and its attribution.
LEMMA RowStepSound ==
  ASSUME TypeOK, Sound, TypeOK',
         UNCHANGED <<customers, actions>>,
         \A o \in Opportunities :
           /\ opportunities'[o].status = opportunities[o].status
           /\ opportunities'[o].recovery = opportunities[o].recovery
           /\ opportunities'[o].mode = opportunities[o].mode
           /\ opportunities'[o].openHandoff = opportunities[o].openHandoff
           /\ opportunities'[o].profile = opportunities[o].profile
           /\ opportunities'[o].rejected = opportunities[o].rejected,
         \A j \in Jobs : jobs'[j] = jobs[j] \/ JobSound(j)',
         \A r \in Requests : \/ reads'[r] = reads[r]
                             \/ reads'[r] = Idle
                             \/ ReadingSound(r)'
  PROVE  Sound'
<1>1. ASSUME NEW a \in Actions PROVE ActionSound(a)' /\ LiveSound(a)'
  <2>1. ActionSound(a) /\ LiveSound(a) /\ actions[a].opportunity \in Opportunities
    BY DEF Sound, TypeOK, ActionType
  <2> QED
    BY <2>1 DEF ActionSound, LiveSound, OpportunityOf
<1>2. ASSUME NEW j \in Jobs PROVE JobSound(j)'
  <2>1. JobSound(j) /\ jobs[j].opportunity \in Opportunities
    BY DEF Sound, TypeOK, JobType
  <2> QED
    BY <2>1 DEF JobSound
<1>3. ASSUME NEW x \in Opportunities PROVE OpportunitySound(x)'
  BY <1>3 DEF Sound, OpportunitySound, RowAllowed
<1>4. OneLive'
  BY DEF Sound, OneLive, LiveAction
<1>5. ASSUME NEW r \in Requests PROVE ReadingSound(r)'
  <2>1. \A o \in Opportunities : opportunities[o].status # Absent => CoveredMove(o)
    BY UnchangedIsCovered
  <2> QED
    BY <2>1, ReadingsKept
<1> QED
  BY <1>1, <1>2, <1>3, <1>4, <1>5 DEF Sound

\* A follow-up is scheduled for the opportunity that the request has found.
LEMMA ScheduleSound ==
  ASSUME TypeOK, Sound, NEW r \in Requests, NEW j \in Jobs, TypeOK',
         CreateFollowUp(r, j) \/ PrepareReactivation(r, j)
  PROVE  Sound'
<1> DEFINE o == reads[r].opportunity
<1>1. /\ jobs' = [jobs EXCEPT ![j] = ScheduledJob(o)]
      /\ Ends(r)
      /\ UNCHANGED <<customers, actions>>
      /\ \/ opportunities' = opportunities
         \/ opportunities' = [opportunities EXCEPT ![o] = Reactivated(opportunities[o])]
  BY DEF CreateFollowUp, PrepareReactivation
<1>2. o \in Opportunities /\ opportunities[o].status # Absent
  BY ReadingTypes DEF CreateFollowUp, PrepareReactivation, Sound, ReadingSound
<1>3. \A x \in Opportunities :
        /\ opportunities'[x].status = opportunities[x].status
        /\ opportunities'[x].recovery = opportunities[x].recovery
        /\ opportunities'[x].mode = opportunities[x].mode
        /\ opportunities'[x].openHandoff = opportunities[x].openHandoff
        /\ opportunities'[x].profile = opportunities[x].profile
        /\ opportunities'[x].rejected = opportunities[x].rejected
  BY <1>1, <1>2, ReactivatedRow DEF TypeOK
<1>4. jobs'[j] = ScheduledJob(o) /\ \A i \in Jobs : i # j => jobs'[i] = jobs[i]
  BY <1>1 DEF TypeOK
<1>5. ScheduledJob(o).opportunity = o
  BY DEF ScheduledJob
<1>6. JobSound(j)'
  BY <1>2, <1>3, <1>4, <1>5 DEF JobSound
<1>7. \A q \in Requests : reads'[q] = reads[q] \/ reads'[q] = Idle
  BY <1>1, EndsRows
<1> QED
  BY <1>1, <1>3, <1>4, <1>6, <1>7, RowStepSound

\* What a request reads is up to date when it reads it.
LEMMA BeginSound ==
  ASSUME TypeOK, Sound, NEW r \in Requests, NEW o \in Opportunities, TypeOK',
         \/ BeginEvaluation(r, o)
         \/ BeginFollowUp(r, o)
         \/ BeginReactivation(r, o)
         \/ BeginRevenueEntry(r, o)
  PROVE  Sound'
<1>1. PICK reading : /\ Begins(r, reading) /\ reading.opportunity = o
                     /\ reading.purpose = "EVALUATION" =>
                          /\ reading.mode = opportunities[o].mode
                          /\ reading.consent = customers[CustomerOf[o]]
  BY DEF BeginEvaluation, BeginFollowUp, BeginReactivation, BeginRevenueEntry
<1>2. opportunities[o].status # Absent
  BY DEF BeginEvaluation, BeginFollowUp, BeginReactivation, BeginRevenueEntry, Exists
<1>3. /\ reads'[r] = reading /\ \A q \in Requests : q # r => reads'[q] = reads[q]
      /\ UNCHANGED <<customers, opportunities, actions, jobs>>
  BY <1>1 DEF Begins, TypeOK
<1>4. ReadingSound(r)'
  BY <1>1, <1>2, <1>3 DEF ReadingSound, ReadingCovered, Pending
<1> QED
  BY <1>3, <1>4, RowStepSound

\* A revenue entry writes the attribution of an opportunity and no more of it.
LEMMA RevenueEntrySound ==
  ASSUME TypeOK, Sound, NEW r \in Requests, NEW claimed \in ClientAttributions \cup {None},
         AppendRevenueEntry(r, claimed), TypeOK'
  PROVE  Sound'
<1>1. PICK w : /\ opportunities' = [opportunities EXCEPT ![reads[r].opportunity].attribution = w]
               /\ Ends(r) /\ UNCHANGED <<customers, actions, jobs>>
  BY DEF AppendRevenueEntry
<1>2. \A x \in Opportunities :
        /\ opportunities'[x].status = opportunities[x].status
        /\ opportunities'[x].recovery = opportunities[x].recovery
        /\ opportunities'[x].mode = opportunities[x].mode
        /\ opportunities'[x].openHandoff = opportunities[x].openHandoff
        /\ opportunities'[x].profile = opportunities[x].profile
        /\ opportunities'[x].rejected = opportunities[x].rejected
  BY <1>1 DEF TypeOK, OpportunityType
<1>3. \A q \in Requests : reads'[q] = reads[q] \/ reads'[q] = Idle
  BY <1>1, EndsRows
<1> QED
  BY <1>1, <1>2, <1>3, RowStepSound

\* A follow-up that is claimed, tried or cancelled keeps its opportunity.
LEMMA FollowUpSound ==
  ASSUME TypeOK, Sound, NEW j \in Jobs, NEW result, TypeOK',
         CancelFollowUp(j) \/ ClaimFollowUp(j) \/ FinishFollowUp(j, result)
  PROVE  Sound'
<1>1. /\ UNCHANGED <<customers, opportunities, actions, reads>>
      /\ \A i \in Jobs : i # j => jobs'[i] = jobs[i]
      /\ jobs[j] \in JobType
  BY DEF CancelFollowUp, ClaimFollowUp, FinishFollowUp, TypeOK
<1>2. jobs'[j].opportunity = jobs[j].opportunity /\ jobs[j].status # Absent
  BY <1>1, JobStatusRow, AttemptedRow
     DEF CancelFollowUp, ClaimFollowUp, FinishFollowUp, Finishable, TypeOK, JobStatuses,
         OpenJobStatuses, Absent
<1>3. JobSound(j)'
  BY <1>1, <1>2 DEF Sound, JobSound
<1> QED
  BY <1>1, <1>3, RowStepSound

-----------------------------------------------------------------------------
(* Theorems *)

\* A step writes no row of a table, or it is one of these.
LEMMA WritingSteps ==
  ASSUME [Next]_vars
  PROVE  \/ UNCHANGED <<customers, opportunities, actions, jobs>>
         \/ \E o \in Opportunities, p \in Profiles : CreateOpportunity(o, p)
         \/ \E o \in Opportunities : \/ RecordCustomerResponse(o)
                                    \/ StartHumanTakeover(o)
                                    \/ ResumeAssistant(o)
                                    \/ CreateBooking(o)
         \/ \E r \in Requests, new \in Actions, recent, window, ownerApproves \in BOOLEAN :
              Evaluate(r, new, recent, window, ownerApproves)
         \/ \E r \in Requests, j \in Jobs : CreateFollowUp(r, j) \/ PrepareReactivation(r, j)
         \/ \E r \in Requests, claimed \in ClientAttributions \cup {None} :
              AppendRevenueEntry(r, claimed)
         \/ \E a \in Actions : ApproveRecoveryAction(a)
         \/ \E c \in Customers : RecordCustomerOptOut(c)
         \/ \E j \in Jobs : \/ CancelFollowUp(j)
                           \/ ClaimFollowUp(j)
                           \/ \E result \in {"sent", "failed"} : FinishFollowUp(j, result)
<1>1. ASSUME NEW o \in Opportunities, NEW r \in Requests,
             \/ BeginEvaluation(r, o)
             \/ BeginFollowUp(r, o)
             \/ BeginReactivation(r, o)
             \/ BeginRevenueEntry(r, o)
      PROVE  UNCHANGED <<customers, opportunities, actions, jobs>>
  BY <1>1 DEF BeginEvaluation, BeginFollowUp, BeginReactivation, BeginRevenueEntry, Begins
<1>2. ASSUME NEW r \in Requests, EndUnchanged(r)
      PROVE  UNCHANGED <<customers, opportunities, actions, jobs>>
  BY <1>2 DEF EndUnchanged
<1>3. CASE Tick \/ UNCHANGED vars
  BY <1>3 DEF Tick, vars
<1> QED
  BY <1>1, <1>2, <1>3 DEF Next

LEMMA NextSound == TypeOK /\ Sound /\ [Next]_vars => Sound'
<1> SUFFICES ASSUME TypeOK, Sound, [Next]_vars PROVE Sound'
  OBVIOUS
<1>1. TypeOK'
  BY NextType
<1>2. CASE \E o \in Opportunities : \E p \in Profiles : CreateOpportunity(o, p)
  BY <1>2, CreateOpportunitySound
<1>3. CASE \E r \in Requests : \E new \in Actions, recent, window, ownerApproves \in BOOLEAN :
             Evaluate(r, new, recent, window, ownerApproves)
  BY <1>3, EvaluateSound
<1>4. CASE \E o \in Opportunities : \/ RecordCustomerResponse(o)
                                    \/ StartHumanTakeover(o)
                                    \/ ResumeAssistant(o)
                                    \/ CreateBooking(o)
  BY <1>1, <1>4, ResponseSound, TakeoverSound, ResumeSound, BookingSound
<1>5. CASE \E r \in Requests : \E j \in Jobs : CreateFollowUp(r, j) \/ PrepareReactivation(r, j)
  BY <1>1, <1>5, ScheduleSound
<1>6. CASE \E a \in Actions : ApproveRecoveryAction(a)
  BY <1>6, ApproveSound
<1>7. CASE \E c \in Customers : RecordCustomerOptOut(c)
  BY <1>7, OptOutSound
<1>8. CASE \E j \in Jobs : \/ CancelFollowUp(j)
                           \/ ClaimFollowUp(j)
                           \/ \E result \in {"sent", "failed"} : FinishFollowUp(j, result)
  BY <1>1, <1>8, FollowUpSound
<1>9. CASE \E o \in Opportunities : \E r \in Requests : \/ BeginEvaluation(r, o)
                                                      \/ BeginFollowUp(r, o)
                                                      \/ BeginReactivation(r, o)
                                                      \/ BeginRevenueEntry(r, o)
  BY <1>1, <1>9, BeginSound
<1>10. CASE \E r \in Requests : \E claimed \in ClientAttributions \cup {None} :
              AppendRevenueEntry(r, claimed)
  BY <1>1, <1>10, RevenueEntrySound
<1>11. CASE \E r \in Requests : EndUnchanged(r)
  <2>1. /\ UNCHANGED <<customers, opportunities, actions, jobs>>
        /\ \A q \in Requests : reads'[q] = reads[q] \/ reads'[q] = Idle
    BY <1>11, EndsRows DEF EndUnchanged
  <2> QED
    BY <1>1, <2>1, RowStepSound
<1>12. CASE Tick \/ UNCHANGED vars
  <2>1. UNCHANGED <<customers, opportunities, actions, jobs, reads>>
    BY <1>12 DEF Tick, vars
  <2> QED
    BY <1>1, <2>1, RowStepSound
<1> QED
  BY <1>2, <1>3, <1>4, <1>5, <1>6, <1>7, <1>8, <1>9, <1>10, <1>11, <1>12 DEF Next

\* The row-by-row invariant holds in every reachable state, for any number of
\* customers, opportunities, actions and follow-ups.
THEOREM SoundAlways == Spec => [](TypeOK /\ Sound)
<1>1. Init => TypeOK /\ Sound
  BY InitType, InitSound
<1>2. TypeOK /\ Sound /\ [Next]_vars => (TypeOK /\ Sound)'
  BY NextType, NextSound
<1> QED
  BY <1>1, <1>2, PTL DEF Spec

\* The recovery invariants at once, in every reachable state, with any number
\* of requests between their reads and their writes.
THEOREM RecoveryCorrect == Spec => []RecoveryInvariant
  BY SoundAlways, SoundIsEnough, PTL

\* Evaluations, expiries, approvals, takeovers and replies in any order never
\* leave an opportunity with two live actions.
THEOREM OneLiveActionAlways == Spec => []OneLiveAction
<1>1. RecoveryInvariant => OneLiveAction
  BY DEF RecoveryInvariant
<1> QED
  BY <1>1, RecoveryCorrect, PTL

\* While a person has the conversation no work that an assistant prepared is
\* live: an evaluation under way, whatever it had read before the takeover,
\* brings none back.
THEOREM HandoffAlwaysSilences == Spec => []HandoffSilencesAutomation
<1>1. RecoveryInvariant => HandoffSilencesAutomation
  BY DEF RecoveryInvariant
<1> QED
  BY <1>1, RecoveryCorrect, PTL

\* What makes the others hold although an evaluation does not lock what it
\* reads: a reading that is out of date is of an opportunity for which nothing
\* is prepared.
THEOREM ReadingsAreAlwaysCovered == Spec => []ReadingsAreCovered
<1>1. RecoveryInvariant => ReadingsAreCovered
  BY DEF RecoveryInvariant
<1> QED
  BY <1>1, RecoveryCorrect, PTL

\* The domain's assertOpportunityState holds although no operation calls it.
THEOREM ClosedNeverRunsRecovery == Spec => []ClosedDoesNotRunRecovery
<1>1. RecoveryInvariant => ClosedDoesNotRunRecovery
  BY DEF RecoveryInvariant
<1> QED
  BY <1>1, RecoveryCorrect, PTL

\* The recovery state of an opportunity that is not booked always tells what
\* its live action is.
THEOREM RecoveryStateAlwaysMatches == Spec => []LiveActionMatchesRecoveryState
<1>1. RecoveryInvariant => LiveActionMatchesRecoveryState
  BY DEF RecoveryInvariant
<1> QED
  BY <1>1, RecoveryCorrect, PTL

\* Autonomy is never exceeded: what is ready to send was approved or did not
\* need to be.
THEOREM ReadyIsAlwaysAuthorised == Spec => []ReadyIsAuthorised
<1>1. RecoveryInvariant => ReadyIsAuthorised
  BY DEF RecoveryInvariant
<1> QED
  BY <1>1, RecoveryCorrect, PTL

-----------------------------------------------------------------------------
(* Statuses *)

\* The only status changes of an existing opportunity are those three.
LEMMA StatusChanges ==
  ASSUME TypeOK, [Next]_vars, NEW o \in Opportunities, Exists(o)
  PROVE  \/ opportunities'[o].status = opportunities[o].status
         \/ opportunities[o].status \in {"NEW", "CONTACTING"} /\ opportunities'[o].status = "ENGAGED"
         \/ opportunities[o].status \in Bookable /\ opportunities'[o].status = "BOOKED"
         \/ opportunities[o].status \notin Closed /\ opportunities'[o].status = "DO_NOT_CONTACT"
<1> DEFINE Goal ==
      \/ opportunities'[o].status = opportunities[o].status
      \/ opportunities[o].status \in {"NEW", "CONTACTING"} /\ opportunities'[o].status = "ENGAGED"
      \/ opportunities[o].status \in Bookable /\ opportunities'[o].status = "BOOKED"
      \/ opportunities[o].status \notin Closed /\ opportunities'[o].status = "DO_NOT_CONTACT"
<1>t. /\ \A x \in Opportunities : opportunities[x] \in OpportunityType
      /\ \A a \in Actions : actions[a].opportunity \in Opportunities
      /\ opportunities \in [Opportunities -> OpportunityType]
  BY DEF TypeOK, ActionType
<1>1. ASSUME NEW x \in Opportunities, NEW p \in Profiles, CreateOpportunity(x, p) PROVE Goal
  BY <1>1, <1>t DEF CreateOpportunity
<1>2. ASSUME NEW r \in Requests, NEW new \in Actions, NEW recent \in BOOLEAN,
             NEW window \in BOOLEAN, NEW ownerApproves \in BOOLEAN,
             Evaluate(r, new, recent, window, ownerApproves)
      PROVE  Goal
  <2> DEFINE x == reads[r].opportunity
  <2>1. PICK v : opportunities' = [opportunities EXCEPT ![x] = Decided(opportunities[x], v)]
    BY <1>2 DEF Evaluate
  <2>2. x \in Opportunities
    BY <1>2, ReadingTypes DEF Evaluate
  <2>3. Decided(opportunities[x], v).status = opportunities[x].status
    BY <1>t, <2>2 DEF Decided, OpportunityType
  <2> HIDE DEF x
  <2> QED
    BY <1>t, <2>1, <2>3
<1>3. ASSUME NEW a \in Actions, ApproveRecoveryAction(a) PROVE Goal
  BY <1>3, <1>t, ActivatedRow DEF ApproveRecoveryAction
<1>4. ASSUME NEW c \in Customers, RecordCustomerOptOut(c) PROVE Goal
  BY <1>4, <1>t, StoppedRow DEF RecordCustomerOptOut, StoppedByOptOut
<1>5. ASSUME NEW x \in Opportunities, RecordCustomerResponse(x) PROVE Goal
  <2>1. Replied(opportunities[x]).status = StatusAfterReply(opportunities[x].status)
    BY <1>5, <1>t, RepliedRow DEF RecordCustomerResponse, Exists
  <2> QED
    BY <1>5, <1>t, <2>1 DEF RecordCustomerResponse, StatusAfterReply
<1>6. ASSUME NEW x \in Opportunities, StartHumanTakeover(x) PROVE Goal
  BY <1>6, <1>t, HandedOverRow DEF StartHumanTakeover
<1>7. ASSUME NEW x \in Opportunities, ResumeAssistant(x) PROVE Goal
  BY <1>7, <1>t, ResumedRow DEF ResumeAssistant
<1>8. ASSUME NEW x \in Opportunities, CreateBooking(x) PROVE Goal
  <2>1. Attribution(x) \in AttributionTypes
    BY DEF Attribution, AttributionTypes
  <2> QED
    BY <1>8, <1>t, <2>1, BookedRow DEF CreateBooking
<1>9. ASSUME NEW r \in Requests, NEW j \in Jobs,
             CreateFollowUp(r, j) \/ PrepareReactivation(r, j)
      PROVE  Goal
  <2> DEFINE x == reads[r].opportunity
  <2>1. /\ x \in Opportunities
        /\ \/ opportunities' = opportunities
           \/ opportunities' = [opportunities EXCEPT ![x] = Reactivated(opportunities[x])]
    BY <1>9, ReadingTypes DEF CreateFollowUp, PrepareReactivation
  <2> HIDE DEF x
  <2> QED
    BY <1>t, <2>1, ReactivatedRow
<1>10. ASSUME NEW r \in Requests, NEW claimed, AppendRevenueEntry(r, claimed) PROVE Goal
  BY <1>10, <1>t DEF AppendRevenueEntry, OpportunityType
<1>11. ASSUME NEW j \in Jobs, NEW result,
              CancelFollowUp(j) \/ ClaimFollowUp(j) \/ FinishFollowUp(j, result)
       PROVE  Goal
  BY <1>11 DEF CancelFollowUp, ClaimFollowUp, FinishFollowUp
<1>12. CASE UNCHANGED opportunities
  BY <1>12
<1> QED
  BY <1>1, <1>2, <1>3, <1>4, <1>5, <1>6, <1>7, <1>8, <1>9, <1>10, <1>11, <1>12, WritingSteps

\* No operation takes an opportunity where the domain's transition table does
\* not let it go, although none of them consults the table.
THEOREM StatusMovesAlwaysAllowed == Spec => StatusMovesAreAllowed
<1> DEFINE Move == \A o \in Opportunities :
                     Exists(o) /\ opportunities'[o].status # opportunities[o].status =>
                       opportunities'[o].status \in AllowedStatusTransitions[opportunities[o].status]
<1>1. TypeOK /\ [Next]_vars => Move
  <2> SUFFICES ASSUME TypeOK, [Next]_vars, NEW o \in Opportunities, Exists(o),
                      opportunities'[o].status # opportunities[o].status
               PROVE  opportunities'[o].status \in AllowedStatusTransitions[opportunities[o].status]
    OBVIOUS
  <2>1. opportunities[o].status \in Statuses
    BY DEF TypeOK, OpportunityType, Exists
  <2>2. CASE opportunities[o].status \in {"NEW", "CONTACTING"} /\ opportunities'[o].status = "ENGAGED"
    BY <2>2 DEF AllowedStatusTransitions
  <2>3. CASE opportunities[o].status \in Bookable /\ opportunities'[o].status = "BOOKED"
    BY <2>3 DEF AllowedStatusTransitions, Bookable
  <2>4. CASE opportunities[o].status \notin Closed /\ opportunities'[o].status = "DO_NOT_CONTACT"
    BY <2>1, <2>4 DEF AllowedStatusTransitions, Closed, Statuses
  <2> QED
    BY <2>2, <2>3, <2>4, StatusChanges
<1>2. StatusMovesAreAllowed <=> [][Move]_vars
  BY DEF StatusMovesAreAllowed
<1> QED
  BY <1>1, <1>2, TypeCorrect, PTL DEF Spec
-----------------------------------------------------------------------------
(* Recovery actions *)

\* The request r recorded its decision in the row a, and perhaps approved it.
DecidedIn(a, r, recent, window, approved) ==
  LET ob == Observation(reads[r], recent, window)
  IN  /\ actions[a].status = Absent
      /\ Pending(r, "EVALUATION")
      /\ approved => RecoveryActionStatus(ob) = "WAITING_APPROVAL"
      /\ actions'[a] = DecidedAction(reads[r].opportunity, ob, approved)

\* All that a step may do to one action.
ActionMove(a) ==
  \/ actions'[a] = actions[a]
  \/ actions[a].status \in LiveStatuses /\ actions'[a] = WithStatus(actions[a], "CANCELLED")
  \/ actions[a].status = "WAITING_CUSTOMER" /\ actions'[a] = WithStatus(actions[a], "COMPLETED")
  \/ actions[a].status = "WAITING_APPROVAL" /\ ~Expired(a) /\ actions'[a] = Approved(actions[a])
  \/ \E r \in Requests : \E recent, window, approved \in BOOLEAN :
       DecidedIn(a, r, recent, window, approved)

LEMMA EvaluateMoves ==
  ASSUME TypeOK, NEW r \in Requests, NEW new \in Actions, NEW recent \in BOOLEAN,
         NEW window \in BOOLEAN, NEW ownerApproves \in BOOLEAN,
         Evaluate(r, new, recent, window, ownerApproves), NEW a \in Actions
  PROVE  ActionMove(a)
<1> DEFINE o        == reads[r].opportunity
           ob       == Observation(reads[r], recent, window)
           approved == ownerApproves /\ RecoveryActionStatus(ob) = "WAITING_APPROVAL"
<1>1. PICK retired \in Retirable(o) :
        actions' = [ActionsCancelled(retired) EXCEPT ![new] = DecidedAction(o, ob, approved)]
  BY DEF Evaluate
<1>2. actions[new].status = Absent /\ Pending(r, "EVALUATION")
  BY DEF Evaluate
<1>3. approved \in BOOLEAN
  OBVIOUS
<1>4. \A b \in retired : b \in Actions => actions[b].status \in LiveStatuses
  BY DEF Retirable, LiveActionsOf
<1>5. CASE a = new
  <2>1. actions'[a] = DecidedAction(o, ob, approved)
    BY <1>1, <1>5 DEF ActionsCancelled
  <2>2. DecidedIn(a, r, recent, window, approved)
    BY <1>2, <1>5, <2>1 DEF DecidedIn
  <2> HIDE DEF approved
  <2> QED
    BY <1>3, <2>2 DEF ActionMove
<1>6. CASE a # new
  <2>1. actions'[a] = IF a \in retired THEN WithStatus(actions[a], "CANCELLED") ELSE actions[a]
    BY <1>1, <1>6 DEF ActionsCancelled
  <2> QED
    BY <1>4, <2>1 DEF ActionMove
<1> QED
  BY <1>5, <1>6

LEMMA ActionMoves ==
  ASSUME TypeOK, [Next]_vars, NEW a \in Actions
  PROVE  ActionMove(a)
<1>1. ASSUME NEW S, S \cap Actions \subseteq {b \in Actions : actions[b].status \in LiveStatuses},
             actions' = ActionsCancelled(S)
      PROVE  ActionMove(a)
  BY <1>1 DEF ActionsCancelled, ActionMove
<1>2. ASSUME NEW r \in Requests, NEW new \in Actions, NEW recent \in BOOLEAN,
             NEW window \in BOOLEAN, NEW ownerApproves \in BOOLEAN,
             Evaluate(r, new, recent, window, ownerApproves)
      PROVE  ActionMove(a)
  BY <1>2, EvaluateMoves
<1>3. ASSUME NEW b \in Actions, ApproveRecoveryAction(b) PROVE ActionMove(a)
  <2>1. /\ actions[b].status = "WAITING_APPROVAL" /\ ~Expired(b)
        /\ actions' = [actions EXCEPT ![b] = Approved(actions[b])]
    BY <1>3 DEF ApproveRecoveryAction
  <2> QED
    BY <2>1 DEF TypeOK, ActionMove
<1>4. ASSUME NEW c \in Customers, RecordCustomerOptOut(c) PROVE ActionMove(a)
  <2>1. actions' = ActionsCancelled({b \in Actions : \E o \in StoppedByOptOut(c) : b \in LiveActionsOf(o)})
    BY <1>4 DEF RecordCustomerOptOut
  <2> QED
    BY <1>1, <2>1 DEF LiveActionsOf
<1>5. ASSUME NEW o \in Opportunities, RecordCustomerResponse(o) PROVE ActionMove(a)
  <2>1. \/ actions'[a] = actions[a]
        \/ actions[a].status \in PreparedStatuses /\ actions'[a] = RetiredByReply(actions[a])
    BY <1>5 DEF RecordCustomerResponse
  <2>2. RetiredByReply(actions[a]) =
          WithStatus(actions[a], IF actions[a].status = "WAITING_CUSTOMER" THEN "COMPLETED" ELSE "CANCELLED")
    BY DEF RetiredByReply, WithStatus
  <2> QED
    BY <2>1, <2>2 DEF ActionMove, PreparedStatuses
<1>6. ASSUME NEW o \in Opportunities, StartHumanTakeover(o) PROVE ActionMove(a)
  <2>1. actions' = ActionsCancelled({b \in ActionsOf(o) : actions[b].status \in PreparedStatuses})
    BY <1>6 DEF StartHumanTakeover
  <2> QED
    BY <1>1, <2>1 DEF PreparedStatuses
<1>7. ASSUME NEW o \in Opportunities, ResumeAssistant(o) PROVE ActionMove(a)
  <2>1. actions' = ActionsCancelled({b \in ActionsOf(o) : actions[b].status = "HUMAN_REQUIRED"})
    BY <1>7 DEF ResumeAssistant
  <2> QED
    BY <1>1, <2>1 DEF LiveStatuses
<1>8. CASE UNCHANGED actions
  BY <1>8 DEF ActionMove
<1>9. CASE \/ \E o \in Opportunities, p \in Profiles : CreateOpportunity(o, p)
           \/ \E o \in Opportunities : CreateBooking(o)
           \/ \E r \in Requests, j \in Jobs : CreateFollowUp(r, j) \/ PrepareReactivation(r, j)
           \/ \E r \in Requests, claimed \in ClientAttributions \cup {None} :
                AppendRevenueEntry(r, claimed)
           \/ \E j \in Jobs : \/ CancelFollowUp(j)
                             \/ ClaimFollowUp(j)
                             \/ \E result \in {"sent", "failed"} : FinishFollowUp(j, result)
  BY <1>8, <1>9 DEF CreateOpportunity, CreateBooking, CreateFollowUp, PrepareReactivation,
                    AppendRevenueEntry, CancelFollowUp, ClaimFollowUp, FinishFollowUp
<1> QED
  BY <1>2, <1>3, <1>4, <1>5, <1>6, <1>7, <1>8, <1>9, WritingSteps

-----------------------------------------------------------------------------
(* Retired work *)

LEMMA RetiredActionKept ==
  ASSUME TypeOK, [Next]_vars, NEW a \in Actions,
         actions[a].status \in {"CANCELLED", "SUPPRESSED", "COMPLETED"}
  PROVE  actions'[a] = actions[a]
  BY ActionMoves DEF ActionMove, DecidedIn, LiveStatuses, Absent

LEMMA SettledJobKept ==
  ASSUME TypeOK, [Next]_vars, NEW j \in Jobs, jobs[j].status \in {"completed", "cancelled"}
  PROVE  jobs'[j].status = jobs[j].status
<1>1. ASSUME NEW S, jobs' = JobsCancelled(S) PROVE jobs'[j].status = jobs[j].status
  BY <1>1 DEF JobsCancelled, OpenJobStatuses
<1>2. ASSUME NEW i \in Jobs, NEW row, jobs' = [jobs EXCEPT ![i] = row],
             i # j \/ row.status = jobs[j].status
      PROVE  jobs'[j].status = jobs[j].status
  BY <1>2 DEF TypeOK
<1>3. ASSUME NEW r \in Requests, NEW i \in Jobs,
             CreateFollowUp(r, i) \/ PrepareReactivation(r, i)
      PROVE  jobs'[j].status = jobs[j].status
  BY <1>2, <1>3 DEF CreateFollowUp, PrepareReactivation, Absent
<1>4. ASSUME NEW i \in Jobs, CancelFollowUp(i) PROVE jobs'[j].status = jobs[j].status
  <2>1. /\ jobs[i].status # "completed" /\ jobs[i] \in JobType
        /\ jobs' = [jobs EXCEPT ![i] = WithStatus(jobs[i], "cancelled")]
    BY <1>4 DEF CancelFollowUp, TypeOK
  <2>2. WithStatus(jobs[i], "cancelled").status = "cancelled"
    BY <2>1, JobStatusRow DEF JobStatuses
  <2> QED
    BY <1>2, <2>1, <2>2
<1>5. ASSUME NEW i \in Jobs, NEW result, ClaimFollowUp(i) \/ FinishFollowUp(i, result)
      PROVE  jobs'[j].status = jobs[j].status
  BY <1>2, <1>5 DEF ClaimFollowUp, FinishFollowUp, Finishable, OpenJobStatuses
<1>6. ASSUME NEW o \in Opportunities, RecordCustomerResponse(o) \/ StartHumanTakeover(o)
      PROVE  jobs'[j].status = jobs[j].status
  BY <1>1, <1>6 DEF RecordCustomerResponse, StartHumanTakeover
<1>7. ASSUME NEW c \in Customers, RecordCustomerOptOut(c) PROVE jobs'[j].status = jobs[j].status
  BY <1>1, <1>7 DEF RecordCustomerOptOut
<1>8. CASE UNCHANGED jobs
  BY <1>8
<1>9. CASE \/ \E o \in Opportunities, p \in Profiles : CreateOpportunity(o, p)
           \/ \E o \in Opportunities : ResumeAssistant(o) \/ CreateBooking(o)
           \/ \E a \in Actions : ApproveRecoveryAction(a)
           \/ \E r \in Requests, claimed \in ClientAttributions \cup {None} :
                AppendRevenueEntry(r, claimed)
  BY <1>8, <1>9 DEF CreateOpportunity, ResumeAssistant, CreateBooking, ApproveRecoveryAction,
                    AppendRevenueEntry
<1>10. CASE \E r \in Requests, new \in Actions, recent, window, ownerApproves \in BOOLEAN :
              Evaluate(r, new, recent, window, ownerApproves)
  BY <1>8, <1>10 DEF Evaluate
<1> QED
  BY <1>3, <1>4, <1>5, <1>6, <1>7, <1>8, <1>9, <1>10, WritingSteps

\* Retired actions and settled follow-ups are final, whatever is resumed,
\* approved, evaluated or reported late.
THEOREM RetiredWorkIsFinal == Spec => RetiredWorkStaysRetired
<1> DEFINE Kept == /\ \A a \in Actions : actions[a].status \in {"CANCELLED", "SUPPRESSED", "COMPLETED"} =>
                        actions'[a] = actions[a]
                   /\ \A j \in Jobs : jobs[j].status \in {"completed", "cancelled"} =>
                        jobs'[j].status = jobs[j].status
<1>1. TypeOK /\ [Next]_vars => Kept
  BY RetiredActionKept, SettledJobKept
<1>2. RetiredWorkStaysRetired <=> [][Kept]_vars
  BY DEF RetiredWorkStaysRetired
<1> QED
  BY <1>1, <1>2, TypeCorrect, PTL DEF Spec

-----------------------------------------------------------------------------
(* Approvals *)

\* What an approval relies on beside Sound: what waits for it expires one day.
ValiditySound == \A a \in Actions : actions[a].status = "WAITING_APPROVAL" => actions[a].validUntil # 0

LEMMA WaitingDecision ==
  ASSUME NEW ob, RecoveryActionStatus(ob) = "WAITING_APPROVAL"
  PROVE  Eligible(ob) /\ ValidUntil(ob) = now + DayLength
<1>1. Eligible(ob) /\ NextActionKind(ob) # "REQUEST_HUMAN"
  BY DEF RecoveryActionStatus
<1>2. NextActionKind(ob) # "STOP_RECOVERY"
  <2>1. SuppressionReason(ob) # "HUMAN_TAKEOVER_ACTIVE"
    BY <1>1 DEF Eligible, None
  <2> QED
    BY <1>1, <2>1 DEF NextActionKind
<1> QED
  BY <1>1, <1>2 DEF ValidUntil

LEMMA DecidedValidity ==
  ASSUME NEW o \in Opportunities, NEW ob, NEW approved \in BOOLEAN
  PROVE  /\ DecidedAction(o, ob, approved).validUntil = ValidUntil(ob)
         /\ DecidedAction(o, ob, approved).opportunity = o
         /\ DecidedAction(o, ob, approved).approved = approved
         /\ DecidedAction(o, ob, approved).status =
              IF approved THEN "READY" ELSE RecoveryActionStatus(ob)
  BY DEF DecidedAction

LEMMA ValidityStep == ValiditySound /\ TypeOK /\ [Next]_vars => ValiditySound'
<1> SUFFICES ASSUME ValiditySound, TypeOK, [Next]_vars, NEW a \in Actions,
                    actions'[a].status = "WAITING_APPROVAL"
             PROVE  actions'[a].validUntil # 0
  BY DEF ValiditySound
<1>t. actions[a] \in ActionType /\ now \in Nat \ {0}
  BY DEF TypeOK
<1>1. CASE actions'[a] = actions[a]
  BY <1>1 DEF ValiditySound
<1>2. CASE \/ actions'[a] = WithStatus(actions[a], "CANCELLED")
           \/ actions'[a] = WithStatus(actions[a], "COMPLETED")
           \/ actions'[a] = Approved(actions[a])
  BY <1>2, <1>t DEF WithStatus, Approved, ActionType
<1>3. ASSUME NEW r \in Requests, NEW recent \in BOOLEAN, NEW window \in BOOLEAN,
             NEW approved \in BOOLEAN, DecidedIn(a, r, recent, window, approved)
      PROVE  actions'[a].validUntil # 0
  <2> DEFINE ob == Observation(reads[r], recent, window)
             o  == reads[r].opportunity
  <2>1. actions'[a] = DecidedAction(o, ob, approved) /\ o \in Opportunities
    BY <1>3, ReadingTypes DEF DecidedIn
  <2> HIDE DEF ob, o
  <2>2. RecoveryActionStatus(ob) = "WAITING_APPROVAL" /\ actions'[a].validUntil = ValidUntil(ob)
    BY <2>1, DecidedValidity
  <2>3. ValidUntil(ob) = now + DayLength
    BY <2>2, WaitingDecision
  <2> QED
    BY <2>2, <2>3, <1>t, RecoveryAssumptions
<1> QED
  BY <1>1, <1>2, <1>3, ActionMoves DEF ActionMove

\* A step that approves an action finds it valid and its opportunity open.
LEMMA TimelyStep ==
  ASSUME TypeOK, Sound, ValiditySound, [Next]_vars, NEW a \in Actions,
         ~actions[a].approved, actions'[a].approved
  PROVE  /\ actions'[a].validUntil > now
         /\ opportunities[actions'[a].opportunity].mode = "AI_ACTIVE"
         /\ opportunities[actions'[a].opportunity].status \notin Closed
<1> DEFINE Goal == /\ actions'[a].validUntil > now
                   /\ opportunities[actions'[a].opportunity].mode = "AI_ACTIVE"
                   /\ opportunities[actions'[a].opportunity].status \notin Closed
<1>t. /\ actions[a] \in ActionType /\ now \in Nat \ {0}
      /\ \A o \in Opportunities : opportunities[o].mode \in Modes
  BY DEF TypeOK, OpportunityType
<1>1. CASE \/ actions'[a] = actions[a]
           \/ actions'[a] = WithStatus(actions[a], "CANCELLED")
           \/ actions'[a] = WithStatus(actions[a], "COMPLETED")
  BY <1>1, <1>t DEF WithStatus, ActionType
<1>2. CASE actions[a].status = "WAITING_APPROVAL" /\ ~Expired(a) /\ actions'[a] = Approved(actions[a])
  <2>1. /\ actions'[a].validUntil = actions[a].validUntil
        /\ actions'[a].opportunity = actions[a].opportunity
        /\ actions[a].opportunity \in Opportunities /\ actions[a].validUntil \in Nat
    BY <1>2, <1>t DEF Approved, ActionType
  <2>2. actions[a].validUntil > now
    BY <1>2, <1>t, <2>1 DEF Expired, ValiditySound
  <2>3. OpportunityOf(a).status \notin Closed /\ OpportunityOf(a).mode # "HUMAN_ACTIVE"
    BY <1>2 DEF Sound, LiveSound, LiveStatuses
  <2> QED
    BY <1>t, <2>1, <2>2, <2>3 DEF OpportunityOf, Modes
\* The copilot approves what the evaluation has just decided: from a reading
\* that may be out of date, but not for an opportunity taken over since.
<1>3. ASSUME NEW r \in Requests, NEW recent \in BOOLEAN, NEW window \in BOOLEAN,
             NEW approved \in BOOLEAN, DecidedIn(a, r, recent, window, approved)
      PROVE  Goal
  <2> DEFINE ob == Observation(reads[r], recent, window)
             o  == reads[r].opportunity
             op == opportunities[o]
  <2>1. /\ actions'[a] = DecidedAction(o, ob, approved)
        /\ approved => RecoveryActionStatus(ob) = "WAITING_APPROVAL"
        /\ reads[r] \in EvaluationReading /\ o \in Opportunities
        /\ ReadingCovered(reads[r])
    BY <1>3, ReadingTypes DEF DecidedIn, Sound, ReadingSound
  <2>2. /\ ob.status = op.status /\ ob.recovery = op.recovery /\ ob.rejected = op.rejected
        /\ ob.optedOut = reads[r].consent.optedOut
        /\ ob.operational = reads[r].consent.operational
        /\ ob.handoff = (reads[r].mode = "HUMAN_ACTIVE")
    BY <2>1, ObservationReads
  <2> HIDE DEF ob, o
  <2>3. /\ actions'[a].validUntil = ValidUntil(ob) /\ actions'[a].opportunity = o
        /\ RecoveryActionStatus(ob) = "WAITING_APPROVAL"
    BY <2>1, DecidedValidity
  <2>4. ValidUntil(ob) = now + DayLength
    BY <2>3, WaitingDecision
  <2>5. /\ ~ob.optedOut /\ ob.operational /\ ~HumanInvolved(ob) /\ ~HasRejection(ob)
        /\ ob.status \notin Closed \cup {"BOOKED"}
    BY <2>3, WaitingDecision, EligibleIsOpen, RejectedIsNotEligible
  <2>6. actions'[a].validUntil > now
    BY <2>3, <2>4, <1>t, RecoveryAssumptions
  <2>7. /\ Contactable(reads[r].consent) /\ reads[r].mode = "AI_ACTIVE"
        /\ ~Covered(op)
    BY <2>1, <2>2, <2>5 DEF Contactable, HumanInvolved, HasRejection, EvaluationReading, Modes, Covered
  <2>8. op.mode # "HUMAN_ACTIVE"
    BY <2>1, <2>7 DEF ReadingCovered, o
  <2> QED
    BY <1>t, <2>1, <2>2, <2>3, <2>5, <2>6, <2>8 DEF Modes
<1> QED
  BY <1>1, <1>2, <1>3, ActionMoves DEF ActionMove

\* Nobody approves an action that has expired, or one for an opportunity that
\* was taken over or closed meanwhile: no late click of the owner, and no
\* copilot whose evaluation had read the conversation before the takeover.
THEOREM ApprovalsAreAlwaysTimely == Spec => ApprovalsAreTimely
<1> DEFINE Timely ==
      \A a \in Actions :
        ~actions[a].approved /\ actions'[a].approved =>
          /\ actions'[a].validUntil > now
          /\ opportunities[actions'[a].opportunity].mode = "AI_ACTIVE"
          /\ opportunities[actions'[a].opportunity].status \notin Closed
    Inv == TypeOK /\ Sound /\ ValiditySound
<1>1. Init => Inv
  <2> SUFFICES ASSUME Init PROVE ValiditySound
    BY InitType, InitSound
  <2> QED
    BY DEF Init, ValiditySound, NoAction, Absent
<1>2. Inv /\ [Next]_vars => Inv'
  BY NextType, NextSound, ValidityStep
<1>3. Inv /\ [Next]_vars => Timely
  BY TimelyStep
<1>4. ApprovalsAreTimely <=> [][Timely]_vars
  BY DEF ApprovalsAreTimely
<1> QED
  BY <1>1, <1>2, <1>3, <1>4, PTL DEF Spec

-----------------------------------------------------------------------------
(* Follow-ups *)

\* A follow-up row and what the table sees of it.
LEMMA TableRow ==
  ASSUME NEW j \in Jobs
  PROVE  TableRows[j].status = jobs[j].status /\ TableRows[j].attempts = jobs[j].attempts
  BY DEF TableRows

LEMMA StepKeepsPromises == TypeOK /\ [Next]_vars => [Table!Next]_TableRows
<1> SUFFICES ASSUME TypeOK, [Next]_vars PROVE [Table!Next]_TableRows
  OBVIOUS
<1>t. \A j \in Jobs : jobs[j] \in JobType
  BY DEF TypeOK
\* Rows left alone.
<1>s. ASSUME UNCHANGED jobs PROVE [Table!Next]_TableRows
  BY <1>s DEF TableRows
\* One row written.
<1>w. ASSUME NEW j \in Jobs, \A i \in Jobs : i # j => jobs'[i] = jobs[i]
      PROVE  TableRows' = [TableRows EXCEPT ![j] = [status |-> jobs'[j].status,
                                                    attempts |-> jobs'[j].attempts]]
  BY <1>w DEF TableRows
\* Rows cancelled.
<1>c. ASSUME NEW S \in SUBSET Jobs,
             \A j \in S : jobs[j].status \notin {"ABSENT", "completed"},
             jobs' = [j \in Jobs |-> IF j \in S THEN WithStatus(jobs[j], "cancelled") ELSE jobs[j]]
      PROVE  [Table!Next]_TableRows
  <2>1. \A j \in Jobs : /\ j \in S => jobs'[j].status = "cancelled" /\ jobs'[j].attempts = jobs[j].attempts
                        /\ j \notin S => jobs'[j] = jobs[j]
    BY <1>c, <1>t DEF WithStatus, JobType
  <2>2. TableRows' = [j \in Jobs |-> IF j \in S THEN [TableRows[j] EXCEPT !.status = "cancelled"]
                                     ELSE TableRows[j]]
    BY <2>1 DEF TableRows
  <2>3. Table!Cancel(S)
    BY <1>c, <2>2, TableRow DEF Table!Cancel
  <2> QED
    BY <2>3 DEF Table!Next
<1>b. ASSUME NEW S, jobs' = JobsCancelled(S) PROVE [Table!Next]_TableRows
  <2> DEFINE C == {j \in Jobs : j \in S /\ jobs[j].status \in OpenJobStatuses}
  <2>1. jobs' = [j \in Jobs |-> IF j \in C THEN WithStatus(jobs[j], "cancelled") ELSE jobs[j]]
    BY <1>b DEF JobsCancelled
  <2>2. C \in SUBSET Jobs /\ \A j \in C : jobs[j].status \notin {"ABSENT", "completed"}
    BY DEF OpenJobStatuses
  <2> HIDE DEF C
  <2> QED
    BY <1>c, <2>1, <2>2
<1>1. ASSUME NEW r \in Requests, NEW j \in Jobs,
             CreateFollowUp(r, j) \/ PrepareReactivation(r, j)
      PROVE  [Table!Next]_TableRows
  <2>1. /\ jobs[j].status = "ABSENT"
        /\ jobs' = [jobs EXCEPT ![j] = ScheduledJob(reads[r].opportunity)]
    BY <1>1 DEF CreateFollowUp, PrepareReactivation, Absent
  <2>2. /\ jobs'[j].status = "scheduled" /\ jobs'[j].attempts = 0
        /\ \A i \in Jobs : i # j => jobs'[i] = jobs[i]
    BY <2>1 DEF ScheduledJob, TypeOK
  <2>3. TableRows' = [TableRows EXCEPT ![j] = Table!Created]
    BY <1>w, <2>2 DEF Table!Created
  <2>4. Table!Schedule(j)
    BY <2>1, <2>3, TableRow DEF Table!Schedule
  <2> QED
    BY <2>4 DEF Table!Next
<1>2. ASSUME NEW j \in Jobs, CancelFollowUp(j) PROVE [Table!Next]_TableRows
  <2>1. /\ jobs[j].status \notin {"ABSENT", "completed"}
        /\ jobs' = [i \in Jobs |-> IF i \in {j} THEN WithStatus(jobs[i], "cancelled") ELSE jobs[i]]
    BY <1>2 DEF CancelFollowUp, Absent, TypeOK
  <2> QED
    BY <1>c, <2>1
<1>3. ASSUME NEW j \in Jobs, ClaimFollowUp(j) PROVE [Table!Next]_TableRows
  <2>1. /\ jobs[j].status \in Table!Open /\ jobs[j].attempts < MaxAttempts
        /\ jobs' = [jobs EXCEPT ![j] = WithStatus(jobs[j], "leased")]
    BY <1>3 DEF ClaimFollowUp, OpenJobStatuses, Table!Open
  <2>2. WithStatus(jobs[j], "leased").status = "leased" /\ WithStatus(jobs[j], "leased").attempts = jobs[j].attempts
    BY <1>t, JobStatusRow DEF JobStatuses
  <2>3. /\ jobs'[j].status = "leased" /\ jobs'[j].attempts = jobs[j].attempts
        /\ \A i \in Jobs : i # j => jobs'[i] = jobs[i]
    BY <2>1, <2>2 DEF TypeOK
  <2>4. TableRows' = [TableRows EXCEPT ![j].status = "leased"]
    BY <1>w, <2>3 DEF TableRows
  <2>5. Table!Claim(j)
    BY <2>1, <2>4, TableRow DEF Table!Claim, Table!MayBeTried
  <2> QED
    BY <2>5 DEF Table!Next
<1>4. ASSUME NEW j \in Jobs, NEW result \in {"sent", "failed"}, FinishFollowUp(j, result)
      PROVE  [Table!Next]_TableRows
  <2>1. jobs[j].status = "leased" /\ jobs' = [jobs EXCEPT ![j] = Attempted(jobs[j], result)]
    BY <1>4 DEF FinishFollowUp, Finishable
  <2>2. /\ Attempted(jobs[j], result).status = IF result = "sent" THEN "completed" ELSE "failed"
        /\ Attempted(jobs[j], result).attempts = jobs[j].attempts + 1
    BY <1>t DEF Attempted, StatusAfterAttempt, JobType
  <2>3. /\ jobs'[j].status = IF result = "sent" THEN "completed" ELSE "failed"
        /\ jobs'[j].attempts = jobs[j].attempts + 1
        /\ \A i \in Jobs : i # j => jobs'[i] = jobs[i]
    BY <2>1, <2>2 DEF TypeOK
  <2>4. TableRows' = [TableRows EXCEPT
          ![j] = [status   |-> IF result = "sent" THEN "completed" ELSE "failed",
                  attempts |-> TableRows[j].attempts + 1]]
    BY <1>w, <2>3, TableRow
  <2>5. Table!Record(j, result)
    BY <2>1, <2>4, TableRow DEF Table!Record, Table!TakesResult
  <2> QED
    BY <2>5 DEF Table!Next
<1>5. ASSUME NEW o \in Opportunities, RecordCustomerResponse(o) \/ StartHumanTakeover(o)
      PROVE  [Table!Next]_TableRows
  BY <1>5, <1>b DEF RecordCustomerResponse, StartHumanTakeover
<1>6. ASSUME NEW c \in Customers, RecordCustomerOptOut(c) PROVE [Table!Next]_TableRows
  BY <1>6, <1>b DEF RecordCustomerOptOut
<1>7. CASE UNCHANGED jobs
  BY <1>7, <1>s
<1>8. CASE \/ \E o \in Opportunities, p \in Profiles : CreateOpportunity(o, p)
           \/ \E o \in Opportunities : ResumeAssistant(o) \/ CreateBooking(o)
           \/ \E a \in Actions : ApproveRecoveryAction(a)
           \/ \E r \in Requests, claimed \in ClientAttributions \cup {None} :
                AppendRevenueEntry(r, claimed)
  BY <1>7, <1>8 DEF CreateOpportunity, ResumeAssistant, CreateBooking, ApproveRecoveryAction,
                    AppendRevenueEntry
<1>9. CASE \E r \in Requests, new \in Actions, recent, window, ownerApproves \in BOOLEAN :
             Evaluate(r, new, recent, window, ownerApproves)
  BY <1>7, <1>9 DEF Evaluate
<1> QED
  BY <1>1, <1>2, <1>3, <1>4, <1>5, <1>6, <1>7, <1>8, <1>9, WritingSteps

\* The life cycle, too, moves follow-ups as FollowUpJobs says: together with
\* WorkerImplementsTable, the two modules agree on what the rows of
\* follow_up_jobs may do, each with what the other one leaves out.
THEOREM LifeCycleImplementsTable == Spec => KeepsTablePromises
<1>1. Init => Table!Init
  <2> SUFFICES ASSUME Init PROVE Table!Init
    OBVIOUS
  <2>1. \A j \in Jobs : jobs[j].status = "ABSENT" /\ jobs[j].attempts = 0
    BY DEF Init, NoJob, Absent
  <2>2. TableRows = [j \in Jobs |-> Table!NotCreated]
    BY <2>1 DEF TableRows, Table!NotCreated
  <2> QED
    BY <2>2 DEF Table!Init
<1> QED
  BY <1>1, StepKeepsPromises, TypeCorrect, PTL DEF Spec, KeepsTablePromises, Table!Spec

-----------------------------------------------------------------------------
(* Stray follow-ups *)

\* Where no takeover and no opt-out happens, and a follow-up is not opened, it
\* does not become stray.
LEMMA StrayBefore ==
  ASSUME TypeOK, NEW j \in Jobs, UNCHANGED customers,
         \A o \in Opportunities :
           opportunities'[o].mode = "HUMAN_ACTIVE" => opportunities[o].mode = "HUMAN_ACTIVE",
         jobs'[j].opportunity = jobs[j].opportunity,
         jobs'[j].status \notin SettledJobStatuses \cup {Absent} =>
           jobs[j].status \notin SettledJobStatuses \cup {Absent},
         Stray(j)'
  PROVE  Stray(j)
<1>1. jobs[j].opportunity \in Opportunities
  BY DEF TypeOK, JobType
<1> QED
  BY <1>1 DEF Stray, UnderHandoff, OptedOut

LEMMA StrayStep ==
  ASSUME TypeOK, [Next]_vars, NEW j \in Jobs, ~Stray(j), Stray(j)'
  PROVE  /\ jobs[j].status = Absent
         /\ \E r \in Requests :
              /\ Pending(r, "FOLLOW_UP") \/ Pending(r, "REACTIVATION")
              /\ reads[r].opportunity = jobs'[j].opportunity
              /\ reads'[r] = Idle
<1> DEFINE Goal == /\ jobs[j].status = Absent
                   /\ \E r \in Requests :
                        /\ Pending(r, "FOLLOW_UP") \/ Pending(r, "REACTIVATION")
                        /\ reads[r].opportunity = jobs'[j].opportunity
                        /\ reads'[r] = Idle
<1>t. /\ \A x \in Opportunities : opportunities[x] \in OpportunityType
      /\ \A i \in Jobs : jobs[i] \in JobType
      /\ opportunities \in [Opportunities -> OpportunityType]
      /\ jobs \in [Jobs -> JobType]
  BY DEF TypeOK
<1>s. Stray(j)' => jobs'[j].status \notin SettledJobStatuses \cup {Absent}
  BY DEF Stray
\* Every bulk update leaves a follow-up or settles it.
<1>c. ASSUME NEW S, jobs' = JobsCancelled(S)
      PROVE  jobs'[j] = jobs[j] /\ (j \in S => jobs[j].status \notin OpenJobStatuses)
  <2>1. jobs'[j].status # "cancelled"
    BY <1>s DEF SettledJobStatuses
  <2> QED
    BY <1>c, <2>1, JobStatusRow, <1>t DEF JobsCancelled, JobStatuses
<1>1. ASSUME NEW o \in Opportunities, NEW p \in Profiles, CreateOpportunity(o, p) PROVE Goal
  <2>1. NewOpportunity(p).mode = "AI_ACTIVE"
    BY RecoveryAssumptions, NewOpportunityRow
  <2>2. /\ UNCHANGED <<customers, jobs>>
        /\ opportunities' = [opportunities EXCEPT ![o] = NewOpportunity(p)]
    BY <1>1 DEF CreateOpportunity
  <2> QED
    BY <1>t, <2>1, <2>2, StrayBefore
<1>2. ASSUME NEW o \in Opportunities, RecordCustomerResponse(o) PROVE Goal
  <2>1. /\ UNCHANGED customers /\ jobs'[j] = jobs[j]
        /\ opportunities[o].status # Absent
        /\ opportunities' = [opportunities EXCEPT ![o] = Replied(opportunities[o])]
    BY <1>2, <1>c DEF RecordCustomerResponse, Exists
  <2> QED
    BY <1>t, <2>1, RepliedRow, StrayBefore
\* A takeover and an opt-out settle what they find open.
<1>3. ASSUME NEW o \in Opportunities, StartHumanTakeover(o) PROVE Goal
  <2>1. /\ UNCHANGED customers /\ jobs'[j] = jobs[j]
        /\ j \in JobsOf(o) => jobs[j].status \notin OpenJobStatuses
        /\ opportunities' = [opportunities EXCEPT ![o] = HandedOver(opportunities[o])]
    BY <1>3, <1>c DEF StartHumanTakeover
  <2>2. jobs[j].status \in OpenJobStatuses /\ jobs[j].status # Absent
    BY <1>s, <1>t, <2>1 DEF JobType, JobStatuses, OpenJobStatuses, SettledJobStatuses
  <2>3. jobs[j].opportunity # o /\ jobs[j].opportunity \in Opportunities
    BY <1>t, <2>1, <2>2 DEF JobsOf, JobType
  <2>4. opportunities'[jobs[j].opportunity] = opportunities[jobs[j].opportunity]
    BY <1>t, <2>1, <2>3
  <2> QED
    BY <2>1, <2>4 DEF Stray, UnderHandoff, OptedOut
<1>4. ASSUME NEW c \in Customers, RecordCustomerOptOut(c) PROVE Goal
  <2> DEFINE S == {i \in Jobs : \E o \in Opportunities : CustomerOf[o] = c /\ i \in JobsOf(o)}
  <2>1. /\ jobs'[j] = jobs[j] /\ (j \in S => jobs[j].status \notin OpenJobStatuses)
        /\ opportunities' = [o \in Opportunities |->
             IF o \in StoppedByOptOut(c) THEN Stopped(opportunities[o]) ELSE opportunities[o]]
        /\ \A d \in Customers : d # c => customers'[d] = customers[d]
    BY <1>4, <1>c DEF RecordCustomerOptOut, TypeOK
  <2>2. jobs[j].status \in OpenJobStatuses /\ jobs[j].status # Absent
    BY <1>s, <1>t, <2>1 DEF JobType, JobStatuses, OpenJobStatuses, SettledJobStatuses
  <2>3. jobs[j].opportunity \in Opportunities
    BY <1>t DEF JobType
  <2>4. CustomerOf[jobs[j].opportunity] # c /\ CustomerOf[jobs[j].opportunity] \in Customers
    BY <2>1, <2>2, <2>3, RecoveryAssumptions DEF JobsOf
  <2>5. opportunities'[jobs[j].opportunity] = opportunities[jobs[j].opportunity]
    BY <2>1, <2>3, <2>4 DEF StoppedByOptOut
  <2> QED
    BY <2>1, <2>4, <2>5 DEF Stray, UnderHandoff, OptedOut
<1>5. ASSUME NEW o \in Opportunities, ResumeAssistant(o) PROVE Goal
  <2>1. /\ UNCHANGED <<customers, jobs>>
        /\ opportunities' = [opportunities EXCEPT ![o] = Resumed(opportunities[o])]
    BY <1>5 DEF ResumeAssistant
  <2> QED
    BY <1>t, <2>1, ResumedRow, StrayBefore
<1>6. ASSUME NEW o \in Opportunities, CreateBooking(o) PROVE Goal
  <2>1. /\ UNCHANGED <<customers, jobs>>
        /\ opportunities' = [opportunities EXCEPT ![o] = Booked(opportunities[o], Attribution(o))]
        /\ Attribution(o) \in AttributionTypes
    BY <1>6 DEF CreateBooking, Attribution, AttributionTypes
  <2> QED
    BY <1>t, <2>1, BookedRow, StrayBefore
<1>7. ASSUME NEW r \in Requests, NEW new \in Actions, NEW recent \in BOOLEAN,
             NEW window \in BOOLEAN, NEW ownerApproves \in BOOLEAN,
             Evaluate(r, new, recent, window, ownerApproves)
      PROVE  Goal
  <2> DEFINE o == reads[r].opportunity
  <2>1. PICK v : /\ UNCHANGED <<customers, jobs>>
                 /\ opportunities' = [opportunities EXCEPT ![o] = Decided(opportunities[o], v)]
    BY <1>7 DEF Evaluate
  <2>2. o \in Opportunities
    BY <1>7, ReadingTypes DEF Evaluate
  <2>3. Decided(opportunities[o], v).mode = opportunities[o].mode
    BY <1>t, <2>2 DEF Decided, OpportunityType
  <2> HIDE DEF o
  <2> QED
    BY <1>t, <2>1, <2>3, StrayBefore
<1>8. ASSUME NEW a \in Actions, ApproveRecoveryAction(a) PROVE Goal
  <2> DEFINE o == actions[a].opportunity
  <2>1. /\ UNCHANGED <<customers, jobs>> /\ o \in Opportunities
        /\ opportunities' = [opportunities EXCEPT ![o] = Activated(opportunities[o])]
    BY <1>8 DEF ApproveRecoveryAction, TypeOK, ActionType
  <2> HIDE DEF o
  <2> QED
    BY <1>t, <2>1, ActivatedRow, StrayBefore
<1>9. ASSUME NEW r \in Requests, NEW claimed, AppendRevenueEntry(r, claimed) PROVE Goal
  <2>1. \A x \in Opportunities : opportunities'[x].mode = opportunities[x].mode
    BY <1>9, <1>t DEF AppendRevenueEntry, OpportunityType
  <2>2. UNCHANGED <<customers, jobs>>
    BY <1>9 DEF AppendRevenueEntry
  <2> QED
    BY <2>1, <2>2, StrayBefore
\* The exception: the insert of a request that had read before the stop.
<1>10. ASSUME NEW r \in Requests, NEW i \in Jobs,
              CreateFollowUp(r, i) \/ PrepareReactivation(r, i)
       PROVE  Goal
  <2> DEFINE o == reads[r].opportunity
  <2>1. /\ UNCHANGED customers /\ jobs[i].status = Absent /\ Ends(r)
        /\ Pending(r, "FOLLOW_UP") \/ Pending(r, "REACTIVATION")
        /\ jobs' = [jobs EXCEPT ![i] = ScheduledJob(o)]
        /\ \/ opportunities' = opportunities
           \/ opportunities' = [opportunities EXCEPT ![o] = Reactivated(opportunities[o])]
    BY <1>10 DEF CreateFollowUp, PrepareReactivation
  <2>2. o \in Opportunities
    BY <2>1, ReadingTypes
  <2>3. CASE i = j
    <3>1. jobs'[j].opportunity = o
      BY <1>t, <2>1, <2>3 DEF ScheduledJob
    <3> QED
      BY <2>1, <2>3, <3>1, EndsRows
  <2>4. CASE i # j
    <3>1. jobs'[j] = jobs[j]
      BY <1>t, <2>1, <2>4
    <3>2. \A x \in Opportunities : opportunities'[x].mode = opportunities[x].mode
      BY <1>t, <2>1, <2>2, ReactivatedRow
    <3> QED
      BY <2>1, <3>1, <3>2, StrayBefore
  <2> QED
    BY <2>3, <2>4
<1>11. ASSUME NEW i \in Jobs, NEW result,
              CancelFollowUp(i) \/ ClaimFollowUp(i) \/ FinishFollowUp(i, result)
       PROVE  Goal
  <2>1. /\ UNCHANGED <<customers, opportunities>>
        /\ \A x \in Jobs : x # i => jobs'[x] = jobs[x]
    BY <1>11 DEF CancelFollowUp, ClaimFollowUp, FinishFollowUp, TypeOK
  <2>2. jobs'[i].opportunity = jobs[i].opportunity
    BY <1>11, <1>t, JobStatusRow, AttemptedRow
       DEF CancelFollowUp, ClaimFollowUp, FinishFollowUp, JobStatuses
  <2>3. \/ jobs'[i].status \in SettledJobStatuses
        \/ jobs[i].status \notin SettledJobStatuses \cup {Absent}
    <3>1. CASE CancelFollowUp(i)
      BY <1>t, <3>1, JobStatusRow DEF CancelFollowUp, JobStatuses, SettledJobStatuses
    <3>2. CASE ClaimFollowUp(i)
      BY <3>2 DEF ClaimFollowUp, OpenJobStatuses, SettledJobStatuses, Absent
    <3>3. CASE FinishFollowUp(i, result)
      BY <3>3 DEF FinishFollowUp, Finishable, SettledJobStatuses, Absent
    <3> QED
      BY <1>11, <3>1, <3>2, <3>3
  <2>4. /\ jobs'[j].opportunity = jobs[j].opportunity
        /\ jobs'[j].status \notin SettledJobStatuses \cup {Absent} =>
             jobs[j].status \notin SettledJobStatuses \cup {Absent}
    BY <2>1, <2>2, <2>3
  <2> QED
    BY <2>1, <2>4, StrayBefore
<1>12. CASE UNCHANGED <<customers, opportunities, actions, jobs>>
  BY <1>12, StrayBefore
<1> QED
  BY <1>1, <1>2, <1>3, <1>4, <1>5, <1>6, <1>7, <1>8, <1>9, <1>10, <1>11, <1>12, WritingSteps

\* A takeover and an opt-out leave no follow-up open, and only a request that
\* had read before them opens one under them: for any number of requests,
\* workers and follow-ups.
THEOREM OnlyInFlightRequestsEverStray == Spec => OnlyRequestsInFlightStray
<1> DEFINE Step == \A j \in Jobs : ~Stray(j) /\ Stray(j)' =>
                     /\ jobs[j].status = Absent
                     /\ \E r \in Requests :
                          /\ Pending(r, "FOLLOW_UP") \/ Pending(r, "REACTIVATION")
                          /\ reads[r].opportunity = jobs'[j].opportunity
                          /\ reads'[r] = Idle
<1>1. TypeOK /\ [Next]_vars => Step
  BY StrayStep
<1>2. OnlyRequestsInFlightStray <=> [][Step]_vars
  BY DEF OnlyRequestsInFlightStray
<1> QED
  BY <1>1, <1>2, TypeCorrect, PTL DEF Spec

-----------------------------------------------------------------------------
(* Stranded opportunities *)

\* Where neither a handoff is closed nor a person asked for, nothing is stranded.
LEMMA StrandedBefore ==
  ASSUME NEW o \in Opportunities,
         opportunities'[o].openHandoff = opportunities[o].openHandoff,
         opportunities'[o].recovery = "HUMAN_REQUIRED" =>
           opportunities[o].recovery = "HUMAN_REQUIRED",
         \A a \in Actions : actions'[a].status = "HUMAN_REQUIRED" => actions'[a] = actions[a],
         Stranded(o)'
  PROVE  Stranded(o)
<1>1. ASSUME NEW a \in LiveActionsOf(o)', actions'[a].status = "HUMAN_REQUIRED"
      PROVE  a \in LiveActionsOf(o) /\ actions[a].status = "HUMAN_REQUIRED"
  BY <1>1 DEF LiveActionsOf, ActionsOf
<1> QED
  BY <1>1 DEF Stranded

LEMMA StrandStep ==
  ASSUME TypeOK, Sound, [Next]_vars, NEW o \in Opportunities, ~Stranded(o), Stranded(o)'
  PROVE  \E r \in Requests :
           /\ Pending(r, "EVALUATION") /\ reads[r].opportunity = o
           /\ reads[r].mode = "HUMAN_ACTIVE" /\ opportunities[o].mode = "AI_ACTIVE"
           /\ reads'[r] = Idle
<1> DEFINE Goal == \E r \in Requests :
                     /\ Pending(r, "EVALUATION") /\ reads[r].opportunity = o
                     /\ reads[r].mode = "HUMAN_ACTIVE" /\ opportunities[o].mode = "AI_ACTIVE"
                     /\ reads'[r] = Idle
           op == opportunities[o]
           NoneAskedFor == \A a \in Actions :
                             actions'[a].status = "HUMAN_REQUIRED" => actions'[a] = actions[a]
<1>t. /\ \A x \in Opportunities : opportunities[x] \in OpportunityType
      /\ \A a \in Actions : actions[a] \in ActionType
      /\ opportunities \in [Opportunities -> OpportunityType]
      /\ actions \in [Actions -> ActionType]
  BY DEF TypeOK
<1>p. OpportunitySound(o) /\ op.openHandoff \in BOOLEAN
  BY <1>t DEF Sound, OpportunityType
\* Operations that leave the handoff as it is and ask for nobody.
<1>k. ASSUME NoneAskedFor, NEW x \in Opportunities, NEW row,
             opportunities' = [opportunities EXCEPT ![x] = row],
             \/ x # o
             \/ /\ row.openHandoff = op.openHandoff
                /\ row.recovery = "HUMAN_REQUIRED" => op.recovery = "HUMAN_REQUIRED"
      PROVE  Goal
  BY <1>k, <1>t, StrandedBefore
<1>u. ASSUME UNCHANGED actions PROVE NoneAskedFor
  BY <1>u
<1>c. ASSUME NEW S, actions' = ActionsCancelled(S) PROVE NoneAskedFor
  BY <1>c, ActionsCancelledRows
<1>1. ASSUME NEW x \in Opportunities, NEW p \in Profiles, CreateOpportunity(x, p) PROVE Goal
  <2>1. /\ UNCHANGED actions /\ opportunities[x].status = Absent
        /\ opportunities' = [opportunities EXCEPT ![x] = NewOpportunity(p)]
    BY <1>1 DEF CreateOpportunity, Exists
  <2>2. CASE x = o
    <3>1. \A a \in Actions : actions[a].opportunity = o => actions[a].status = Absent
      BY <2>1, <2>2 DEF Sound, ActionSound, OpportunityOf
    <3>2. NewOpportunity(p).recovery = "AT_RISK"
      BY RecoveryAssumptions, NewOpportunityRow
    <3>3. opportunities'[o].recovery = "AT_RISK"
      BY <1>t, <2>1, <2>2, <3>2
    <3> QED
      BY <2>1, <3>1, <3>3 DEF Stranded, LiveActionsOf, ActionsOf
  <2>3. CASE x # o
    BY <1>k, <1>u, <2>1, <2>3
  <2> QED
    BY <2>2, <2>3
<1>2. ASSUME NEW x \in Opportunities, RecordCustomerResponse(x) PROVE Goal
  <2>1. /\ opportunities[x].status # Absent
        /\ opportunities' = [opportunities EXCEPT ![x] = Replied(opportunities[x])]
    BY <1>2 DEF RecordCustomerResponse, Exists
  <2>2. NoneAskedFor
    BY <1>2, <1>t, RetiredByReplyRow DEF RecordCustomerResponse
  <2>3. x = o => /\ Replied(op).openHandoff = op.openHandoff
                 /\ Replied(op).recovery = "HUMAN_REQUIRED" => op.recovery = "HUMAN_REQUIRED"
    BY <1>t, <2>1, RepliedRow
  <2> QED
    BY <1>k, <2>1, <2>2, <2>3
<1>3. ASSUME NEW x \in Opportunities, StartHumanTakeover(x) PROVE Goal
  <2>1. /\ actions' = ActionsCancelled({a \in ActionsOf(x) : actions[a].status \in PreparedStatuses})
        /\ opportunities' = [opportunities EXCEPT ![x] = HandedOver(opportunities[x])]
    BY <1>3 DEF StartHumanTakeover
  <2>2. CASE x = o
    <3>1. opportunities'[o].openHandoff = TRUE
      BY <1>t, <2>1, <2>2, HandedOverRow
    <3> QED
      BY <3>1 DEF Stranded
  <2>3. CASE x # o
    BY <1>k, <1>c, <2>1, <2>3
  <2> QED
    BY <2>2, <2>3
\* Resume AI closes the handoff, and with it what waits for a person.
<1>4. ASSUME NEW x \in Opportunities, ResumeAssistant(x) PROVE Goal
  <2> DEFINE S == {a \in ActionsOf(x) : actions[a].status = "HUMAN_REQUIRED"}
  <2>1. /\ actions' = ActionsCancelled(S)
        /\ opportunities' = [opportunities EXCEPT ![x] = Resumed(opportunities[x])]
    BY <1>4 DEF ResumeAssistant
  <2>2. CASE x = o
    <3>1. opportunities'[o].recovery = RecoveryAfterResume(op)
      BY <1>t, <2>1, <2>2, ResumedRow
    <3>2. RecoveryAfterResume(op) # "HUMAN_REQUIRED"
      BY <1>p DEF RecoveryAfterResume, OpportunitySound, RowAllowed, Closed
    <3>3. \A a \in Actions : actions'[a].opportunity = o =>
            actions'[a].status # "HUMAN_REQUIRED"
      <4>1. SUFFICES ASSUME NEW a \in Actions, actions'[a].opportunity = o,
                            actions'[a].status = "HUMAN_REQUIRED"
                     PROVE  FALSE
        OBVIOUS
      <4>2. actions'[a] = actions[a] /\ a \notin S
        BY <2>1, <4>1, ActionsCancelledRows
      <4> QED
        BY <2>2, <4>1, <4>2 DEF ActionsOf, Absent
    <3> QED
      BY <3>1, <3>2, <3>3 DEF Stranded, LiveActionsOf, ActionsOf
  <2>3. CASE x # o
    BY <1>k, <1>c, <2>1, <2>3
  <2> QED
    BY <2>2, <2>3
<1>5. ASSUME NEW x \in Opportunities, CreateBooking(x) PROVE Goal
  <2>1. /\ UNCHANGED actions /\ Attribution(x) \in AttributionTypes
        /\ opportunities' = [opportunities EXCEPT ![x] = Booked(opportunities[x], Attribution(x))]
    BY <1>5 DEF CreateBooking, Attribution, AttributionTypes
  <2>2. x = o => /\ Booked(op, Attribution(x)).openHandoff = op.openHandoff
                 /\ Booked(op, Attribution(x)).recovery # "HUMAN_REQUIRED"
    BY <1>t, <2>1, BookedRow
  <2> QED
    BY <1>k, <1>u, <2>1, <2>2
<1>6. ASSUME NEW a \in Actions, ApproveRecoveryAction(a) PROVE Goal
  <2> DEFINE x == actions[a].opportunity
  <2>1. /\ actions' = [actions EXCEPT ![a] = Approved(actions[a])]
        /\ opportunities' = [opportunities EXCEPT ![x] = Activated(opportunities[x])]
        /\ x \in Opportunities
    BY <1>6, <1>t DEF ApproveRecoveryAction, ActionType
  <2>2. NoneAskedFor
    BY <1>t, <2>1, ApprovedRow
  <2>3. x = o => /\ Activated(op).openHandoff = op.openHandoff
                 /\ Activated(op).recovery = "HUMAN_REQUIRED" => op.recovery = "HUMAN_REQUIRED"
    BY <1>t, ActivatedRow
  <2> HIDE DEF x
  <2> QED
    BY <1>k, <2>1, <2>2, <2>3
<1>7. ASSUME NEW c \in Customers, RecordCustomerOptOut(c) PROVE Goal
  <2>1. opportunities'[o] = IF o \in StoppedByOptOut(c) THEN Stopped(op) ELSE op
    BY <1>7 DEF RecordCustomerOptOut
  <2>2. NoneAskedFor
    BY <1>7, <1>c DEF RecordCustomerOptOut
  <2>3. /\ opportunities'[o].openHandoff = op.openHandoff
        /\ opportunities'[o].recovery = "HUMAN_REQUIRED" => op.recovery = "HUMAN_REQUIRED"
    BY <1>t, <2>1, StoppedRow
  <2> QED
    BY <2>2, <2>3, StrandedBefore
<1>8. ASSUME NEW r \in Requests, NEW claimed, AppendRevenueEntry(r, claimed) PROVE Goal
  <2>1. /\ opportunities'[o].openHandoff = op.openHandoff
        /\ opportunities'[o].recovery = op.recovery
        /\ UNCHANGED actions
    BY <1>8, <1>t DEF AppendRevenueEntry, OpportunityType
  <2> QED
    BY <2>1, StrandedBefore
<1>9. ASSUME NEW r \in Requests, NEW j \in Jobs,
             CreateFollowUp(r, j) \/ PrepareReactivation(r, j)
      PROVE  Goal
  <2> DEFINE x == reads[r].opportunity
  <2>1. /\ UNCHANGED actions /\ x \in Opportunities
        /\ \/ opportunities' = opportunities
           \/ opportunities' = [opportunities EXCEPT ![x] = Reactivated(opportunities[x])]
    BY <1>9, ReadingTypes DEF CreateFollowUp, PrepareReactivation
  <2> HIDE DEF x
  <2>2. /\ opportunities'[o].openHandoff = op.openHandoff
        /\ opportunities'[o].recovery = op.recovery
    BY <1>t, <2>1, ReactivatedRow
  <2> QED
    BY <2>1, <2>2, StrandedBefore
<1>10. CASE UNCHANGED <<opportunities, actions>>
  BY <1>10, StrandedBefore
<1>11. CASE \E j \in Jobs : \/ CancelFollowUp(j)
                            \/ ClaimFollowUp(j)
                            \/ \E result \in {"sent", "failed"} : FinishFollowUp(j, result)
  BY <1>10, <1>11 DEF CancelFollowUp, ClaimFollowUp, FinishFollowUp
\* An evaluation asks for a person when one was there as it read, or when the
\* opportunity waits for one already.
<1>12. ASSUME NEW r \in Requests, NEW new \in Actions, NEW recent \in BOOLEAN,
              NEW window \in BOOLEAN, NEW ownerApproves \in BOOLEAN,
              Evaluate(r, new, recent, window, ownerApproves)
       PROVE  Goal
  <2> DEFINE x        == reads[r].opportunity
             ob       == Observation(reads[r], recent, window)
             approved == ownerApproves /\ RecoveryActionStatus(ob) = "WAITING_APPROVAL"
             recovery == IF approved THEN "RECOVERY_ACTIVE" ELSE RecoveryStateAfterDecision(ob)
             action   == DecidedAction(x, ob, approved)
  <2>1. /\ reads[r] \in EvaluationReading /\ x \in Opportunities
        /\ Pending(r, "EVALUATION") /\ Ends(r)
        /\ opportunities' = [opportunities EXCEPT ![x] = Decided(opportunities[x], recovery)]
    BY <1>12, ReadingTypes DEF Evaluate
  <2>2. PICK retired : actions' = [ActionsCancelled(retired) EXCEPT ![new] = action]
    BY <1>12 DEF Evaluate
  <2>3. /\ ob.recovery = opportunities[x].recovery /\ ob.recovery \in RecoveryStates
        /\ ob.handoff = (reads[r].mode = "HUMAN_ACTIVE")
    BY <2>1, ObservationReads
  <2>4. recovery \in RecoveryStates
    BY <2>3, PolicyTypes DEF RecoveryStates
  <2>5. approved \in BOOLEAN
    OBVIOUS
  <2>6. /\ action.opportunity = x
        /\ action.status = IF approved THEN "READY" ELSE RecoveryActionStatus(ob)
    BY <2>1, <2>3, <2>5, DecidedActionRow
  <2>7. /\ recovery = "HUMAN_REQUIRED" => RecoveryStateAfterDecision(ob) = "HUMAN_REQUIRED"
    OBVIOUS
  <2> HIDE DEF ob, approved, recovery, action, x
  <2>8. /\ recovery = "HUMAN_REQUIRED" => HumanInvolved(ob)
        /\ action.status = "HUMAN_REQUIRED" => HumanInvolved(ob)
    BY <2>6, <2>7, HumanRequestIsJustified
  <2>9. \A a \in Actions : a # new /\ actions'[a].status = "HUMAN_REQUIRED" => actions'[a] = actions[a]
    BY <2>2, ActionsCancelledRows DEF ActionsCancelled
  <2>10. actions'[new] = action
    BY <2>2 DEF ActionsCancelled
  <2>11. CASE x # o
    <3>1. opportunities'[o] = op
      BY <1>t, <2>1, <2>11
    <3>2. \A a \in Actions : a \in LiveActionsOf(o)' /\ actions'[a].status = "HUMAN_REQUIRED" =>
            a \in LiveActionsOf(o) /\ actions[a].status = "HUMAN_REQUIRED"
      BY <2>6, <2>9, <2>10, <2>11 DEF LiveActionsOf, ActionsOf
    <3>3. LiveActionsOf(o)' \subseteq Actions
      BY DEF LiveActionsOf, ActionsOf
    <3> QED
      BY <3>1, <3>2, <3>3 DEF Stranded
  <2>12. CASE x = o /\ ~HumanInvolved(ob)
    <3>1. Decided(op, recovery).openHandoff = op.openHandoff /\ Decided(op, recovery).recovery = recovery
      BY <1>t, <2>4, DecidedRow
    <3>2. NoneAskedFor
      BY <2>8, <2>9, <2>10, <2>12
    <3>3. recovery # "HUMAN_REQUIRED"
      BY <2>8, <2>12
    <3> QED
      BY <1>k, <2>1, <2>12, <3>1, <3>2, <3>3
  <2>13. CASE x = o /\ HumanInvolved(ob)
    <3>1. opportunities'[o].openHandoff = op.openHandoff
      BY <1>t, <2>1, <2>4, <2>13, DecidedRow
    <3>2. ~op.openHandoff
      BY <3>1 DEF Stranded
    <3>3. op.mode = "AI_ACTIVE" /\ op.recovery # "HUMAN_REQUIRED"
      BY <1>p, <1>t, <3>2 DEF Stranded, OpportunitySound, OpportunityType, Modes
    <3>4. reads[r].mode = "HUMAN_ACTIVE"
      BY <2>3, <2>13, <3>3 DEF HumanInvolved
    <3> QED
      BY <2>1, <2>13, <3>3, <3>4, EndsRows DEF x
  <2> QED
    BY <2>11, <2>12, <2>13
<1> QED
  BY <1>1, <1>2, <1>3, <1>4, <1>5, <1>6, <1>7, <1>8, <1>9, <1>10, <1>11, <1>12, WritingSteps

\* For any number of requests: what waits for a person without an open handoff
\* was decided, after Resume AI, by an evaluation that had read the mode before.
THEOREM OnlyStaleEvaluationsEverStrand == Spec => OnlyStaleEvaluationsStrand
<1> DEFINE Step == \A o \in Opportunities : ~Stranded(o) /\ Stranded(o)' =>
                     \E r \in Requests :
                       /\ Pending(r, "EVALUATION") /\ reads[r].opportunity = o
                       /\ reads[r].mode = "HUMAN_ACTIVE" /\ opportunities[o].mode = "AI_ACTIVE"
                       /\ reads'[r] = Idle
<1>1. TypeOK /\ Sound /\ [Next]_vars => Step
  BY StrandStep
<1>2. OnlyStaleEvaluationsStrand <=> [][Step]_vars
  BY DEF OnlyStaleEvaluationsStrand
<1> QED
  BY <1>1, <1>2, SoundAlways, PTL DEF Spec
=============================================================================
