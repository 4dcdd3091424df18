-------------------------- MODULE DemoOpportunity --------------------------
(***************************************************************************)
(* What changes the demo's opportunity: its next action, its follow-ups,   *)
(* its reconciliation with the journey, its closing and reopening, the     *)
(* human takeover of its conversation and the owner's other operations.    *)
(***************************************************************************)
EXTENDS DemoJourney

CONSTANTS CloseReasons,  \* bound: reasons the owner closes an opportunity for
          OwnerFacts     \* bound: facts the owner enters

ASSUME OwnerAssumption == CloseReasons \subseteq LostReasons /\ OwnerFacts \subseteq Facts

-----------------------------------------------------------------------------
\* The next action. An action due "now" never equals the pending one.

ReplaceAction(s, type, due) ==
  IF due # "now" /\ s.lead.action = [type |-> type, due |-> due] THEN s
  ELSE [s EXCEPT !.lead.action = [type |-> type, due |-> due], !.conversation.action = type]

ClearActions(s) == [s EXCEPT !.lead.action = NoAction, !.conversation.action = "none"]

-----------------------------------------------------------------------------
\* Follow-ups: 0 is none scheduled, n a scheduled one after n - 1 attempts.

ScenarioOf(stage) ==
  CASE stage = "QUOTE_SENT" -> "QUOTE_RESPONSE"
    [] stage = "AWAITING_DEPOSIT" -> "DEPOSIT_REQUEST"
    [] stage = "AWAITING_BALANCE" -> "OUTSTANDING_BALANCE"
    [] stage = "AWAITING_CONFIRMATION" -> "BOOKING_CONFIRMATION"
    [] stage = "INFORMATION_COLLECTION" -> "MISSING_INFORMATION"
    [] OTHER -> "none"

\* The guards of schedule; operational messages are always consented to in the demo.
Unblocked(s, scenario) ==
  /\ scenario # "none"
  /\ s.conversation.mode = "AI_ACTIVE" /\ ~s.conversation.complete
  /\ s.conversation.action # "HUMAN_REVIEW"
  /\ scenario = "REACTIVATION" => s.marketing

\* A follow-up without a date of its own takes it from the cadence of its scenario.
MaySchedule(s, scenario) == Unblocked(s, scenario) /\ Cadence[scenario] > 0

Schedule(s, scenario) ==
  IF s.followUps[scenario] > 0 THEN s ELSE [s EXCEPT !.followUps[scenario] = 1]

\* tryScheduleFollowUp: what blocks a follow-up is caught.
TryFollowUp(s, stage) ==
  IF MaySchedule(s, ScenarioOf(stage)) THEN Schedule(s, ScenarioOf(stage)) ELSE s

\* Plausible error: only the follow-ups of the commercial journey are cancelled.
CancelJourneyFollowUps(s) ==
  [s EXCEPT !.followUps = [x \in Scenarios |-> IF x = "REACTIVATION" THEN @[x] ELSE 0]]

\* cancelPending and completeForCustomerResponse leave nothing scheduled.
StopFollowUps(s) == [s EXCEPT !.followUps = [x \in Scenarios |-> 0]]

\* After the last attempt of the cadence nothing more is scheduled.
NextStep(step, scenario) == IF step >= Cadence[scenario] THEN 0 ELSE step + 1

-----------------------------------------------------------------------------
\* Reconciliation, closing and reopening.

CloseWon(s) ==
  IF s.lead.status = "WON" THEN s
  ELSE [StopFollowUps(ClearActions(s)) EXCEPT
          !.lead.status = "WON", !.lead.reason = "none",
          !.conversation.mode = "CLOSED", !.conversation.stage = "CLOSED_WON",
          !.conversation.complete = TRUE]

\* Plausible error: whatever the stage, the won opportunity is opened again.
ReopensAlways(s, stage) == s.lead.status = "WON"

ReopensAfterRefund(s, stage) == s.lead.status = "WON" /\ stage = "AWAITING_BALANCE"

\* The journey recommends what is next, or nothing.
FollowAction(s, action) == IF action = NoAction THEN s ELSE ReplaceAction(s, action.type, action.due)

\* reconcileOpportunity of an opportunity that stays open, or is open again after a refund.
MoveTo(s, stage) ==
  LET moved == [s EXCEPT
        !.lead.status = IF s.lead.status = "NEW" \/ ReopensAfterRefund(s, stage) THEN "ACTIVE" ELSE @,
        !.conversation.stage = stage,
        !.conversation.complete = (stage \in {"CLOSED_WON", "CLOSED_LOST"}),
        !.conversation.mode = IF ReopensAfterRefund(s, stage) THEN "AI_ACTIVE" ELSE @]
  IN IF ReopensAfterRefund(s, stage) THEN TryFollowUp(moved, stage) ELSE moved

FollowJourney(s, c) ==
  LET stage == JourneyStage(s, c)
  IN FollowAction(MoveTo(s, stage), JourneyAction(s, c, stage))

Reconcile(s) ==
  LET c == Current(s)
  IN IF s.lead.status = "LOST" THEN ClearActions(StopFollowUps(s))
     ELSE IF SettledInFull(c) THEN CloseWon(s)
     ELSE FollowJourney(s, c)

\* closeOpportunityLost: a closed opportunity is left as it is, or the call throws.
CloseLost(s, reason) ==
  IF s.lead.status \in {"WON", "LOST"} THEN s
  ELSE [StopFollowUps(ClearActions(s)) EXCEPT
          !.lead.status = "LOST", !.lead.reason = reason,
          !.conversation.mode = "CLOSED", !.conversation.stage = "CLOSED_LOST",
          !.conversation.complete = TRUE]

Reopened(s) ==
  [s EXCEPT !.lead.status = "ACTIVE", !.lead.reason = "none",
            !.conversation.mode = "AI_ACTIVE", !.conversation.stage = "DISCOVERY",
            !.conversation.complete = FALSE]

\* Plausible error: the reopened opportunity is not reconciled.
ReopenOnly(s) == IF s.lead.status # "LOST" THEN s ELSE Reopened(s)

Reopen(s) == IF s.lead.status # "LOST" THEN s ELSE Reconcile(Reopened(s))

-----------------------------------------------------------------------------
\* Human takeover of the conversation.

\* startHumanTakeover, called when the conversation is not CLOSED: an unresolved handoff
\* is returned and nothing changes.
TakeOver(s) ==
  IF s.openHandoff # 0 THEN s
  ELSE StopFollowUps(ReplaceAction(
         [s EXCEPT !.handoffs = @ + 1, !.openHandoff = s.handoffs + 1,
                   !.conversation.mode = "HUMAN_ACTIVE", !.conversation.stage = "HUMAN_REVIEW",
                   !.conversation.handoff = s.handoffs + 1],
         "HUMAN_REVIEW", "now"))

ActionForStage(stage) ==
  CASE stage = "AWAITING_BALANCE" -> "COLLECT_BALANCE"
    [] stage = "AWAITING_DEPOSIT" -> "REQUEST_DEPOSIT"
    [] stage = "QUOTE_SENT" -> "FOLLOW_UP_QUOTE"
    [] stage = "READY_FOR_QUOTE" -> "PREPARE_QUOTE"
    [] stage = "READY_TO_BOOK" -> "OFFER_APPOINTMENT"
    [] stage = "AWAITING_CONFIRMATION" -> "CONFIRM_APPOINTMENT"
    [] OTHER -> "REPLY_TO_CUSTOMER"

\* resumeAssistant resolves the handoff the conversation points to.
Resumed(s) == [s EXCEPT !.openHandoff = IF @ = s.conversation.handoff THEN 0 ELSE @,
                        !.conversation.mode = "AI_ACTIVE", !.conversation.handoff = 0]

Resume(s) ==
  LET stage == InferredStage(Resumed(s))
  IN Reconcile(ReplaceAction([Resumed(s) EXCEPT !.conversation.stage = stage],
                             ActionForStage(stage), "now"))

-----------------------------------------------------------------------------
\* The owner's operations on the opportunity.

CloseOpportunityLost(reason) ==
  /\ demo.lead.status \notin {"WON", "LOST"}
  /\ demo' = CloseLost(demo, reason)

ReopenOpportunity ==
  /\ demo.lead.status = "LOST"
  /\ demo' = Reopen(demo)

StartHumanTakeover ==
  /\ demo.conversation.mode # "CLOSED"
  /\ demo.handoffs < MaxHandoffs
  /\ demo' = TakeOver(demo)

ResumeAssistant ==
  /\ demo.conversation.mode = "HUMAN_ACTIVE"
  /\ demo' = Resume(demo)

OptOutMarketing == demo' = [demo EXCEPT !.marketing = FALSE]

\* The owner may correct what the customer said.
Remember(s, fact, value) == [s EXCEPT !.memory[fact] = value]

SelectServiceForLead ==
  demo' = Reconcile([Remember(demo, "service", 1) EXCEPT !.lead.service = TRUE])

RememberCustomerFact(fact, value) ==
  demo' = IF demo.lead.status \in {"WON", "LOST"} THEN Remember(demo, fact, value)
          ELSE Reconcile(Remember(demo, fact, value))

ScheduleFollowUpForConversation ==
  /\ Unblocked(demo, ScenarioOf(InferredStage(demo)))
  /\ demo' = Schedule(demo, ScenarioOf(InferredStage(demo)))

\* recordFollowUpAttempt with a new operation key.
RecordFollowUpAttempt(scenario) ==
  /\ demo.followUps[scenario] > 0
  /\ demo' = [demo EXCEPT !.followUps[scenario] = NextStep(@, scenario)]

CancelFollowUpsManually == demo' = StopFollowUps(demo)

\* listCandidates, of an opportunity that was inactive long enough.
ReactivationCandidate(s) ==
  /\ s.lead.status = "LOST"
  /\ s.lead.reason \in {"NO_LONGER_INTERESTED", "QUOTE_EXPIRED", "UNAVAILABLE"}
  /\ s.marketing

\* The opportunity is reopened before the follow-up is scheduled, which may throw.
Reactivated(s) ==
  IF MaySchedule(s, "REACTIVATION")
  THEN ReplaceAction(Schedule(s, "REACTIVATION"), "FUTURE_REACTIVATION", "now") ELSE s

PrepareReactivation ==
  /\ ReactivationCandidate(demo)
  /\ Cadence["REACTIVATION"] > 0
  /\ demo.followUps["REACTIVATION"] = 0
  /\ demo' = Reactivated(Reopen(demo))

NextOpportunity ==
  \/ \E reason \in CloseReasons : CloseOpportunityLost(reason)
  \/ ReopenOpportunity
  \/ PrepareReactivation

NextTakeover ==
  \/ StartHumanTakeover
  \/ ResumeAssistant

NextCustomer ==
  \/ OptOutMarketing
  \/ SelectServiceForLead
  \/ \E fact \in OwnerFacts, value \in 1 .. 2 : RememberCustomerFact(fact, value)

NextFollowUps ==
  \/ ScheduleFollowUpForConversation
  \/ \E scenario \in Scenarios : RecordFollowUpAttempt(scenario)
  \/ CancelFollowUpsManually
=============================================================================
