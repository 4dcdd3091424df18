--------------------------- MODULE RecoveryPolicy ---------------------------
(***************************************************************************)
(* The pure policy of server/application/recoveryEngine.ts and the         *)
(* recovery score of opportunityScoring.ts: from one observation of an     *)
(* opportunity to a suppression reason, a play, a next best action, the    *)
(* status of the recovery action that is persisted and the recovery state  *)
(* that the opportunity moves to.                                          *)
(*                                                                         *)
(* An observation is a record; times are abstracted to the comparisons the *)
(* policy makes with them, money to "reaches the approval threshold".      *)
(***************************************************************************)
EXTENDS Integers

Statuses == {"NEW", "CONTACTING", "ENGAGED", "QUALIFIED", "BOOKED", "ESTIMATE",
             "WON", "LOST", "SNOOZED", "DO_NOT_CONTACT"}

RecoveryStates == {"NOT_AT_RISK", "AT_RISK", "RECOVERY_ACTIVE", "WAITING_FOR_CUSTOMER",
                   "HUMAN_REQUIRED", "RECOVERED", "FAILED", "STOPPED"}

AutonomyLevels == {"OBSERVE", "SUGGEST", "APPROVE_TO_SEND", "AUTOPILOT"}

ActionStatuses == {"PENDING", "READY", "WAITING_APPROVAL", "EXECUTING", "COMPLETED",
                   "WAITING_CUSTOMER", "HUMAN_REQUIRED", "CANCELLED", "FAILED", "SUPPRESSED"}

ActionKinds == {"REQUEST_HUMAN", "STOP_RECOVERY", "ATTEMPT_BOOKING", "ASK_QUALIFICATION",
                "WAIT", "SEND_SMS"}

\* The null of playType and of suppressionReason.
None == "NONE"

SuppressionReasons == {"CONTACT_SUPPRESSED", "DO_NOT_CONTACT", "OPPORTUNITY_WON",
                       "EXPLICIT_REJECTION", "HUMAN_TAKEOVER_ACTIVE",
                       "OUTSIDE_CONTACT_WINDOW", "RECOVERY_ALREADY_ACTIVE"}

(***************************************************************************)
(* opportunityScoring.ts, recoveryScore: the only score that a decision    *)
(* depends on. An estimate is never seen as viewed twice: the store counts *)
(* at most one view.                                                       *)
(***************************************************************************)
Points(condition, points) == IF condition THEN points ELSE 0

HasRejection(ob) == ob.rejected /\ ob.status = "LOST"

HumanInvolved(ob) == ob.handoff \/ ob.recovery = "HUMAN_REQUIRED"

RecoveryScore(ob) ==
  LET raw == 35
             + Points(ob.replied, 20)
             + Points(ob.recentReply, 20)
             + Points(ob.businessWindow, 15)
             - Points(ob.manyAttempts, 20)
             - Points(HasRejection(ob), 70)
             - Points(ob.optedOut \/ ~ob.operational, 100)
             - Points(HumanInvolved(ob), 15)
  IN  IF raw < 0 THEN 0 ELSE IF raw > 100 THEN 100 ELSE raw

(***************************************************************************)
(* recoveryEngine.ts.                                                      *)
(***************************************************************************)
\* The first reason that applies, in the order the code tests them.
SuppressionReason(ob) ==
  IF ob.optedOut \/ ~ob.operational THEN "CONTACT_SUPPRESSED"
  ELSE IF ob.status = "DO_NOT_CONTACT" THEN "DO_NOT_CONTACT"
  ELSE IF ob.status = "WON" THEN "OPPORTUNITY_WON"
  ELSE IF HasRejection(ob) THEN "EXPLICIT_REJECTION"
  ELSE IF HumanInvolved(ob) THEN "HUMAN_TAKEOVER_ACTIVE"
  ELSE IF ~ob.inWindow THEN "OUTSIDE_CONTACT_WINDOW"
  ELSE IF ob.recovery \in {"RECOVERY_ACTIVE", "WAITING_FOR_CUSTOMER"} THEN "RECOVERY_ALREADY_ACTIVE"
  ELSE None

ChoosePlay(ob) ==
  IF ob.missedCall /\ ob.status \in {"NEW", "CONTACTING"} THEN "MISSED_CALL_RECOVERY"
  ELSE IF ob.estimate /\ ob.status = "ESTIMATE" THEN "UNSOLD_ESTIMATE_RECOVERY"
  ELSE IF ob.status \in {"LOST", "SNOOZED"} THEN "OLD_LEAD_REACTIVATION"
  ELSE IF ob.status \in {"NEW", "CONTACTING", "ENGAGED", "QUALIFIED"} THEN "NEW_LEAD_RECOVERY"
  ELSE None

Eligible(ob) == SuppressionReason(ob) = None /\ ChoosePlay(ob) # None

\* Plausible error: the value of the opportunity is not looked at.
AutonomyAlone(ob) == ob.autonomy # "AUTOPILOT"

PolicyRequiresApproval(ob) == ob.autonomy # "AUTOPILOT" \/ ob.highValue

\* hasBookingRequest is derived from the status (postgresProductionStore.ts 2338).
BookingRequested(ob) == ob.status \in {"QUALIFIED", "BOOKED"}

NextActionKind(ob) ==
  IF SuppressionReason(ob) = "HUMAN_TAKEOVER_ACTIVE" THEN "REQUEST_HUMAN"
  ELSE IF ~Eligible(ob) THEN "STOP_RECOVERY"
  ELSE IF BookingRequested(ob) THEN "ATTEMPT_BOOKING"
  ELSE IF ~ob.serviceIntent THEN "ASK_QUALIFICATION"
  ELSE IF RecoveryScore(ob) < 30 THEN "WAIT"
  ELSE "SEND_SMS"

NextActionRequiresApproval(ob) ==
  LET kind == NextActionKind(ob)
  IN  \/ kind = "ATTEMPT_BOOKING"
      \/ kind \in {"ASK_QUALIFICATION", "SEND_SMS"} /\ PolicyRequiresApproval(ob)

RecoveryActionStatus(ob) ==
  IF NextActionKind(ob) = "REQUEST_HUMAN" THEN "HUMAN_REQUIRED"
  ELSE IF ~Eligible(ob) THEN "SUPPRESSED"
  ELSE IF ob.autonomy \in {"OBSERVE", "SUGGEST"} THEN "PENDING"
  ELSE IF NextActionRequiresApproval(ob) THEN "WAITING_APPROVAL"
  ELSE "READY"

RecoveryStateAfterDecision(ob) ==
  LET reason == SuppressionReason(ob)
  IN  IF RecoveryActionStatus(ob) = "HUMAN_REQUIRED" THEN "HUMAN_REQUIRED"
      ELSE IF Eligible(ob)
           THEN IF RecoveryActionStatus(ob) = "READY" THEN "RECOVERY_ACTIVE" ELSE "AT_RISK"
      ELSE IF reason = "OUTSIDE_CONTACT_WINDOW" THEN "AT_RISK"
      ELSE IF reason = "OPPORTUNITY_WON" THEN "NOT_AT_RISK"
      ELSE IF reason \in {"CONTACT_SUPPRESSED", "DO_NOT_CONTACT", "EXPLICIT_REJECTION"}
           THEN "STOPPED"
      ELSE ob.recovery
=============================================================================
