---------------------------- MODULE DemoCommerce ----------------------------
(***************************************************************************)
(* The work and the money of the demo's opportunity: appointments, quotes, *)
(* the jobs of accepted quotes, payments and refunds. Each operation saves *)
(* its row, replaces the next action and schedules a follow-up where the   *)
(* code does, and then reconciles or closes the opportunity.               *)
(***************************************************************************)
EXTENDS DemoOpportunity

CONSTANT MaxPayments  \* bound: payments and refunds recorded

OpenLead == demo.lead.status \notin {"WON", "LOST"}

SaveAppointment(s, a, status, slot) ==
  [s EXCEPT !.appointments[a] = [status |-> status, slot |-> slot],
            !.recent.appointments = Touched(@, a)]
SaveQuote(s, q, status) ==
  [s EXCEPT !.quotes[q].status = status, !.recent.quotes = Touched(@, q)]
SaveJob(s, q, status, slot) ==
  [s EXCEPT !.jobs[q] = [status |-> status, slot |-> slot], !.recent.jobs = Touched(@, q)]

\* What is booked: appointments unless cancelled, jobs while scheduled.
AppointmentsAt(slot) ==
  {a \in Appointments : demo.appointments[a].status \notin {"NONE", "CANCELLED"}
                        /\ demo.appointments[a].slot = slot}
JobsAt(slot) == {q \in Quotes : demo.jobs[q].status = "SCHEDULED" /\ demo.jobs[q].slot = slot}

DepositIsPaid(type, id) == Collected(demo, type, id) >= Deposit[id]

\* The end of completeAppointment and completeJob.
Complete(s, type, id) ==
  Reconcile(IF Balance(s, type, id) = 0 THEN CloseWon(s)
            ELSE TryFollowUp([ReplaceAction(s, "COLLECT_BALANCE", "now")
                                EXCEPT !.conversation.complete = FALSE], "AWAITING_BALANCE"))

-----------------------------------------------------------------------------
\* Appointments.

CreateAppointment(a, slot) ==
  /\ Workflow = "APPOINTMENT_SERVICE" /\ OpenLead
  /\ demo.appointments[a].status = "NONE"
  /\ AppointmentsAt(slot) = {} /\ JobsAt(slot) = {}
  /\ demo' = Reconcile(TryFollowUp(SaveAppointment(demo, a, "TENTATIVE", slot),
               IF Deposit[a] > 0 THEN "AWAITING_DEPOSIT" ELSE "AWAITING_CONFIRMATION"))

RescheduleAppointment(a, slot) ==
  /\ demo.appointments[a].status \in {"TENTATIVE", "CONFIRMED"}
  /\ AppointmentsAt(slot) \subseteq {a}
  /\ demo' = Reconcile(SaveAppointment(demo, a, demo.appointments[a].status, slot))

\* The row is cancelled even when closeOpportunityLost then throws.
CancelAppointment(a) ==
  /\ demo.appointments[a].status \notin {"NONE", "COMPLETED"}
  /\ demo' = CloseLost(SaveAppointment(demo, a, "CANCELLED", demo.appointments[a].slot), "CANCELLED")

ConfirmAppointment(a) ==
  /\ demo.appointments[a].status = "TENTATIVE"
  /\ DepositIsPaid("APPOINTMENT", a)
  /\ demo' = Reconcile(SaveAppointment(demo, a, "CONFIRMED", demo.appointments[a].slot))

CompleteAppointment(a) ==
  /\ demo.appointments[a].status \in {"TENTATIVE", "CONFIRMED"}
  /\ demo' = Complete(SaveAppointment(demo, a, "COMPLETED", demo.appointments[a].slot),
                      "APPOINTMENT", a)

-----------------------------------------------------------------------------
\* Quotes and jobs.

CreateQuoteDraft(q) ==
  /\ Workflow = "QUOTE_JOB" /\ OpenLead
  /\ demo.quotes[q].status = "NONE"
  /\ demo' = Reconcile(SaveQuote(demo, q, "DRAFT"))

\* Nothing asks whether the opportunity is still open.
SendQuote(q) ==
  /\ demo.quotes[q].status = "DRAFT"
  /\ demo' = Reconcile(TryFollowUp(ReplaceAction(
               [SaveQuote(demo, q, "SENT") EXCEPT !.conversation.complete = FALSE],
               "FOLLOW_UP_QUOTE", "now"), "QUOTE_SENT"))

DeclineQuote(q) ==
  /\ demo.quotes[q].status \notin {"NONE", "REJECTED", "ACCEPTED"}
  /\ demo' = CloseLost(SaveQuote(demo, q, "REJECTED"), "CUSTOMER_DECLINED")

ExpireQuote(q) ==
  /\ demo.quotes[q].status \notin {"NONE", "EXPIRED", "ACCEPTED"}
  /\ demo' = CloseLost(SaveQuote(demo, q, "EXPIRED"), "QUOTE_EXPIRED")

AcceptQuote(q) ==
  LET owing == Deposit[q] > 0
      booked == SaveJob(SaveQuote(demo, q, "ACCEPTED"), q,
                        IF owing THEN "PENDING_DEPOSIT" ELSE "READY_TO_SCHEDULE", "none")
      asked == ReplaceAction(booked, IF owing THEN "REQUEST_DEPOSIT" ELSE "SCHEDULE_JOB", "now")
  IN /\ demo.quotes[q].status = "SENT"
     /\ OpenLead
     /\ demo' = Reconcile(IF owing THEN TryFollowUp(asked, "AWAITING_DEPOSIT") ELSE asked)

ScheduleJob(q, slot) ==
  /\ demo.jobs[q].status = "READY_TO_SCHEDULE"
  /\ DepositIsPaid("JOB", q)
  /\ JobsAt(slot) = {} /\ AppointmentsAt(slot) = {}
  /\ demo' = Reconcile(SaveJob(demo, q, "SCHEDULED", slot))

\* A job that is only ready has no staff member yet, and the call throws.
RescheduleJob(q, slot) ==
  /\ demo.jobs[q].status = "SCHEDULED"
  /\ JobsAt(slot) \subseteq {q} /\ AppointmentsAt(slot) = {}
  /\ demo' = Reconcile(SaveJob(demo, q, "SCHEDULED", slot))

CancelJob(q) ==
  /\ demo.jobs[q].status \notin {"NONE", "COMPLETED", "CANCELLED"}
  /\ demo' = CloseLost(SaveJob(demo, q, "CANCELLED", demo.jobs[q].slot), "CANCELLED")

CompleteJob(q) ==
  /\ demo.jobs[q].status = "SCHEDULED"
  /\ demo' = Complete(SaveJob(demo, q, "COMPLETED", demo.jobs[q].slot), "JOB", q)

-----------------------------------------------------------------------------
\* Payments, refunds and the revenue that is attributed.

\* Appointments, quotes and jobs that exist, whatever their status.
Payable == {[type |-> "APPOINTMENT", id |-> a] : a \in {b \in Appointments : demo.appointments[b].status # "NONE"}}
           \cup {[type |-> "QUOTE", id |-> q] : q \in {r \in Quotes : demo.quotes[r].status # "NONE"}}
           \cup {[type |-> "JOB", id |-> q] : q \in {r \in Quotes : demo.jobs[r].status # "NONE"}}

Saved(s, type, id, kindOf, amount, original) ==
  [s EXCEPT !.payments = Append(@, [type |-> type, id |-> id, kind |-> kindOf,
                                    amount |-> amount, original |-> original])]

\* A job waiting for its deposit becomes ready once enough was collected.
ReleaseJob(s, type, id) ==
  IF type = "JOB" /\ StatusOf(s.jobs, id) = "PENDING_DEPOSIT" /\ Collected(s, "JOB", id) >= Deposit[id]
  THEN ReplaceAction(SaveJob(s, id, "READY_TO_SCHEDULE", s.jobs[id].slot), "SCHEDULE_JOB", "now")
  ELSE s

\* recordPayment with a new key, which recordDeposit and collectRemainingBalance call.
RecordPayment(reference, amount) ==
  /\ Len(demo.payments) < MaxPayments
  /\ amount <= Balance(demo, reference.type, reference.id)
  /\ demo' = Reconcile(ReleaseJob(
               Saved(demo, reference.type, reference.id, "PAYMENT", amount, 0),
               reference.type, reference.id))

Refunded(s, i) ==
  MapThenSumSet(LAMBDA r : s.payments[r].amount, {r \in DOMAIN s.payments : s.payments[r].original = i})

\* Plausible error: earlier refunds of the payment are not counted.
RefundableAtOnce(i) == demo.payments[i].amount

Refundable(i) == demo.payments[i].amount - Refunded(demo, i)

RecordRefund(i, amount) ==
  /\ Len(demo.payments) < MaxPayments
  /\ demo.payments[i].kind = "PAYMENT"
  /\ amount <= Refundable(i)
  /\ demo' = Reconcile(Saved(demo, demo.payments[i].type, demo.payments[i].id, "REFUND", amount, i))

\* verify: the revenue event of a payment, once.
VerifyRevenueAttribution(i) ==
  /\ demo.payments[i].kind = "PAYMENT"
  /\ i \notin demo.verified
  /\ demo' = [demo EXCEPT !.verified = @ \cup {i}]

\* summarize, over all kinds of attribution.
Attributed(s) ==
  MapThenSumSet(LAMBDA i : LET net == s.payments[i].amount - Refunded(s, i)
                           IN IF net < 0 THEN 0 ELSE net, s.verified)

NextAppointments ==
  \E a \in Appointments :
    \/ \E slot \in Slots : CreateAppointment(a, slot) \/ RescheduleAppointment(a, slot)
    \/ ConfirmAppointment(a)
    \/ CompleteAppointment(a)
    \/ CancelAppointment(a)

NextQuotes ==
  \E q \in Quotes :
    \/ CreateQuoteDraft(q)
    \/ SendQuote(q)
    \/ DeclineQuote(q)
    \/ ExpireQuote(q)
    \/ AcceptQuote(q)
    \/ \E slot \in Slots : ScheduleJob(q, slot) \/ RescheduleJob(q, slot)
    \/ CancelJob(q)
    \/ CompleteJob(q)

NextPayments ==
  \/ \E reference \in Payable : \E amount \in 1 .. Price[reference.id] : RecordPayment(reference, amount)
  \/ \E i \in DOMAIN demo.payments :
       \/ \E amount \in 1 .. demo.payments[i].amount : RecordRefund(i, amount)
       \/ VerifyRevenueAttribution(i)
=============================================================================
