---------------------------- MODULE DemoJourney ----------------------------
(***************************************************************************)
(* The demo: CloserService over a database in the browser, seen from one   *)
(* customer's opportunity. There are no transactions: an operation writes  *)
(* one repository after another, and when a step throws the writes before  *)
(* it stay. Operators take and return the opportunity's part of the        *)
(* database, so that an operation reads as the calls it makes, in order.   *)
(* The journey service infers the stage and the next action from the       *)
(* work, the payments and the conversation after almost every operation.   *)
(***************************************************************************)
EXTENDS Integers, FiniteSetsExt, SequencesExt

CONSTANTS Appointments,   \* appointments that may be created
          Quotes,         \* quotes that may be drafted; the job of a quote has its name
          Slots,          \* times of the staff member, disjoint
          Price,          \* total of each appointment, and of each quote and its job
          Deposit,        \* deposit each of them requires
          Cadence,        \* follow-up attempts configured for each scenario
          RequiredFacts,  \* facts that a service needs before it is quoted or booked
          MaxHandoffs     \* bound: takeovers of one conversation

VARIABLES demo,  \* the opportunity's part of the database
          kind   \* BusinessKind of the tenant

Workflow == IF kind = "CLINIC" THEN "APPOINTMENT_SERVICE" ELSE "QUOTE_JOB"

Scenarios == {"PRICE_INQUIRY", "BOOKING_CONFIRMATION", "MISSING_INFORMATION", "QUOTE_RESPONSE",
              "DEPOSIT_REQUEST", "OUTSTANDING_BALANCE", "REACTIVATION"}

ASSUME NamesAssumption == "none" \notin Appointments \cup Quotes
ASSUME CadenceAssumption == Cadence \in [Scenarios -> Nat]
ASSUME MoneyAssumption ==
  /\ Price \in [Appointments \cup Quotes -> Nat \ {0}]
  /\ \A w \in Appointments \cup Quotes : Deposit[w] \in 0 .. Price[w]

Facts == {"service", "preferredDate", "jobDetails", "location"}
ASSUME FactsAssumption == RequiredFacts \subseteq Facts

LostReasons == {"CUSTOMER_DECLINED", "CANCELLED", "OUTSIDE_SERVICE_AREA", "NO_LONGER_INTERESTED",
                "QUOTE_EXPIRED", "UNAVAILABLE"}
Stages == {"NEW_INQUIRY", "DISCOVERY", "INFORMATION_COLLECTION", "READY_TO_BOOK",
           "APPOINTMENT_PROPOSED", "AWAITING_CONFIRMATION", "READY_FOR_QUOTE", "QUOTE_PREPARATION",
           "QUOTE_SENT", "AWAITING_DEPOSIT", "BOOKED", "JOB_SCHEDULED", "AWAITING_BALANCE",
           "CLOSED_WON", "CLOSED_LOST", "HUMAN_REVIEW"}
ActionTypes == {"REPLY_TO_CUSTOMER", "ANSWER_QUESTION", "COLLECT_INFORMATION", "OFFER_APPOINTMENT",
                "CONFIRM_APPOINTMENT", "FOLLOW_UP_QUOTE", "PREPARE_QUOTE", "REQUEST_DEPOSIT",
                "SCHEDULE_JOB", "COLLECT_BALANCE", "HUMAN_REVIEW", "FUTURE_REACTIVATION",
                "SEND_QUOTE", "SERVICE_SCHEDULED"}

NoAction == [type |-> "none", due |-> "none"]

\* createCustomerOpportunity; the customers of the seed allow marketing.
InitDemo ==
  /\ kind \in {"CLINIC", "AUTO_DETAILING", "HOME_SERVICES"}
  /\ \E marketing \in BOOLEAN :
       demo = [lead |-> [status |-> "NEW", reason |-> "none", service |-> FALSE,
                         action |-> [type |-> "REPLY_TO_CUSTOMER", due |-> "now"]],
               conversation |-> [mode |-> "AI_ACTIVE", stage |-> "NEW_INQUIRY", complete |-> FALSE,
                                 action |-> "REPLY_TO_CUSTOMER", handoff |-> 0, heard |-> FALSE],
               marketing |-> marketing,
               openHandoff |-> 0, handoffs |-> 0,
               followUps |-> [x \in Scenarios |-> 0],
               memory |-> [f \in Facts |-> 0],
               appointments |-> [a \in Appointments |-> [status |-> "NONE", slot |-> "none"]],
               quotes |-> [q \in Quotes |-> [status |-> "NONE"]],
               jobs |-> [q \in Quotes |-> [status |-> "NONE", slot |-> "none"]],
               recent |-> [appointments |-> <<>>, quotes |-> <<>>, jobs |-> <<>>],
               payments |-> <<>>,
               verified |-> {}]

-----------------------------------------------------------------------------
\* Money, and the work the journey looks at.

Signed(payment) == IF payment.kind = "REFUND" THEN -payment.amount ELSE payment.amount

Collected(s, type, id) ==
  MapThenSumSet(LAMBDA i : Signed(s.payments[i]),
                {i \in DOMAIN s.payments : s.payments[i].type = type /\ s.payments[i].id = id})

Balance(s, type, id) ==
  LET due == Price[id] - Collected(s, type, id) IN IF due < 0 THEN 0 ELSE due

\* The latest update comes last; rows outside `kept` are passed over.
Newest(order, kept) ==
  LET at == SelectLastInSeq(order, LAMBDA w : w \in kept)
  IN IF at = 0 THEN "none" ELSE order[at]

Touched(order, w) == Append(RemoveFirst(order, w), w)

StatusOf(rows, w) == IF w = "none" THEN "NONE" ELSE rows[w].status
DepositOf(w) == IF w = "none" THEN 0 ELSE Deposit[w]

\* What the journey reads of an appointment, a job and the quote; the reference is paid for.
View(s, appointment, job, quote, type, reference) ==
  [job |-> StatusOf(s.jobs, job), jobDeposit |-> DepositOf(job),
   appointment |-> StatusOf(s.appointments, appointment),
   appointmentDeposit |-> DepositOf(appointment),
   slot |-> IF appointment = "none" THEN "none" ELSE s.appointments[appointment].slot,
   quote |-> StatusOf(s.quotes, quote), quoteId |-> quote,
   collected |-> IF reference = "none" THEN 0 ELSE Collected(s, type, reference),
   completed |-> "COMPLETED" \in {StatusOf(s.jobs, job), StatusOf(s.appointments, appointment)},
   balance |-> IF reference = "none" THEN 0 ELSE Balance(s, type, reference)]

\* What evaluate reads: the current job, or else the current appointment, is the reference.
Current(s) ==
  LET appointment == Newest(s.recent.appointments,
                            {a \in Appointments : s.appointments[a].status # "CANCELLED"})
      job == Newest(s.recent.jobs, {q \in Quotes : s.jobs[q].status # "CANCELLED"})
      quote == Newest(s.recent.quotes, Quotes)
  IN IF job # "none" THEN View(s, appointment, job, quote, "JOB", job)
     ELSE View(s, appointment, job, quote, "APPOINTMENT", appointment)

\* The value of the first rule whose condition holds.
FirstRule(rules) == rules[SelectInSeq(rules, LAMBDA rule : rule[1])][2]

\* Plausible error: delivered work is taken for paid work.
Delivered(c) == c.completed

SettledInFull(c) == c.completed /\ c.balance = 0

JourneyStage(s, c) ==
  FirstRule(<<
       <<s.conversation.mode = "HUMAN_ACTIVE", "HUMAN_REVIEW">>,
       <<s.lead.status = "LOST", "CLOSED_LOST">>,
       <<SettledInFull(c), "CLOSED_WON">>,
       <<c.completed, "AWAITING_BALANCE">>,
       <<c.job = "PENDING_DEPOSIT", "AWAITING_DEPOSIT">>,
       <<c.job # "NONE" /\ c.collected < c.jobDeposit, "AWAITING_DEPOSIT">>,
       <<c.job = "SCHEDULED", "JOB_SCHEDULED">>,
       <<c.job # "NONE", "BOOKED">>,
       <<c.appointment # "NONE" /\ c.collected < c.appointmentDeposit, "AWAITING_DEPOSIT">>,
       <<c.appointment = "CONFIRMED", "BOOKED">>,
       <<c.appointment # "NONE", "AWAITING_CONFIRMATION">>,
       <<c.quote = "DRAFT", "QUOTE_PREPARATION">>,
       <<c.quote = "SENT", "QUOTE_SENT">>,
       <<s.lead.status = "WON", "CLOSED_WON">>,
       <<TRUE, s.conversation.stage>> >>)

Recommended(type, due) == [type |-> type, due |-> due]

JourneyAction(s, c, stage) ==
  FirstRule(<<
       <<s.lead.status = "LOST" \/ stage = "CLOSED_WON", NoAction>>,
       <<s.conversation.mode = "HUMAN_ACTIVE", Recommended("HUMAN_REVIEW", "none")>>,
       <<stage = "AWAITING_BALANCE", Recommended("COLLECT_BALANCE", "none")>>,
       <<c.job # "NONE" /\ c.collected < c.jobDeposit, Recommended("REQUEST_DEPOSIT", "none")>>,
       <<c.job \in {"READY_TO_SCHEDULE", "PENDING_DEPOSIT"}, Recommended("SCHEDULE_JOB", "none")>>,
       <<c.job = "SCHEDULED", Recommended("SERVICE_SCHEDULED", "none")>>,
       <<c.appointment # "NONE" /\ c.collected < c.appointmentDeposit,
         Recommended("REQUEST_DEPOSIT", "none")>>,
       <<c.appointment = "TENTATIVE", Recommended("CONFIRM_APPOINTMENT", "none")>>,
       <<c.appointment = "CONFIRMED", Recommended("SERVICE_SCHEDULED", c.slot)>>,
       <<c.quote = "DRAFT", Recommended("SEND_QUOTE", "none")>>,
       <<c.quote = "SENT", Recommended("FOLLOW_UP_QUOTE", c.quoteId)>>,
       <<stage = "READY_TO_BOOK", Recommended("OFFER_APPOINTMENT", "none")>>,
       <<stage = "READY_FOR_QUOTE", Recommended("PREPARE_QUOTE", "none")>>,
       <<stage = "INFORMATION_COLLECTION", Recommended("COLLECT_INFORMATION", "none")>>,
       <<stage \in {"NEW_INQUIRY", "DISCOVERY"}, Recommended("REPLY_TO_CUSTOMER", "none")>>,
       <<Workflow = "APPOINTMENT_SERVICE", Recommended("OFFER_APPOINTMENT", "none")>>,
       <<TRUE, Recommended("PREPARE_QUOTE", "none")>> >>)

MissingFacts(s) == {f \in RequiredFacts : s.memory[f] = 0}

\* What the inference takes for owed: of the newest appointment, or else of the newest job.
Owed(s, appointment, job) ==
  IF appointment # "none" THEN Balance(s, "APPOINTMENT", appointment)
  ELSE IF job # "none" THEN Balance(s, "JOB", job) ELSE 0

StageFrom(s, appointment, job, quote, owed) ==
  FirstRule(<<
    <<s.conversation.mode = "HUMAN_ACTIVE", "HUMAN_REVIEW">>,
    <<s.lead.status = "WON", "CLOSED_WON">>,
    <<s.lead.status = "LOST", "CLOSED_LOST">>,
    <<"COMPLETED" = IF appointment # "none" THEN s.appointments[appointment].status
                    ELSE StatusOf(s.jobs, job),
      IF owed > 0 THEN "AWAITING_BALANCE" ELSE "CLOSED_WON">>,
    <<appointment # "none" /\ Price[appointment] - owed < Deposit[appointment], "AWAITING_DEPOSIT">>,
    <<StatusOf(s.appointments, appointment) = "CONFIRMED", "BOOKED">>,
    <<appointment # "none", "AWAITING_CONFIRMATION">>,
    <<StatusOf(s.jobs, job) = "PENDING_DEPOSIT", "AWAITING_DEPOSIT">>,
    <<StatusOf(s.jobs, job) = "SCHEDULED", "JOB_SCHEDULED">>,
    <<job # "none", "BOOKED">>,
    <<quote = "SENT", "QUOTE_SENT">>,
    <<quote = "DRAFT", "QUOTE_PREPARATION">>,
    <<MissingFacts(s) = {} /\ RequiredFacts # {},
      IF Workflow = "APPOINTMENT_SERVICE" THEN "READY_TO_BOOK" ELSE "READY_FOR_QUOTE">>,
    <<\E f \in Facts : s.memory[f] # 0, "INFORMATION_COLLECTION">>,
    <<(\E x \in Scenarios : s.followUps[x] > 0) \/ s.conversation.heard, "DISCOVERY">>,
    <<TRUE, "NEW_INQUIRY">> >>)

\* The stage as the assistant infers it: from the newest rows, cancelled ones included.
InferredStage(s) ==
  LET appointment == Newest(s.recent.appointments, Appointments)
      job == Newest(s.recent.jobs, Quotes)
  IN StageFrom(s, appointment, job, StatusOf(s.quotes, Newest(s.recent.quotes, Quotes)),
               Owed(s, appointment, job))
=============================================================================
