---------------------------- MODULE DemoAssistant ----------------------------
(***************************************************************************)
(* The assistant of the demo: what the conversation engine decides about a *)
(* message, how the policy validates the decision, what the tool it asks   *)
(* for returns, and what the application may then send by itself. A        *)
(* message is its topic, the fact it states and whether it says to stop;   *)
(* a decision is what the application acts on, its wording left out.       *)
(***************************************************************************)
EXTENDS DemoCommerce

CONSTANTS FixedPrice,     \* the service has a fixed price
          PriceRange,     \* or a price range
          AllowedTopics   \* knowledge the owner allows the assistant to answer from

Topics == {"unsafe", "optOut", "paymentClaim", "balance", "businessInfo", "changeBooking",
           "serviceInfo", "price", "booking", "quote", "other"}
Knowledge == {"businessInfo", "serviceInfo", "fixedPrice", "priceRange"}

\* Levels: 1 safe information, 2 information collection, 3 proposal, 4 human handoff.
ToolsOfLevel ==
  <<{"GET_BUSINESS_INFO", "GET_SERVICE_INFO", "GET_SERVICE_PRICE", "GET_CONVERSATION_CONTEXT",
     "CREATE_NEXT_ACTION"},
    {"REQUEST_CUSTOMER_INFORMATION"},
    {"GET_AVAILABLE_SLOTS", "CREATE_QUOTE_DRAFT", "CREATE_NEXT_ACTION"},
    {"HANDOFF_TO_HUMAN"}>>

Reasons == {"none", "OPT_OUT", "PAYMENT_QUESTION", "PRICE_QUESTION", "BOOKING_INTENT",
            "MISSING_REQUIRED_INFORMATION", "INFORMATION_COMPLETE"}

Decisions ==
  [stage : Stages, action : ActionTypes, tool : UNION {ToolsOfLevel[l] : l \in 1 .. 4},
   level : 1 .. 4, handoff : BOOLEAN, followUp : BOOLEAN, reason : Reasons,
   missing : SUBSET Facts, knowledge : Knowledge \cup {"none"}]

-----------------------------------------------------------------------------
\* ConversationEngine.decide, on the context s.

\* The remembered job of home services is not read as a service.
HasService(s) == s.lead.service \/ (kind # "HOME_SERVICES" /\ s.memory["service"] = 1)

EngineAction(stage, fallback) ==
  IF stage \in {"AWAITING_BALANCE", "AWAITING_DEPOSIT", "QUOTE_SENT", "READY_FOR_QUOTE", "READY_TO_BOOK",
                "JOB_SCHEDULED"}
  THEN ActionForStage(stage) ELSE fallback

ShouldFollowUp(stage) == ScenarioOf(stage) # "none"

BaseDecision(s, stage) ==
  [stage |-> stage, action |-> EngineAction(stage, "REPLY_TO_CUSTOMER"),
   tool |-> "CREATE_NEXT_ACTION", level |-> 1, handoff |-> FALSE,
   followUp |-> ShouldFollowUp(stage), reason |-> "none", missing |-> MissingFacts(s),
   knowledge |-> "none"]

HandedOff(d) ==
  [d EXCEPT !.stage = "HUMAN_REVIEW", !.action = "HUMAN_REVIEW", !.tool = "HANDOFF_TO_HUMAN",
            !.level = 4, !.handoff = TRUE, !.followUp = FALSE, !.reason = "none"]

Answering(d, tool, knowledge, reason, followUp) ==
  [d EXCEPT !.action = EngineAction(d.stage, "ANSWER_QUESTION"), !.tool = tool,
            !.knowledge = knowledge, !.reason = reason, !.followUp = followUp]

Collecting(d, missing) ==
  [d EXCEPT !.stage = "INFORMATION_COLLECTION", !.action = "COLLECT_INFORMATION",
            !.tool = "REQUEST_CUSTOMER_INFORMATION", !.level = 2, !.followUp = TRUE,
            !.reason = "MISSING_REQUIRED_INFORMATION", !.missing = missing]

Proposing(d, stage, action, tool, reason) ==
  [d EXCEPT !.stage = stage, !.action = action, !.tool = tool, !.level = 3, !.followUp = TRUE,
            !.reason = reason]

\* verifiedPaymentState: the newest job, or else the newest appointment.
VerifiedRemaining(s) ==
  LET job == Newest(s.recent.jobs, Quotes)
      appointment == Newest(s.recent.appointments, Appointments)
  IN IF job # "none" THEN Balance(s, "JOB", job)
     ELSE IF appointment # "none" THEN Balance(s, "APPOINTMENT", appointment) ELSE 0

AskingForQuote(m) == m.topic = "quote" \/ Workflow = "QUOTE_JOB"

\* Location 2 is not in the configured service area. It is remembered: it is a reason for every
\* message that follows, too.
OutsideServiceArea(s) == kind = "HOME_SERVICES" /\ s.memory["location"] = 2

\* What the assistant leaves to a person, and the request to stop, which it does not.
SafetyRules(m, conflict, d) == <<
  <<conflict \/ m.topic = "unsafe", HandedOff(d)>>,
  <<m.topic = "optOut",
    [d EXCEPT !.action = "REPLY_TO_CUSTOMER", !.followUp = FALSE, !.reason = "OPT_OUT"]>> >>

\* A payment that the customer says was made, and a place the business does not serve.
ClaimRules(s, m, d) == << <<m.topic = "paymentClaim" \/ OutsideServiceArea(s), HandedOff(d)>> >>

QuestionRules(s, m, d) == <<
  <<m.topic = "balance",
    [d EXCEPT !.action = IF VerifiedRemaining(s) > 0 THEN "COLLECT_BALANCE" ELSE @,
              !.tool = "GET_CONVERSATION_CONTEXT", !.reason = "PAYMENT_QUESTION"]>>,
  <<m.topic = "businessInfo", Answering(d, "GET_BUSINESS_INFO", "businessInfo", "none", FALSE)>>,
  <<m.topic = "changeBooking", HandedOff(d)>>,
  <<m.topic \in {"serviceInfo", "price", "booking"} /\ ~HasService(s), Collecting(d, {"service"})>>,
  <<m.topic = "serviceInfo", Answering(d, "GET_SERVICE_INFO", "serviceInfo", "none", FALSE)>> >>

\* A fixed price, a range, which ends in a question or in a quote, or else a person.
PriceRules(s, m, d) ==
  LET missing == MissingFacts(s)
      inRange == [d EXCEPT !.knowledge = "priceRange"]
  IN << <<m.topic = "price" /\ FixedPrice,
          Answering(d, "GET_SERVICE_PRICE", "fixedPrice", "PRICE_QUESTION", TRUE)>>,
        <<m.topic = "price" /\ PriceRange /\ missing # {},
          [Collecting(inRange, missing) EXCEPT !.stage = d.stage]>>,
        <<m.topic = "price" /\ PriceRange,
          Proposing(inRange, d.stage, "PREPARE_QUOTE", "CREATE_QUOTE_DRAFT", "INFORMATION_COMPLETE")>>,
        <<m.topic = "price", HandedOff(d)>> >>

WorkRules(s, m, d) ==
  LET missing == MissingFacts(s)
  IN << <<m.topic = "booking" /\ missing # {}, Collecting(d, missing)>>,
        <<m.topic = "booking",
          Proposing(d, "READY_TO_BOOK", "OFFER_APPOINTMENT", "GET_AVAILABLE_SLOTS", "BOOKING_INTENT")>>,
        <<AskingForQuote(m) /\ ~HasService(s) /\ kind # "HOME_SERVICES", Collecting(d, {"service"})>>,
        <<missing # {}, Collecting(d, missing)>>,
        <<AskingForQuote(m),
          Proposing(d, "READY_FOR_QUOTE", "PREPARE_QUOTE", "CREATE_QUOTE_DRAFT",
                    "INFORMATION_COMPLETE")>>,
        <<TRUE,
          [Proposing(d, d.stage, "OFFER_APPOINTMENT", "GET_AVAILABLE_SLOTS", "INFORMATION_COMPLETE")
             EXCEPT !.followUp = d.followUp]>> >>

Rules(s, m, conflict, d) ==
  SafetyRules(m, conflict, d) \o ClaimRules(s, m, d) \o QuestionRules(s, m, d)
  \o PriceRules(s, m, d) \o WorkRules(s, m, d)

\* The first rule that applies decides.
EngineDecision(s, m, conflict) == FirstRule(Rules(s, m, conflict, BaseDecision(s, InferredStage(s))))

-----------------------------------------------------------------------------
\* AssistantDecisionPolicy and AssistantToolExecutor, on the context read after the answer.

Permitted(d) ==
  /\ d.tool \in ToolsOfLevel[d.level]
  /\ d.tool = "CREATE_NEXT_ACTION" => d.reason \in {"OPT_OUT", "PAYMENT_QUESTION"}
  /\ d.tool = "GET_CONVERSATION_CONTEXT" => d.reason = "PAYMENT_QUESTION"
  /\ d.tool = "GET_AVAILABLE_SLOTS" => Workflow = "APPOINTMENT_SERVICE"
  /\ d.tool = "CREATE_QUOTE_DRAFT" => Workflow = "QUOTE_JOB"

Validated(d) ==
  IF d.knowledge \notin AllowedTopics \cup {"none"} \/ ~Permitted(d) THEN HandedOff(d) ELSE d

\* execute: the status of the tool's result.
ToolStatus(s, d) ==
  CASE d.tool \in {"GET_BUSINESS_INFO", "GET_CONVERSATION_CONTEXT"} -> "COMPLETED"
    [] d.tool = "GET_SERVICE_INFO" -> IF HasService(s) THEN "COMPLETED" ELSE "BLOCKED"
    [] d.tool = "GET_SERVICE_PRICE" ->
         IF HasService(s) /\ (FixedPrice \/ PriceRange) THEN "COMPLETED" ELSE "BLOCKED"
    [] d.tool = "GET_AVAILABLE_SLOTS" ->
         IF HasService(s) /\ s.memory["preferredDate"] = 1 THEN "COMPLETED" ELSE "BLOCKED"
    [] d.tool = "CREATE_QUOTE_DRAFT" -> IF d.missing = {} THEN "REQUIRES_VALIDATION" ELSE "BLOCKED"
    [] OTHER -> "PROPOSED"

\* getAvailableSlots looks at the appointments only.
AvailableSlots == {slot \in Slots : AppointmentsAt(slot) = {}}

WithToolResult(d, status) ==
  LET askDate == [d EXCEPT !.action = "COLLECT_INFORMATION", !.missing = {"preferredDate"}]
  IN CASE d.tool = "GET_SERVICE_PRICE" /\ status = "BLOCKED" -> HandedOff(d)
       [] d.tool = "GET_AVAILABLE_SLOTS" ->
            IF status = "BLOCKED" \/ AvailableSlots = {} THEN askDate
            ELSE [d EXCEPT !.stage = "APPOINTMENT_PROPOSED", !.action = "OFFER_APPOINTMENT"]
       [] OTHER -> d

CanAutomaticallySend(d, status) ==
  /\ status # "BLOCKED"
  /\ ~d.handoff
  /\ \/ d.level = 2 /\ d.tool = "REQUEST_CUSTOMER_INFORMATION"
     \/ d.level = 1 /\ d.tool \in ToolsOfLevel[1] \ {"CREATE_NEXT_ACTION"}
     \/ d.level = 1 /\ d.tool = "CREATE_NEXT_ACTION" /\ d.reason = "OPT_OUT"

ScenarioForDecision(d) ==
  CASE d.reason = "PRICE_QUESTION" -> "PRICE_INQUIRY"
    [] d.reason = "BOOKING_INTENT" -> "BOOKING_CONFIRMATION"
    [] d.reason = "MISSING_REQUIRED_INFORMATION" -> "MISSING_INFORMATION"
    [] OTHER -> ScenarioOf(d.stage)
=============================================================================
