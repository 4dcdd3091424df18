-------------------------- MODULE DemoConversation --------------------------
(***************************************************************************)
(* The demo's conversation: receiving a customer's message, deciding,      *)
(* handing off or acting, and sending. receiveCustomerMessage awaits the   *)
(* assistant's decision and sendMessage awaits the messaging provider;     *)
(* anything may happen to the opportunity in between. The calls are those  *)
(* that are waiting; the rest of an operation runs in one piece.           *)
(***************************************************************************)
EXTENDS DemoAssistant

CONSTANTS Calls,     \* asynchronous calls
          Messages   \* inbound messages: [id, topic, stop, fact, value, correction]

ASSUME MessageAssumption ==
  \A m \in Messages : /\ m.topic \in Topics
                      /\ m.fact \in Facts \cup {"none"} /\ m.value \in 1 .. 2
                      /\ m.stop \in BOOLEAN /\ m.correction \in BOOLEAN

VARIABLES calls,     \* what each call waits for and what it keeps from before
          received,  \* provider ids of saved inbound messages
          decided    \* decision records per provider id

conversationVars == <<demo, kind, calls, received, decided>>

Ids == {m.id : m \in Messages}
NoCall == [pc |-> "idle"]
Refinable == {"jobDetails"}

InitConversation ==
  /\ InitDemo
  /\ calls = [c \in Calls |-> NoCall]
  /\ received = {}
  /\ decided = [i \in Ids |-> 0]

-----------------------------------------------------------------------------
\* Receiving a message, up to the await of the decision.

Conflicts(s, m) ==
  m.fact # "none" /\ s.memory[m.fact] \notin {0, m.value} /\ ~m.correction /\ m.fact \notin Refinable

\* A fact is captured unless it conflicts; a service of the catalogue is selected for the lead.
Capture(s, m) ==
  IF m.fact = "none" \/ Conflicts(s, m) THEN s
  ELSE [s EXCEPT !.memory[m.fact] = m.value,
                 !.lead.service = @ \/ (m.fact = "service" /\ m.value = 1)]

Heard(s, m) ==
  Capture([StopFollowUps(s) EXCEPT !.conversation.heard = TRUE,
                                   !.marketing = @ /\ ~m.stop], m)

\* Plausible error: a delivery is a duplicate once its decision is recorded.
NotDecided(m) == decided[m.id] = 0

NotReceived(m) == m.id \notin received

\* Another delivery of a message changes nothing: it returns the recorded decision or throws.
Accept(s, c, m) ==
  /\ received' = received \cup {m.id}
  /\ demo' = Heard(s, m)
  /\ calls' = [calls EXCEPT ![c] =
       [pc |-> "deciding", id |-> m.id, before |-> s.conversation.mode,
        decision |-> EngineDecision(Heard(s, m), m, Conflicts(s, m))]]
  /\ UNCHANGED decided

Acceptable(s, m) == s.conversation.mode # "CLOSED" /\ NotReceived(m)

ReceiveCustomerMessage(c, m) ==
  /\ calls[c] = NoCall
  /\ Acceptable(demo, m)
  /\ Accept(demo, c, m)

\* ingestInboundLeadEvent of a lost lead's customer: the lead is reopened before the
\* message is looked up.
IngestReturn(c, m) ==
  /\ calls[c] = NoCall
  /\ demo.lead.status = "LOST"
  /\ IF Acceptable(Reopen(demo), m) THEN Accept(Reopen(demo), c, m)
     ELSE demo' = Reopen(demo) /\ UNCHANGED <<calls, received, decided>>

-----------------------------------------------------------------------------
\* Sending: the conversation is read before the await and saved after it.

MaySend(s, author) ==
  /\ s.conversation.mode # "CLOSED"
  /\ author = "ASSISTANT" => s.conversation.mode = "AI_ACTIVE"

Sending(s, author) == [pc |-> "sending", author |-> author, conversation |-> s.conversation]

SendBusinessMessage(c) ==
  /\ calls[c] = NoCall
  /\ MaySend(demo, "BUSINESS")
  /\ calls' = [calls EXCEPT ![c] = Sending(demo, "BUSINESS")]
  /\ UNCHANGED <<demo, received, decided>>

Sent(c) ==
  /\ calls[c].pc = "sending"
  /\ demo' = [demo EXCEPT !.conversation = calls[c].conversation]
  /\ calls' = [calls EXCEPT ![c] = NoCall]
  /\ UNCHANGED <<received, decided>>

\* The provider rejects, or the page is closed: the promise never continues.
CallLost(c) ==
  /\ calls[c] # NoCall
  /\ calls' = [calls EXCEPT ![c] = NoCall]
  /\ UNCHANGED <<demo, received, decided>>

-----------------------------------------------------------------------------
\* The decision arrives: context, policy and tool are read afresh, the mode is not.

FinalDecision(c) ==
  LET valid == Validated(calls[c].decision)
  IN WithToolResult(valid, ToolStatus(demo, valid))

DecisionStatus(c) == ToolStatus(demo, Validated(calls[c].decision))

Suggested(c) == [demo EXCEPT !.conversation.stage = FinalDecision(c).stage]

\* Nothing is done for a conversation that a human had when the message came.
Acted(c) ==
  LET d == FinalDecision(c)
      next == ReplaceAction(Suggested(c), d.action, "now")
  IN IF calls[c].before = "HUMAN_ACTIVE" THEN Suggested(c)
     ELSE IF d.handoff THEN TakeOver(Suggested(c))
     ELSE IF d.followUp /\ MaySchedule(next, ScenarioForDecision(d))
          THEN Schedule(next, ScenarioForDecision(d)) ELSE next

\* startHumanTakeover of a closed conversation, and a blocked follow-up, throw.
Throws(c) ==
  LET d == FinalDecision(c)
  IN /\ calls[c].before = "AI_ACTIVE"
     /\ IF d.handoff THEN demo.conversation.mode = "CLOSED"
        ELSE /\ d.followUp /\ ScenarioForDecision(d) # "none"
             /\ ~MaySchedule(ReplaceAction(Suggested(c), d.action, "now"), ScenarioForDecision(d))

DecideThrows(c) ==
  /\ calls[c].pc = "deciding"
  /\ Throws(c)
  /\ demo' = IF FinalDecision(c).handoff THEN Suggested(c) ELSE Acted(c)
  /\ calls' = [calls EXCEPT ![c] = NoCall]
  /\ UNCHANGED <<received, decided>>

RepliesByItself(c) ==
  /\ calls[c].before = "AI_ACTIVE"
  /\ FinalDecision(c).level <= 2
  /\ CanAutomaticallySend(FinalDecision(c), DecisionStatus(c))

Decide(c) ==
  /\ calls[c].pc = "deciding"
  /\ ~Throws(c)
  /\ demo' = Acted(c)
  /\ decided' = [decided EXCEPT ![calls[c].id] = @ + 1]
  /\ calls' = [calls EXCEPT ![c] = IF RepliesByItself(c) /\ MaySend(Acted(c), "ASSISTANT")
                                   THEN Sending(Acted(c), "ASSISTANT") ELSE NoCall]
  /\ UNCHANGED received

NextCalls ==
  \E c \in Calls :
    \/ \E m \in Messages : ReceiveCustomerMessage(c, m) \/ IngestReturn(c, m)
    \/ SendBusinessMessage(c)
    \/ Sent(c)
    \/ CallLost(c)
    \/ Decide(c)
    \/ DecideThrows(c)

\* The owner's operations, of which none awaits, and the calls.
OwnerOperation ==
  NextOpportunity \/ NextTakeover \/ NextCustomer \/ NextFollowUps
  \/ NextAppointments \/ NextQuotes \/ NextPayments

NextDemo ==
  \/ OwnerOperation /\ UNCHANGED <<kind, calls, received, decided>>
  \/ NextCalls /\ UNCHANGED kind

DemoSpec == InitConversation /\ [][NextDemo]_conversationVars

-----------------------------------------------------------------------------
\* Properties.

\* Typing: what the operations write stays in the enumerations of the code, a follow-up never
\* has more attempts than its cadence configures, and an inbound message is decided at most
\* once, however often it is delivered while its decision is awaited.
DemoTypeOK ==
  /\ demo.lead.status \in {"NEW", "ACTIVE", "WON", "LOST"}
  /\ demo.lead.reason \in LostReasons \cup {"none"}
  /\ demo.lead.action.type \in ActionTypes \cup {"none"}
  /\ demo.conversation.mode \in {"AI_ACTIVE", "HUMAN_ACTIVE", "CLOSED"}
  /\ demo.conversation.stage \in Stages
  /\ demo.conversation.action \in ActionTypes \cup {"none"}
  /\ {demo.openHandoff, demo.conversation.handoff} \subseteq 0 .. demo.handoffs
  /\ demo.memory \in [Facts -> 0 .. 2]
  /\ \A x \in Scenarios : demo.followUps[x] \in 0 .. Max({1, Cadence[x]})
  /\ decided \in [Ids -> 0 .. 1]
  /\ \A c \in Calls : calls[c].pc = "deciding" => calls[c].decision \in Decisions

\* An opportunity that is open always has a next action: every path that takes the action
\* away closes the opportunity, and every path that opens it again brings one.
ActiveLeadHasNextAction == demo.lead.status \in {"NEW", "ACTIVE"} => demo.lead.action # NoAction

\* Appointments and jobs that were ever booked.
Work ==
  {[type |-> "APPOINTMENT", id |-> a, status |-> demo.appointments[a].status] :
     a \in {b \in Appointments : demo.appointments[b].status # "NONE"}}
  \cup {[type |-> "JOB", id |-> q, status |-> demo.jobs[q].status] :
          q \in {r \in Quotes : demo.jobs[r].status # "NONE"}}

\* An opportunity with one piece of work is won only when that work is completed. It is also paid
\* in full while its conversation is closed, because a refund opens it again: not so once a send
\* that ended after the win has opened the conversation (WonIsPaid). Of two pieces of work the
\* journey looks at the newest.
WonMeansDoneAndPaid ==
  demo.lead.status = "WON" /\ Cardinality(Work) = 1 =>
    \A w \in Work :
      /\ w.status = "COMPLETED"
      /\ demo.conversation.mode = "CLOSED" => Collected(demo, w.type, w.id) = Price[w.id]

\* A conversation is closed only with its opportunity, and nothing is scheduled in it, whatever
\* was waiting when it was closed. A send that ends later opens the conversation again.
ClosedIsSilent ==
  demo.conversation.mode = "CLOSED" =>
    /\ demo.lead.status \in {"WON", "LOST"}
    /\ \A x \in Scenarios : demo.followUps[x] = 0

\* Payments and refunds of an appointment, a quote or a job never add up to less than nothing
\* or to more than its total.
CollectedWithinTotal ==
  \A reference \in Payable :
    Collected(demo, reference.type, reference.id) \in 0 .. Price[reference.id]

TakeoverEnds == demo.conversation.mode = "HUMAN_ACTIVE" /\ demo'.conversation.mode = "AI_ACTIVE"
LostIsReopened == demo.lead.status = "LOST" /\ demo'.lead.status # "LOST"

\* A conversation that a person has goes back to the assistant when the owner resumes it, with a
\* lost opportunity that is reopened, or, unintended, by a send that saves the conversation it
\* read before the takeover. Nothing else ends a takeover: no message, no decision that was
\* awaited, no booking, payment, refund or journey.
TakeoversEndByResumeOrSave ==
  [][TakeoverEnds =>
       \/ ResumeAssistant
       \/ LostIsReopened
       \/ \E c \in Calls : Sent(c) /\ calls[c].conversation.mode = "AI_ACTIVE"]_conversationVars

\* docs/DOMAIN_RULES.md:17: a human takeover "disables automated sending". A decision that asks
\* for a human while the assistant has the conversation takes it from the assistant.
HandoffsPauseTheAssistant ==
  [][\A c \in Calls :
       Decide(c) /\ calls[c].before = "AI_ACTIVE" /\ FinalDecision(c).handoff =>
         demo'.conversation.mode = "HUMAN_ACTIVE"]_conversationVars

\* docs/DOMAIN_RULES.md:17: "Resume AI is explicit and never automatic."
ResumeIsExplicit == [][TakeoverEnds => ResumeAssistant \/ LostIsReopened]_conversationVars

\* docs/DOMAIN_RULES.md:31: "An opportunity closes won only when completed and fully paid", and
\* :35, "a won opportunity remains closed unless a validated refund recreates a real balance".
WonIsPaid ==
  demo.lead.status = "WON" /\ Cardinality(Work) = 1 =>
    \A w \in Work : Collected(demo, w.type, w.id) = Price[w.id]
=============================================================================
