----------------------------- MODULE DemoProofs -----------------------------
(***************************************************************************)
(* Proofs about the demo, for any appointments, quotes, prices, cadences,  *)
(* required facts, messages and calls. Operations are compositions of      *)
(* operators on the opportunity's part of the database, so the invariant   *)
(* is a predicate on such a part, and each operator is shown to keep it.   *)
(***************************************************************************)
EXTENDS MCDemo, DemoLedgerProofs, TLAPS

-----------------------------------------------------------------------------
(* What the operations keep of the opportunity's part of the database.     *)

Statuses == {"NEW", "ACTIVE", "WON", "LOST"}
NextActions == ActionTypes \cup {"none"}
Limit(x) == Max({1, Cadence[x]})

Leads(action) ==
  [status : Statuses, reason : LostReasons \cup {"none"}, service : BOOLEAN, action : {action}]

Conversations ==
  [mode : {"AI_ACTIVE", "HUMAN_ACTIVE", "CLOSED"}, stage : Stages, complete : BOOLEAN,
   action : NextActions, handoff : Nat, heard : BOOLEAN]

\* The rows that operations on the opportunity write; those of the work and of the money are only
\* passed on here.
Parts(s) ==
  [lead : Leads(s.lead.action), conversation : Conversations, marketing : BOOLEAN,
   openHandoff : Nat, handoffs : Nat, followUps : [Scenarios -> Nat], memory : [Facts -> 0 .. 2],
   appointments : {s.appointments}, quotes : {s.quotes}, jobs : {s.jobs}, recent : {s.recent},
   payments : {s.payments}, verified : {s.verified}]

Shaped(s) ==
  /\ s \in Parts(s)
  /\ s.lead.action.type \in NextActions
  /\ s.openHandoff <= s.handoffs /\ s.conversation.handoff <= s.handoffs
  /\ \A x \in Scenarios : s.followUps[x] <= Limit(x)
  /\ Ledgered(s.payments)

HasAction(s) == s.lead.status \in {"NEW", "ACTIVE"} => s.lead.action.type # "none"

Silent(s) ==
  s.conversation.mode = "CLOSED" =>
    s.lead.status \in {"WON", "LOST"} /\ \A x \in Scenarios : s.followUps[x] = 0

Sound(s) == Shaped(s) /\ HasAction(s) /\ Silent(s)

-----------------------------------------------------------------------------
(* Operators of the library, and rules.                                    *)

LEMMA LimitIsLarger ==
  ASSUME NEW x \in Scenarios
  PROVE  Limit(x) \in Nat /\ Limit(x) >= 1 /\ Limit(x) >= Cadence[x] /\ Cadence[x] \in Nat
<1>1. Cadence[x] \in Nat
  BY CadenceAssumption
<1>2. \E m \in {1, Cadence[x]} : \A n \in {1, Cadence[x]} : m >= n
  BY <1>1
<1> QED
  BY <1>1, <1>2 DEF Limit, Max

\* The first rule that holds decides, if there is one for the rest.
LEMMA FirstRuleDecides ==
  ASSUME NEW rules, NEW n \in Nat, Len(rules) = n, n > 0, rules[n][1]
  PROVE  \E i \in 1 .. n : /\ FirstRule(rules) = rules[i][2]
                           /\ rules[i][1]
                           /\ \A j \in 1 .. n : rules[j][1] => i <= j
<1> DEFINE I == {i \in 1 .. Len(rules) : rules[i][1]}
<1>1. I \in SUBSET Nat /\ n \in I
  OBVIOUS
<1>2. SelectInSeq(rules, LAMBDA rule : rule[1]) = Min(I)
  BY <1>1 DEF SelectInSeq
<1>3. Min(I) \in I /\ \A j \in I : Min(I) <= j
  BY <1>1, LeastIndex
<1> QED
  BY <1>2, <1>3 DEF FirstRule

\* What the rules have in common is true of the first that holds.
LEMMA FirstRuleHas ==
  ASSUME NEW rules, NEW n \in Nat, Len(rules) = n, n > 0, rules[n][1],
         NEW V, \A i \in 1 .. n : rules[i][2] \in V
  PROVE  FirstRule(rules) \in V
BY FirstRuleDecides

LEMMA ScenarioOfStage == ASSUME NEW stage PROVE ScenarioOf(stage) \in Scenarios \cup {"none"}
<1>1. CASE stage = "QUOTE_SENT"
  BY <1>1 DEF ScenarioOf, Scenarios
<1>2. CASE stage = "AWAITING_DEPOSIT"
  BY <1>2 DEF ScenarioOf, Scenarios
<1>3. CASE stage = "AWAITING_BALANCE"
  BY <1>3 DEF ScenarioOf, Scenarios
<1>4. CASE stage = "AWAITING_CONFIRMATION"
  BY <1>4 DEF ScenarioOf, Scenarios
<1>5. CASE stage = "INFORMATION_COLLECTION"
  BY <1>5 DEF ScenarioOf, Scenarios
<1>6. CASE stage \notin {"QUOTE_SENT", "AWAITING_DEPOSIT", "AWAITING_BALANCE", "AWAITING_CONFIRMATION",
                         "INFORMATION_COLLECTION"}
  <2>1. /\ stage # "QUOTE_SENT" /\ stage # "AWAITING_DEPOSIT" /\ stage # "AWAITING_BALANCE"
        /\ stage # "AWAITING_CONFIRMATION" /\ stage # "INFORMATION_COLLECTION"
    BY <1>6
  <2> QED
    BY <2>1, Zenon DEF ScenarioOf
<1> QED
  BY <1>1, <1>2, <1>3, <1>4, <1>5, <1>6

LEMMA ActionForStageIsAction == ASSUME NEW stage PROVE ActionForStage(stage) \in ActionTypes
<1>1. CASE stage \in {"AWAITING_BALANCE", "AWAITING_DEPOSIT", "QUOTE_SENT", "READY_FOR_QUOTE",
                      "READY_TO_BOOK", "AWAITING_CONFIRMATION"}
  BY <1>1 DEF ActionForStage, ActionTypes
<1>2. CASE stage \notin {"AWAITING_BALANCE", "AWAITING_DEPOSIT", "QUOTE_SENT", "READY_FOR_QUOTE",
                         "READY_TO_BOOK", "AWAITING_CONFIRMATION"}
  <2>1. /\ stage # "AWAITING_BALANCE" /\ stage # "AWAITING_DEPOSIT" /\ stage # "QUOTE_SENT"
        /\ stage # "READY_FOR_QUOTE" /\ stage # "READY_TO_BOOK" /\ stage # "AWAITING_CONFIRMATION"
    BY <1>2
  <2>2. ActionForStage(stage) = "REPLY_TO_CUSTOMER"
    BY <2>1, Zenon DEF ActionForStage
  <2> QED
    BY <2>2 DEF ActionTypes
<1> QED
  BY <1>1, <1>2

-----------------------------------------------------------------------------
(* What the journey service and the assistant infer.                       *)

LEMMA InferredStages == ASSUME NEW s PROVE InferredStage(s) \in Stages
<1>1. ASSUME NEW appointment, NEW job, NEW quote, NEW owed
      PROVE  StageFrom(s, appointment, job, quote, owed) \in Stages
  <2> DEFINE rules == <<
    <<s.conversation.mode = "HUMAN_ACTIVE", "HUMAN_REVIEW">>,
    <<s.lead.status = "WON", "CLOSED_WON">>,
    <<s.lead.status = "LOST", "CLOSED_LOST">>,
    <<"COMPLETED" = IF appointment # "none" THEN s.appointments[appointment].status
                    ELSE StatusOf(s.jobs, job),
      IF owed > 0 THEN "AWAITING_BALANCE" ELSE "CLOSED_WON">>,
    <<appointment # "none" /\ Price[appointment] - owed < Deposit[appointment], "AWAITING_DEPOSIT">>,
    <<StatusOf(s.appointments, appointment) = "CONFIRMED", "BOOKED">>,
    <<appointment # "none", "AWAITING_CONFIRMATION">>,
    <<StatusOf(s.jobs, job) = "PENDING_DEPOSIT", "AWAITING_DEPOSIT">>,
    <<StatusOf(s.jobs, job) = "SCHEDULED", "JOB_SCHEDULED">>,
    <<job # "none", "BOOKED">>,
    <<quote = "SENT", "QUOTE_SENT">>,
    <<quote = "DRAFT", "QUOTE_PREPARATION">>,
    <<MissingFacts(s) = {} /\ RequiredFacts # {},
      IF Workflow = "APPOINTMENT_SERVICE" THEN "READY_TO_BOOK" ELSE "READY_FOR_QUOTE">>,
    <<\E f \in Facts : s.memory[f] # 0, "INFORMATION_COLLECTION">>,
    <<(\E x \in Scenarios : s.followUps[x] > 0) \/ s.conversation.heard, "DISCOVERY">>,
    <<TRUE, "NEW_INQUIRY">> >>
  <2>1. StageFrom(s, appointment, job, quote, owed) = FirstRule(rules)
    BY DEF StageFrom
  <2>2. Len(rules) = 16 /\ rules[16][1]
    OBVIOUS
  <2>3. \A i \in 1 .. 16 : rules[i][2] \in Stages
    BY DEF Stages
  <2> HIDE DEF rules
  <2>4. 16 \in Nat /\ 16 > 0
    OBVIOUS
  <2>5. FirstRule(rules) \in Stages
    BY <2>2, <2>3, <2>4, FirstRuleHas, Zenon
  <2> QED
    BY <2>1, <2>5
<1> QED
  BY <1>1 DEF InferredStage

\* What the journey makes of the work; an opportunity that is neither won nor settled is not closed
\* by it.
LEMMA JourneyStages ==
  ASSUME NEW s, s.conversation.stage \in Stages, NEW c
  PROVE  /\ JourneyStage(s, c) \in Stages
         /\ ~SettledInFull(c) /\ s.lead.status # "WON" /\ s.conversation.stage # "CLOSED_WON" =>
              JourneyStage(s, c) # "CLOSED_WON"
<1> DEFINE rules == <<
       <<s.conversation.mode = "HUMAN_ACTIVE", "HUMAN_REVIEW">>,
       <<s.lead.status = "LOST", "CLOSED_LOST">>,
       <<SettledInFull(c), "CLOSED_WON">>,
       <<c.completed, "AWAITING_BALANCE">>,
       <<c.job = "PENDING_DEPOSIT", "AWAITING_DEPOSIT">>,
       <<c.job # "NONE" /\ c.collected < c.jobDeposit, "AWAITING_DEPOSIT">>,
       <<c.job = "SCHEDULED", "JOB_SCHEDULED">>,
       <<c.job # "NONE", "BOOKED">>,
       <<c.appointment # "NONE" /\ c.collected < c.appointmentDeposit, "AWAITING_DEPOSIT">>,
       <<c.appointment = "CONFIRMED", "BOOKED">>,
       <<c.appointment # "NONE", "AWAITING_CONFIRMATION">>,
       <<c.quote = "DRAFT", "QUOTE_PREPARATION">>,
       <<c.quote = "SENT", "QUOTE_SENT">>,
       <<s.lead.status = "WON", "CLOSED_WON">>,
       <<TRUE, s.conversation.stage>> >>
<1>1. JourneyStage(s, c) = FirstRule(rules)
  BY DEF JourneyStage
<1>2. Len(rules) = 15 /\ rules[15][1] /\ 15 \in Nat /\ 15 > 0
  OBVIOUS
<1>3. \A i \in 1 .. 15 : rules[i][2] \in Stages
  BY DEF Stages
<1>4. /\ rules[3][1] => SettledInFull(c)
      /\ rules[14][1] => s.lead.status = "WON"
      /\ rules[15][2] = s.conversation.stage
  OBVIOUS
<1>5. \A i \in (1 .. 15) \ {3, 14, 15} : rules[i][2] # "CLOSED_WON"
  OBVIOUS
<1> HIDE DEF rules
<1>6. PICK i \in 1 .. 15 : FirstRule(rules) = rules[i][2] /\ rules[i][1]
  BY <1>2, FirstRuleDecides, Zenon
<1>7. JourneyStage(s, c) \in Stages
  BY <1>1, <1>3, <1>6
<1>8. ASSUME ~SettledInFull(c), s.lead.status # "WON", s.conversation.stage # "CLOSED_WON"
      PROVE  JourneyStage(s, c) # "CLOSED_WON"
  <2>1. i # 3 /\ i # 14
    BY <1>4, <1>6, <1>8, Zenon
  <2>2. CASE i = 15
    BY <1>1, <1>4, <1>6, <1>8, <2>2, Zenon
  <2>3. CASE i # 15
    <3>1. i \in (1 .. 15) \ {3, 14, 15}
      BY <2>1, <2>3
    <3> QED
      BY <1>1, <1>5, <1>6, <3>1, Zenon
  <2> QED
    BY <2>2, <2>3
<1> QED
  BY <1>7, <1>8

NextOf(c) == [type : ActionTypes, due : {"none", c.slot, c.quoteId}]

\* Nothing is recommended for what is lost or closed as won, and only for that.
LEMMA JourneyActions ==
  ASSUME NEW s, NEW c, NEW stage
  PROVE  /\ JourneyAction(s, c, stage) \in NextOf(c) \cup {NoAction}
         /\ ~(s.lead.status = "LOST" \/ stage = "CLOSED_WON") => JourneyAction(s, c, stage) \in NextOf(c)
<1> DEFINE rules == <<
       <<s.lead.status = "LOST" \/ stage = "CLOSED_WON", NoAction>>,
       <<s.conversation.mode = "HUMAN_ACTIVE", Recommended("HUMAN_REVIEW", "none")>>,
       <<stage = "AWAITING_BALANCE", Recommended("COLLECT_BALANCE", "none")>>,
       <<c.job # "NONE" /\ c.collected < c.jobDeposit, Recommended("REQUEST_DEPOSIT", "none")>>,
       <<c.job \in {"READY_TO_SCHEDULE", "PENDING_DEPOSIT"}, Recommended("SCHEDULE_JOB", "none")>>,
       <<c.job = "SCHEDULED", Recommended("SERVICE_SCHEDULED", "none")>>,
       <<c.appointment # "NONE" /\ c.collected < c.appointmentDeposit,
         Recommended("REQUEST_DEPOSIT", "none")>>,
       <<c.appointment = "TENTATIVE", Recommended("CONFIRM_APPOINTMENT", "none")>>,
       <<c.appointment = "CONFIRMED", Recommended("SERVICE_SCHEDULED", c.slot)>>,
       <<c.quote = "DRAFT", Recommended("SEND_QUOTE", "none")>>,
       <<c.quote = "SENT", Recommended("FOLLOW_UP_QUOTE", c.quoteId)>>,
       <<stage = "READY_TO_BOOK", Recommended("OFFER_APPOINTMENT", "none")>>,
       <<stage = "READY_FOR_QUOTE", Recommended("PREPARE_QUOTE", "none")>>,
       <<stage = "INFORMATION_COLLECTION", Recommended("COLLECT_INFORMATION", "none")>>,
       <<stage \in {"NEW_INQUIRY", "DISCOVERY"}, Recommended("REPLY_TO_CUSTOMER", "none")>>,
       <<Workflow = "APPOINTMENT_SERVICE", Recommended("OFFER_APPOINTMENT", "none")>>,
       <<TRUE, Recommended("PREPARE_QUOTE", "none")>> >>
<1>1. JourneyAction(s, c, stage) = FirstRule(rules)
  BY DEF JourneyAction
<1>2. Len(rules) = 17 /\ rules[17][1] /\ 17 \in Nat /\ 17 > 0
  OBVIOUS
<1>3. \A i \in 2 .. 17 : rules[i][2] \in NextOf(c)
  BY DEF NextOf, Recommended, ActionTypes
<1>4. rules[1][2] = NoAction /\ (rules[1][1] => s.lead.status = "LOST" \/ stage = "CLOSED_WON")
  OBVIOUS
<1> HIDE DEF rules
<1>5. PICK i \in 1 .. 17 : FirstRule(rules) = rules[i][2] /\ rules[i][1]
  BY <1>2, FirstRuleDecides, Zenon
<1>6. CASE i = 1
  BY <1>1, <1>4, <1>5, <1>6, Zenon
<1>7. CASE i # 1
  <2>1. i \in 2 .. 17
    BY <1>7
  <2> QED
    BY <1>1, <1>3, <1>5, <2>1, Zenon
<1> QED
  BY <1>6, <1>7

-----------------------------------------------------------------------------
(* What the operators on the database do to its parts.                     *)

LEMMA ActionReplaced ==
  ASSUME NEW s, Shaped(s), NEW type \in ActionTypes, NEW due
  PROVE  LET r == ReplaceAction(s, type, due)
         IN  /\ Shaped(r)
             /\ r.lead.action.type = type
             /\ r.lead.status = s.lead.status
             /\ r.conversation.mode = s.conversation.mode
             /\ r.conversation.stage = s.conversation.stage
             /\ r.followUps = s.followUps
             /\ r.handoffs = s.handoffs
<1>1. CASE due # "now" /\ s.lead.action = [type |-> type, due |-> due]
  BY <1>1 DEF ReplaceAction
<1>2. CASE ~(due # "now" /\ s.lead.action = [type |-> type, due |-> due])
  <2> DEFINE r == [s EXCEPT !.lead.action = [type |-> type, due |-> due], !.conversation.action = type]
  <2>1. r = ReplaceAction(s, type, due)
    BY <1>2 DEF ReplaceAction
  <2>2. s \in Parts(s)
    BY DEF Shaped
  <2>3. /\ r \in Parts(r)
        /\ r.lead.action = [type |-> type, due |-> due]
        /\ r.lead.status = s.lead.status
        /\ r.conversation.mode = s.conversation.mode
        /\ r.conversation.stage = s.conversation.stage
        /\ r.conversation.handoff = s.conversation.handoff
        /\ r.followUps = s.followUps /\ r.handoffs = s.handoffs /\ r.openHandoff = s.openHandoff
        /\ r.payments = s.payments
    BY <2>2 DEF Parts, Leads, Conversations, NextActions
  <2> HIDE DEF r
  <2> QED
    BY <2>1, <2>3 DEF Shaped, NextActions
<1> QED
  BY <1>1, <1>2

LEMMA ActionsCleared ==
  ASSUME NEW s, Shaped(s)
  PROVE  LET r == ClearActions(s)
         IN  /\ Shaped(r)
             /\ r.lead.status = s.lead.status
             /\ r.conversation.mode = s.conversation.mode
             /\ r.followUps = s.followUps
             /\ r.handoffs = s.handoffs
<1> DEFINE r == [s EXCEPT !.lead.action = NoAction, !.conversation.action = "none"]
<1>1. r = ClearActions(s) /\ s \in Parts(s)
  BY DEF ClearActions, Shaped
<1>2. /\ r \in Parts(r)
      /\ r.lead.action.type = "none"
      /\ r.lead.status = s.lead.status
      /\ r.conversation.mode = s.conversation.mode
      /\ r.conversation.handoff = s.conversation.handoff
      /\ r.followUps = s.followUps /\ r.handoffs = s.handoffs /\ r.openHandoff = s.openHandoff
      /\ r.payments = s.payments
  BY <1>1 DEF Parts, Leads, Conversations, NextActions, NoAction
<1> HIDE DEF r
<1> QED
  BY <1>1, <1>2 DEF Shaped, NextActions

LEMMA FollowUpsStopped ==
  ASSUME NEW s, Shaped(s)
  PROVE  LET r == StopFollowUps(s)
         IN  /\ Shaped(r)
             /\ \A x \in Scenarios : r.followUps[x] = 0
             /\ r.lead = s.lead /\ r.conversation = s.conversation
             /\ r.handoffs = s.handoffs
<1> DEFINE none == [x \in Scenarios |-> 0]
           r == [s EXCEPT !.followUps = none]
<1>1. r = StopFollowUps(s) /\ s \in Parts(s)
  BY DEF StopFollowUps, Shaped
<1>2. none \in [Scenarios -> Nat] /\ \A x \in Scenarios : none[x] = 0
  OBVIOUS
<1> HIDE DEF none
<1>3. /\ r \in Parts(r) /\ r.followUps = none
      /\ r.lead = s.lead /\ r.conversation = s.conversation
      /\ r.handoffs = s.handoffs /\ r.openHandoff = s.openHandoff
      /\ r.payments = s.payments
  BY <1>1, <1>2 DEF Parts
<1> HIDE DEF r
<1> QED
  BY <1>1, <1>2, <1>3, LimitIsLarger DEF Shaped

LEMMA Scheduled ==
  ASSUME NEW s, Shaped(s), NEW x \in Scenarios
  PROVE  LET r == Schedule(s, x)
         IN  /\ Shaped(r)
             /\ r.lead = s.lead /\ r.conversation = s.conversation
             /\ r.handoffs = s.handoffs
<1>1. CASE s.followUps[x] > 0
  BY <1>1 DEF Schedule
<1>2. CASE ~(s.followUps[x] > 0)
  <2> DEFINE more == [s.followUps EXCEPT ![x] = 1]
             r == [s EXCEPT !.followUps = more]
  <2>1. s \in Parts(s)
    BY DEF Shaped
  <2>2. s.followUps \in [Scenarios -> Nat]
    BY <2>1 DEF Parts
  <2>3. more \in [Scenarios -> Nat] /\ \A y \in Scenarios : more[y] = IF y = x THEN 1 ELSE s.followUps[y]
    BY <2>2
  <2>4. r = Schedule(s, x)
    BY <1>2, <2>1 DEF Schedule, Parts
  <2> HIDE DEF more
  <2>5. /\ r \in Parts(r) /\ r.followUps = more
        /\ r.lead = s.lead /\ r.conversation = s.conversation
        /\ r.handoffs = s.handoffs /\ r.openHandoff = s.openHandoff
        /\ r.payments = s.payments
    BY <2>1, <2>3 DEF Parts
  <2> HIDE DEF r
  <2>6. \A y \in Scenarios : r.followUps[y] <= Limit(y)
    BY <2>3, <2>5, LimitIsLarger DEF Shaped
  <2> QED
    BY <2>4, <2>5, <2>6 DEF Shaped
<1> QED
  BY <1>1, <1>2

\* A follow-up is scheduled in a conversation that the assistant has.
LEMMA ScheduledSoundly ==
  ASSUME NEW s, Shaped(s), Silent(s), NEW x \in Scenarios, s.conversation.mode = "AI_ACTIVE"
  PROVE  LET r == Schedule(s, x)
         IN  /\ Shaped(r) /\ Silent(r)
             /\ r.lead = s.lead /\ r.conversation = s.conversation /\ r.handoffs = s.handoffs
BY Scheduled DEF Silent

LEMMA FollowUpTried ==
  ASSUME NEW s, Shaped(s), Silent(s), NEW stage
  PROVE  LET r == TryFollowUp(s, stage)
         IN  /\ Shaped(r) /\ Silent(r)
             /\ r.lead = s.lead /\ r.conversation = s.conversation /\ r.handoffs = s.handoffs
<1>1. CASE MaySchedule(s, ScenarioOf(stage))
  <2>1. ScenarioOf(stage) \in Scenarios /\ s.conversation.mode = "AI_ACTIVE"
    BY <1>1, ScenarioOfStage DEF MaySchedule, Unblocked
  <2> QED
    BY <1>1, <2>1, ScheduledSoundly DEF TryFollowUp
<1>2. CASE ~MaySchedule(s, ScenarioOf(stage))
  BY <1>2 DEF TryFollowUp
<1> QED
  BY <1>1, <1>2

LEMMA ClosedWon ==
  ASSUME NEW s, Shaped(s), Silent(s)
  PROVE  LET r == CloseWon(s) IN Sound(r) /\ r.handoffs = s.handoffs
<1>1. CASE s.lead.status = "WON"
  BY <1>1 DEF CloseWon, Sound, HasAction
<1>2. CASE s.lead.status # "WON"
  <2> DEFINE t == StopFollowUps(ClearActions(s))
             r == [t EXCEPT !.lead.status = "WON", !.lead.reason = "none",
                            !.conversation.mode = "CLOSED", !.conversation.stage = "CLOSED_WON",
                            !.conversation.complete = TRUE]
  <2>1. r = CloseWon(s)
    BY <1>2 DEF CloseWon
  <2>2. Shaped(t) /\ t.handoffs = s.handoffs /\ \A x \in Scenarios : t.followUps[x] = 0
    BY ActionsCleared, FollowUpsStopped
  <2> HIDE DEF t
  <2>3. t \in Parts(t)
    BY <2>2 DEF Shaped
  <2>4. /\ r \in Parts(r) /\ r.lead.action = t.lead.action /\ r.lead.status = "WON"
        /\ r.conversation.handoff = t.conversation.handoff /\ r.followUps = t.followUps
        /\ r.handoffs = t.handoffs /\ r.openHandoff = t.openHandoff
        /\ r.payments = t.payments
    BY <2>3 DEF Parts, Leads, Conversations, Stages, Statuses
  <2> HIDE DEF r
  <2> QED
    BY <2>1, <2>2, <2>4 DEF Sound, Shaped, HasAction, Silent
<1> QED
  BY <1>1, <1>2

LEMMA ClosedLost ==
  ASSUME NEW s, Sound(s), NEW reason \in LostReasons
  PROVE  LET r == CloseLost(s, reason) IN Sound(r) /\ r.handoffs = s.handoffs
<1>1. CASE s.lead.status \in {"WON", "LOST"}
  BY <1>1 DEF CloseLost
<1>2. CASE s.lead.status \notin {"WON", "LOST"}
  <2> DEFINE t == StopFollowUps(ClearActions(s))
             r == [t EXCEPT !.lead.status = "LOST", !.lead.reason = reason,
                            !.conversation.mode = "CLOSED", !.conversation.stage = "CLOSED_LOST",
                            !.conversation.complete = TRUE]
  <2>1. r = CloseLost(s, reason)
    BY <1>2 DEF CloseLost
  <2>2. Shaped(t) /\ t.handoffs = s.handoffs /\ \A x \in Scenarios : t.followUps[x] = 0
    BY ActionsCleared, FollowUpsStopped DEF Sound
  <2> HIDE DEF t
  <2>3. t \in Parts(t)
    BY <2>2 DEF Shaped
  <2>4. /\ r \in Parts(r) /\ r.lead.action = t.lead.action /\ r.lead.status = "LOST"
        /\ r.conversation.handoff = t.conversation.handoff /\ r.followUps = t.followUps
        /\ r.handoffs = t.handoffs /\ r.openHandoff = t.openHandoff
        /\ r.payments = t.payments
    BY <2>3 DEF Parts, Leads, Conversations, Stages, Statuses
  <2> HIDE DEF r
  <2> QED
    BY <2>1, <2>2, <2>4 DEF Sound, Shaped, HasAction, Silent
<1> QED
  BY <1>1, <1>2

LEMMA Moved ==
  ASSUME NEW s, Shaped(s), Silent(s), NEW stage \in Stages
  PROVE  LET r == MoveTo(s, stage)
         IN  /\ Shaped(r) /\ Silent(r)
             /\ r.lead.action = s.lead.action
             /\ r.lead.status = IF s.lead.status = "NEW" \/ ReopensAfterRefund(s, stage)
                                THEN "ACTIVE" ELSE s.lead.status
             /\ r.handoffs = s.handoffs
<1> DEFINE status == IF s.lead.status = "NEW" \/ ReopensAfterRefund(s, stage) THEN "ACTIVE"
                     ELSE s.lead.status
           mode == IF ReopensAfterRefund(s, stage) THEN "AI_ACTIVE" ELSE s.conversation.mode
           complete == stage \in {"CLOSED_WON", "CLOSED_LOST"}
           t == [s EXCEPT !.lead.status = status, !.conversation.stage = stage,
                          !.conversation.complete = complete, !.conversation.mode = mode]
<1>1. s \in Parts(s)
  BY DEF Shaped
<1>2. status \in Statuses /\ mode \in {"AI_ACTIVE", "HUMAN_ACTIVE", "CLOSED"} /\ complete \in BOOLEAN
  BY <1>1 DEF Parts, Leads, Conversations, Statuses
<1>3. MoveTo(s, stage) = IF ReopensAfterRefund(s, stage) THEN TryFollowUp(t, stage) ELSE t
  BY DEF MoveTo
<1>4. mode = "CLOSED" => status \in {"WON", "LOST"} /\ \A x \in Scenarios : s.followUps[x] = 0
  BY DEF Silent
<1> HIDE DEF mode, complete
<1>5. /\ t \in Parts(t) /\ t.lead.status = status /\ t.lead.action = s.lead.action
      /\ t.conversation.mode = mode /\ t.conversation.handoff = s.conversation.handoff
      /\ t.followUps = s.followUps /\ t.handoffs = s.handoffs /\ t.openHandoff = s.openHandoff
      /\ t.payments = s.payments
  <2> HIDE DEF status
  <2> QED
    BY <1>1, <1>2 DEF Parts, Leads, Conversations, Statuses
<1> HIDE DEF t
<1>6. Shaped(t) /\ Silent(t)
  BY <1>4, <1>5 DEF Shaped, Silent
<1> QED
  BY <1>3, <1>5, <1>6, FollowUpTried

\* Reconciling needs no action of an opportunity that may not be closed by it, and else keeps it.
LEMMA Reconciled ==
  ASSUME NEW s, Shaped(s), Silent(s),
         HasAction(s) \/ (s.lead.status # "WON" /\ s.conversation.stage # "CLOSED_WON")
  PROVE  LET r == Reconcile(s) IN Sound(r) /\ r.handoffs = s.handoffs
<1> DEFINE c == Current(s)
           stage == JourneyStage(s, c)
           action == JourneyAction(s, c, stage)
           moved == MoveTo(s, stage)
<1>1. CASE s.lead.status = "LOST"
  <2> DEFINE r == ClearActions(StopFollowUps(s))
  <2>1. r = Reconcile(s)
    BY <1>1 DEF Reconcile
  <2>2. /\ Shaped(r) /\ r.lead.status = "LOST" /\ r.handoffs = s.handoffs
        /\ \A x \in Scenarios : r.followUps[x] = 0
    BY <1>1, FollowUpsStopped, ActionsCleared
  <2> QED
    BY <2>1, <2>2 DEF Sound, HasAction, Silent
<1>2. CASE s.lead.status # "LOST" /\ SettledInFull(c)
  <2>1. Reconcile(s) = CloseWon(s)
    BY <1>2 DEF Reconcile
  <2> QED
    BY <2>1, ClosedWon
<1>3. CASE s.lead.status # "LOST" /\ ~SettledInFull(c)
  <2>1. Reconcile(s) = FollowAction(moved, action)
    BY <1>3 DEF Reconcile, FollowJourney
  <2>2. s.conversation.stage \in Stages
    BY DEF Shaped, Parts, Conversations
  <2>3. stage \in Stages
    BY <2>2, JourneyStages
  <2>4. /\ action \in NextOf(c) \cup {NoAction}
        /\ stage # "CLOSED_WON" => action \in NextOf(c)
    BY <1>3, JourneyActions
  <2>5. s.lead.status # "WON" /\ s.conversation.stage # "CLOSED_WON" => stage # "CLOSED_WON"
    BY <1>3, <2>2, JourneyStages
  <2> HIDE DEF c, stage
  <2>6. /\ Shaped(moved) /\ Silent(moved)
        /\ moved.lead.action = s.lead.action
        /\ moved.lead.status = IF s.lead.status = "NEW" \/ ReopensAfterRefund(s, stage)
                               THEN "ACTIVE" ELSE s.lead.status
        /\ moved.handoffs = s.handoffs
    BY <2>3, Moved
  <2> HIDE DEF action, moved
  <2>7. CASE action = NoAction
    <3>1. NoAction \notin NextOf(c)
      BY DEF NoAction, NextOf, ActionTypes
    <3>2. stage = "CLOSED_WON"
      BY <2>4, <2>7, <3>1
    <3>3. HasAction(s) /\ ~ReopensAfterRefund(s, stage)
      BY <2>5, <3>2 DEF ReopensAfterRefund
    <3>4. HasAction(moved)
      BY <2>6, <3>3 DEF HasAction
    <3>5. Reconcile(s) = moved
      BY <2>1, <2>7 DEF FollowAction
    <3> QED
      BY <2>6, <3>4, <3>5 DEF Sound
  <2>8. CASE action # NoAction
    <3>1. action.type \in ActionTypes
      BY <2>4, <2>8 DEF NextOf
    <3>2. Reconcile(s) = ReplaceAction(moved, action.type, action.due)
      BY <2>1, <2>8 DEF FollowAction
    <3> DEFINE r == ReplaceAction(moved, action.type, action.due)
    <3>3. /\ Shaped(r) /\ r.lead.action.type = action.type
          /\ r.lead.status = moved.lead.status /\ r.conversation.mode = moved.conversation.mode
          /\ r.followUps = moved.followUps /\ r.handoffs = moved.handoffs
      BY <2>6, <3>1, ActionReplaced
    <3> HIDE DEF r
    <3>4. HasAction(r) /\ Silent(r)
      BY <2>6, <3>1, <3>3 DEF HasAction, Silent, ActionTypes
    <3> QED
      BY <2>6, <3>2, <3>3, <3>4 DEF Sound, r
  <2> QED
    BY <2>7, <2>8
<1> QED
  BY <1>1, <1>2, <1>3

\* An opportunity with an action may be reconciled whatever else an operation wrote.
LEMMA SoundlyReconciled ==
  ASSUME NEW s, Sound(s)
  PROVE  LET r == Reconcile(s) IN Sound(r) /\ r.handoffs = s.handoffs
BY Reconciled DEF Sound

LEMMA ReopenedSoundly ==
  ASSUME NEW s, Sound(s)
  PROVE  LET r == Reopen(s)
         IN  /\ Sound(r) /\ r.handoffs = s.handoffs
             /\ s.lead.status # "LOST" => r = s
<1>1. CASE s.lead.status # "LOST"
  BY <1>1 DEF Reopen
<1>2. CASE s.lead.status = "LOST"
  <2> DEFINE r == Reopened(s)
  <2>1. s \in Parts(s)
    BY DEF Sound, Shaped
  <2>2. /\ r \in Parts(r) /\ r.lead.action = s.lead.action /\ r.lead.status = "ACTIVE"
        /\ r.conversation.mode = "AI_ACTIVE" /\ r.conversation.stage = "DISCOVERY"
        /\ r.conversation.handoff = s.conversation.handoff
        /\ r.followUps = s.followUps /\ r.handoffs = s.handoffs /\ r.openHandoff = s.openHandoff
        /\ r.payments = s.payments
    BY <2>1 DEF Reopened, Parts, Leads, Conversations, Stages, Statuses
  <2> HIDE DEF r
  <2>3. Shaped(r) /\ Silent(r)
    BY <2>2 DEF Sound, Shaped, Silent
  <2>4. Sound(Reconcile(r)) /\ Reconcile(r).handoffs = r.handoffs
    BY <2>2, <2>3, Reconciled
  <2> QED
    BY <1>2, <2>2, <2>4 DEF Reopen, r
<1> QED
  BY <1>1, <1>2

\* A takeover of a conversation that is not closed, or one that is under way.
LEMMA TakenOver ==
  ASSUME NEW s, Sound(s), s.conversation.mode # "CLOSED"
  PROVE  LET r == TakeOver(s)
         IN  Sound(r) /\ r.handoffs >= s.handoffs /\ r.conversation.mode # "CLOSED"
<1>1. s \in Parts(s) /\ s.handoffs \in Nat
  BY DEF Sound, Shaped, Parts
<1>2. CASE s.openHandoff # 0
  BY <1>1, <1>2 DEF TakeOver
<1>3. CASE s.openHandoff = 0
  <2> DEFINE next == s.handoffs + 1
             t == [s EXCEPT !.handoffs = next, !.openHandoff = next,
                            !.conversation.mode = "HUMAN_ACTIVE", !.conversation.stage = "HUMAN_REVIEW",
                            !.conversation.handoff = next]
             u == ReplaceAction(t, "HUMAN_REVIEW", "now")
             r == StopFollowUps(u)
  <2>1. TakeOver(s) = r
    BY <1>3 DEF TakeOver
  <2> next \in Nat /\ next > s.handoffs
    BY <1>1
  <2> HIDE DEF next
  <2>2. /\ t \in Parts(t) /\ t.lead = s.lead
        /\ t.conversation.mode = "HUMAN_ACTIVE" /\ t.conversation.handoff = next
        /\ t.followUps = s.followUps /\ t.handoffs = next /\ t.openHandoff = next
        /\ t.payments = s.payments
    BY <1>1 DEF Parts, Leads, Conversations, Stages
  <2> HIDE DEF t
  <2>3. Shaped(t)
    BY <1>1, <2>2 DEF Sound, Shaped
  <2>4. "HUMAN_REVIEW" \in ActionTypes
    BY DEF ActionTypes
  <2>5. /\ Shaped(u) /\ u.lead.action.type = "HUMAN_REVIEW" /\ u.handoffs = t.handoffs
        /\ u.conversation.mode = t.conversation.mode
    BY <2>3, <2>4, ActionReplaced
  <2> HIDE DEF u
  <2>6. Shaped(r) /\ r.lead = u.lead /\ r.conversation = u.conversation /\ r.handoffs = u.handoffs
    BY <2>5, FollowUpsStopped
  <2> HIDE DEF r
  <2> QED
    BY <1>1, <2>1, <2>2, <2>5, <2>6 DEF Sound, HasAction, Silent
<1> QED
  BY <1>2, <1>3

LEMMA ResumedSoundly ==
  ASSUME NEW s, Sound(s)
  PROVE  LET r == Resume(s) IN Sound(r) /\ r.handoffs = s.handoffs
<1> DEFINE open == IF s.openHandoff = s.conversation.handoff THEN 0 ELSE s.openHandoff
           stage == InferredStage(Resumed(s))
           t == [s EXCEPT !.openHandoff = open, !.conversation.mode = "AI_ACTIVE",
                          !.conversation.handoff = 0, !.conversation.stage = stage]
           type == ActionForStage(stage)
           u == ReplaceAction(t, type, "now")
<1>1. s \in Parts(s) /\ s.handoffs \in Nat /\ s.openHandoff \in Nat
  BY DEF Sound, Shaped, Parts
<1>2. open \in Nat /\ open <= s.handoffs
  BY <1>1 DEF Sound, Shaped
<1>3. stage \in Stages /\ type \in ActionTypes
  BY InferredStages, ActionForStageIsAction
<1>4. Resume(s) = Reconcile(u)
  <2>1. t = [Resumed(s) EXCEPT !.conversation.stage = stage]
    <3> HIDE DEF stage
    <3> QED
      BY <1>1 DEF Resumed, Parts, Conversations
  <2> QED
    BY <2>1 DEF Resume
<1> HIDE DEF open, stage
<1>5. /\ t \in Parts(t) /\ t.lead = s.lead /\ t.conversation.mode = "AI_ACTIVE"
      /\ t.conversation.handoff = 0 /\ t.followUps = s.followUps
      /\ t.handoffs = s.handoffs /\ t.openHandoff = open
      /\ t.payments = s.payments
  BY <1>1, <1>2, <1>3 DEF Parts, Leads, Conversations, Stages
<1> HIDE DEF t
<1>6. Shaped(t)
  BY <1>1, <1>2, <1>5 DEF Sound, Shaped
<1> HIDE DEF type
<1>7. /\ Shaped(u) /\ u.lead.action.type = type /\ u.handoffs = t.handoffs
      /\ u.conversation.mode = "AI_ACTIVE"
  BY <1>3, <1>5, <1>6, ActionReplaced
<1> HIDE DEF u
<1>8. Sound(u)
  BY <1>3, <1>7 DEF Sound, HasAction, Silent, ActionTypes
<1> QED
  BY <1>4, <1>5, <1>7, <1>8, SoundlyReconciled

LEMMA ReactivatedSoundly ==
  ASSUME NEW s, Sound(s)
  PROVE  LET r == Reactivated(s) IN Sound(r) /\ r.handoffs = s.handoffs
<1>1. CASE MaySchedule(s, "REACTIVATION")
  <2> DEFINE t == Schedule(s, "REACTIVATION")
             r == ReplaceAction(t, "FUTURE_REACTIVATION", "now")
  <2>1. Reactivated(s) = r
    BY <1>1 DEF Reactivated
  <2>2. /\ s.conversation.mode = "AI_ACTIVE" /\ "REACTIVATION" \in Scenarios
        /\ "FUTURE_REACTIVATION" \in ActionTypes
    BY <1>1 DEF MaySchedule, Unblocked, Scenarios, ActionTypes
  <2>3. Shaped(t) /\ t.lead = s.lead /\ t.conversation = s.conversation /\ t.handoffs = s.handoffs
    BY <2>2, Scheduled DEF Sound
  <2> HIDE DEF t
  <2>4. /\ Shaped(r) /\ r.lead.action.type = "FUTURE_REACTIVATION"
        /\ r.conversation.mode = t.conversation.mode /\ r.handoffs = t.handoffs
    BY <2>2, <2>3, ActionReplaced
  <2> HIDE DEF r
  <2> QED
    BY <2>1, <2>2, <2>3, <2>4 DEF Sound, HasAction, Silent
<1>2. CASE ~MaySchedule(s, "REACTIVATION")
  BY <1>2 DEF Reactivated
<1> QED
  BY <1>1, <1>2

\* Writing what the invariant does not look at.
LEMMA MemoryWritten ==
  ASSUME NEW s, Sound(s), NEW fact \in Facts, NEW value \in 0 .. 2
  PROVE  LET r == Remember(s, fact, value) IN Sound(r) /\ r.handoffs = s.handoffs
<1> DEFINE memory == [s.memory EXCEPT ![fact] = value]
           r == [s EXCEPT !.memory = memory]
<1>1. s \in Parts(s)
  BY DEF Sound, Shaped
<1>2. memory \in [Facts -> 0 .. 2]
  BY <1>1 DEF Parts
<1>3. r = Remember(s, fact, value)
  BY <1>1 DEF Remember, Parts
<1> HIDE DEF memory
<1>4. /\ r \in Parts(r) /\ r.lead = s.lead /\ r.conversation = s.conversation
      /\ r.followUps = s.followUps /\ r.handoffs = s.handoffs /\ r.openHandoff = s.openHandoff
      /\ r.payments = s.payments
  BY <1>1, <1>2 DEF Parts
<1> HIDE DEF r
<1> QED
  BY <1>3, <1>4 DEF Sound, Shaped, HasAction, Silent

LEMMA MarketingWritten ==
  ASSUME NEW s, Sound(s), NEW value \in BOOLEAN
  PROVE  LET r == [s EXCEPT !.marketing = value] IN Sound(r) /\ r.handoffs = s.handoffs
<1> DEFINE r == [s EXCEPT !.marketing = value]
<1>1. s \in Parts(s)
  BY DEF Sound, Shaped
<1>2. /\ r \in Parts(r) /\ r.lead = s.lead /\ r.conversation = s.conversation
      /\ r.followUps = s.followUps /\ r.handoffs = s.handoffs /\ r.openHandoff = s.openHandoff
      /\ r.payments = s.payments
  BY <1>1 DEF Parts
<1> HIDE DEF r
<1>3. Sound(r) /\ r.handoffs = s.handoffs
  BY <1>2 DEF Sound, Shaped, HasAction, Silent
<1> QED
  BY <1>3 DEF r

LEMMA ServiceWritten ==
  ASSUME NEW s, Sound(s), NEW value \in BOOLEAN
  PROVE  LET r == [s EXCEPT !.lead.service = value] IN Sound(r) /\ r.handoffs = s.handoffs
<1> DEFINE r == [s EXCEPT !.lead.service = value]
<1>1. s \in Parts(s)
  BY DEF Sound, Shaped
<1>2. /\ r \in Parts(r) /\ r.lead.action = s.lead.action /\ r.lead.status = s.lead.status
      /\ r.conversation = s.conversation
      /\ r.followUps = s.followUps /\ r.handoffs = s.handoffs /\ r.openHandoff = s.openHandoff
      /\ r.payments = s.payments
  BY <1>1 DEF Parts, Leads
<1> HIDE DEF r
<1>3. Sound(r) /\ r.handoffs = s.handoffs
  BY <1>2 DEF Sound, Shaped, HasAction, Silent
<1> QED
  BY <1>3 DEF r

-----------------------------------------------------------------------------
(* The owner's operations on the opportunity.                              *)

\* What every operation does to the opportunity: it keeps it sound and forgets no takeover.
Kept(s, r) == Sound(r) /\ r.handoffs >= s.handoffs

LEMMA KeptIfSame ==
  ASSUME NEW s, Sound(s), NEW r, Sound(r), r.handoffs = s.handoffs
  PROVE  Kept(s, r)
<1>1. s.handoffs \in Nat
  BY DEF Sound, Shaped, Parts
<1> QED
  BY <1>1 DEF Kept

LEMMA OpportunityKept ==
  ASSUME Sound(demo), NextOpportunity
  PROVE  Kept(demo, demo')
<1>1. ASSUME NEW reason \in CloseReasons, CloseOpportunityLost(reason) PROVE Kept(demo, demo')
  <2>1. reason \in LostReasons
    BY OwnerAssumption
  <2> QED
    BY <1>1, <2>1, ClosedLost, KeptIfSame DEF CloseOpportunityLost
<1>2. ASSUME ReopenOpportunity PROVE Kept(demo, demo')
  BY <1>2, ReopenedSoundly, KeptIfSame DEF ReopenOpportunity
<1>3. ASSUME PrepareReactivation PROVE Kept(demo, demo')
  <2>1. Sound(Reopen(demo)) /\ Reopen(demo).handoffs = demo.handoffs
    BY ReopenedSoundly
  <2>2. demo' = Reactivated(Reopen(demo))
    BY <1>3 DEF PrepareReactivation
  <2> QED
    BY <2>1, <2>2, ReactivatedSoundly, KeptIfSame
<1> QED
  BY <1>1, <1>2, <1>3 DEF NextOpportunity

LEMMA TakeoverKept ==
  ASSUME Sound(demo), NextTakeover
  PROVE  Kept(demo, demo')
<1>1. ASSUME StartHumanTakeover PROVE Kept(demo, demo')
  BY <1>1, TakenOver DEF StartHumanTakeover, Kept
<1>2. ASSUME ResumeAssistant PROVE Kept(demo, demo')
  BY <1>2, ResumedSoundly, KeptIfSame DEF ResumeAssistant
<1> QED
  BY <1>1, <1>2 DEF NextTakeover

LEMMA CustomerKept ==
  ASSUME Sound(demo), NextCustomer
  PROVE  Kept(demo, demo')
<1>1. ASSUME OptOutMarketing PROVE Kept(demo, demo')
  BY <1>1, MarketingWritten, KeptIfSame DEF OptOutMarketing
<1>2. ASSUME SelectServiceForLead PROVE Kept(demo, demo')
  <2> DEFINE r == Remember(demo, "service", 1)
             t == [r EXCEPT !.lead.service = TRUE]
  <2>1. "service" \in Facts /\ 1 \in 0 .. 2
    BY DEF Facts
  <2>2. Sound(r) /\ r.handoffs = demo.handoffs
    BY <2>1, MemoryWritten
  <2> HIDE DEF r
  <2>3. Sound(t) /\ t.handoffs = r.handoffs
    BY <2>2, ServiceWritten
  <2>4. demo' = Reconcile(t)
    BY <1>2 DEF SelectServiceForLead, r
  <2> HIDE DEF t
  <2> QED
    BY <2>2, <2>3, <2>4, SoundlyReconciled, KeptIfSame
<1>3. ASSUME NEW fact \in OwnerFacts, NEW value \in 1 .. 2, RememberCustomerFact(fact, value)
      PROVE  Kept(demo, demo')
  <2> DEFINE r == Remember(demo, fact, value)
  <2>1. fact \in Facts /\ value \in 0 .. 2
    BY OwnerAssumption
  <2>2. Sound(r) /\ r.handoffs = demo.handoffs
    BY <2>1, MemoryWritten
  <2>3. demo' = r \/ demo' = Reconcile(r)
    BY <1>3 DEF RememberCustomerFact
  <2> HIDE DEF r
  <2> QED
    BY <2>2, <2>3, SoundlyReconciled, KeptIfSame
<1> QED
  BY <1>1, <1>2, <1>3 DEF NextCustomer

\* An attempt is the last one, or one of those that the cadence still has.
LEMMA AttemptRecorded ==
  ASSUME NEW s, Sound(s), NEW x \in Scenarios, s.followUps[x] > 0
  PROVE  LET r == [s EXCEPT !.followUps[x] = NextStep(@, x)] IN Sound(r) /\ r.handoffs = s.handoffs
<1> DEFINE step == NextStep(s.followUps[x], x)
           more == [s.followUps EXCEPT ![x] = step]
           r == [s EXCEPT !.followUps = more]
<1>1. s \in Parts(s) /\ s.followUps \in [Scenarios -> Nat]
  BY DEF Sound, Shaped, Parts
<1>2. step \in Nat /\ step <= Limit(x)
  <2>1. Limit(x) \in Nat /\ Limit(x) >= Cadence[x] /\ Cadence[x] \in Nat /\ s.followUps[x] \in Nat
    BY <1>1, LimitIsLarger
  <2> HIDE DEF more, r
  <2> QED
    BY <2>1 DEF NextStep
<1>3. r = [s EXCEPT !.followUps[x] = NextStep(@, x)]
  OBVIOUS
<1> HIDE DEF step
<1>4. more \in [Scenarios -> Nat] /\ \A y \in Scenarios : more[y] = IF y = x THEN step ELSE s.followUps[y]
  BY <1>1, <1>2
<1> HIDE DEF more
<1>5. /\ r \in Parts(r) /\ r.lead = s.lead /\ r.conversation = s.conversation
      /\ r.followUps = more /\ r.handoffs = s.handoffs /\ r.openHandoff = s.openHandoff
      /\ r.payments = s.payments
  BY <1>1, <1>4 DEF Parts
<1> HIDE DEF r
<1>6. s.conversation.mode # "CLOSED"
  BY <1>1 DEF Sound, Silent
<1>7. \A y \in Scenarios : r.followUps[y] <= Limit(y)
  BY <1>2, <1>4, <1>5 DEF Sound, Shaped
<1>8. Sound(r) /\ r.handoffs = s.handoffs
  BY <1>5, <1>6, <1>7 DEF Sound, Shaped, HasAction, Silent
<1> QED
  BY <1>3, <1>8

LEMMA FollowUpsKept ==
  ASSUME Sound(demo), NextFollowUps
  PROVE  Kept(demo, demo')
<1>1. ASSUME ScheduleFollowUpForConversation PROVE Kept(demo, demo')
  <2> DEFINE x == ScenarioOf(InferredStage(demo))
             r == Schedule(demo, x)
  <2>1. x \in Scenarios /\ demo.conversation.mode = "AI_ACTIVE" /\ demo' = r
    BY <1>1, ScenarioOfStage DEF ScheduleFollowUpForConversation, Unblocked
  <2> HIDE DEF x
  <2>2. /\ Shaped(r) /\ Silent(r)
        /\ r.lead = demo.lead /\ r.conversation = demo.conversation /\ r.handoffs = demo.handoffs
    BY <2>1, ScheduledSoundly DEF Sound
  <2> HIDE DEF r
  <2>3. Sound(r)
    BY <2>2 DEF Sound, HasAction
  <2> QED
    BY <2>1, <2>2, <2>3, KeptIfSame
<1>2. ASSUME NEW x \in Scenarios, RecordFollowUpAttempt(x) PROVE Kept(demo, demo')
  BY <1>2, AttemptRecorded, KeptIfSame DEF RecordFollowUpAttempt
<1>3. ASSUME CancelFollowUpsManually PROVE Kept(demo, demo')
  <2> DEFINE r == StopFollowUps(demo)
  <2>1. /\ Shaped(r) /\ \A x \in Scenarios : r.followUps[x] = 0
        /\ r.lead = demo.lead /\ r.conversation = demo.conversation /\ r.handoffs = demo.handoffs
    BY FollowUpsStopped DEF Sound
  <2>2. demo' = r
    BY <1>3 DEF CancelFollowUpsManually
  <2> HIDE DEF r
  <2>3. Sound(r)
    BY <2>1 DEF Sound, HasAction, Silent
  <2> QED
    BY <2>1, <2>2, <2>3, KeptIfSame
<1> QED
  BY <1>1, <1>2, <1>3 DEF NextFollowUps

-----------------------------------------------------------------------------
(* The work and the money: the rows are saved, and the opportunity follows. *)

\* What an operation may write without a look at the opportunity.
LEMMA RowsWritten ==
  ASSUME NEW s, Sound(s), NEW r, r \in Parts(r), r.lead = s.lead, r.conversation = s.conversation,
         r.followUps = s.followUps, r.handoffs = s.handoffs, r.openHandoff = s.openHandoff,
         r.payments = s.payments \/ Ledgered(r.payments)
  PROVE  Sound(r) /\ r.handoffs = s.handoffs
BY DEF Sound, Shaped, HasAction, Silent

LEMMA AppointmentSaved ==
  ASSUME NEW s, Sound(s), NEW a, NEW status, NEW slot
  PROVE  LET r == SaveAppointment(s, a, status, slot) IN Sound(r) /\ r.handoffs = s.handoffs
<1> DEFINE rows == [s.appointments EXCEPT ![a] = [status |-> status, slot |-> slot]]
           recent == [s.recent EXCEPT !.appointments = Touched(@, a)]
           r == [s EXCEPT !.appointments = rows, !.recent = recent]
<1>1. s \in Parts(s)
  BY DEF Sound, Shaped
<1>2. SaveAppointment(s, a, status, slot) = r
  BY DEF SaveAppointment
<1> HIDE DEF rows, recent
<1>3. /\ r \in Parts(r) /\ r.lead = s.lead /\ r.conversation = s.conversation
      /\ r.followUps = s.followUps /\ r.handoffs = s.handoffs /\ r.openHandoff = s.openHandoff
      /\ r.payments = s.payments
  BY <1>1 DEF Parts
<1> HIDE DEF r
<1> QED
  BY <1>2, <1>3, RowsWritten

LEMMA QuoteSaved ==
  ASSUME NEW s, Sound(s), NEW q, NEW status
  PROVE  LET r == SaveQuote(s, q, status) IN Sound(r) /\ r.handoffs = s.handoffs
<1> DEFINE rows == [s.quotes EXCEPT ![q].status = status]
           recent == [s.recent EXCEPT !.quotes = Touched(@, q)]
           r == [s EXCEPT !.quotes = rows, !.recent = recent]
<1>1. s \in Parts(s)
  BY DEF Sound, Shaped
<1>2. SaveQuote(s, q, status) = r
  BY DEF SaveQuote
<1> HIDE DEF rows, recent
<1>3. /\ r \in Parts(r) /\ r.lead = s.lead /\ r.conversation = s.conversation
      /\ r.followUps = s.followUps /\ r.handoffs = s.handoffs /\ r.openHandoff = s.openHandoff
      /\ r.payments = s.payments
  BY <1>1 DEF Parts
<1> HIDE DEF r
<1> QED
  BY <1>2, <1>3, RowsWritten

LEMMA JobSaved ==
  ASSUME NEW s, Sound(s), NEW q, NEW status, NEW slot
  PROVE  LET r == SaveJob(s, q, status, slot) IN Sound(r) /\ r.handoffs = s.handoffs
<1> DEFINE rows == [s.jobs EXCEPT ![q] = [status |-> status, slot |-> slot]]
           recent == [s.recent EXCEPT !.jobs = Touched(@, q)]
           r == [s EXCEPT !.jobs = rows, !.recent = recent]
<1>1. s \in Parts(s)
  BY DEF Sound, Shaped
<1>2. SaveJob(s, q, status, slot) = r
  BY DEF SaveJob
<1> HIDE DEF rows, recent
<1>3. /\ r \in Parts(r) /\ r.lead = s.lead /\ r.conversation = s.conversation
      /\ r.followUps = s.followUps /\ r.handoffs = s.handoffs /\ r.openHandoff = s.openHandoff
      /\ r.payments = s.payments
  BY <1>1 DEF Parts
<1> HIDE DEF r
<1> QED
  BY <1>2, <1>3, RowsWritten

LEMMA PaymentSaved ==
  ASSUME NEW s, Sound(s), NEW type, NEW id, NEW kindOf, NEW amount, NEW original,
         Ledgered(Append(s.payments, [type |-> type, id |-> id, kind |-> kindOf,
                                      amount |-> amount, original |-> original]))
  PROVE  LET r == Saved(s, type, id, kindOf, amount, original) IN Sound(r) /\ r.handoffs = s.handoffs
<1> DEFINE rows == Append(s.payments, [type |-> type, id |-> id, kind |-> kindOf,
                                       amount |-> amount, original |-> original])
           r == [s EXCEPT !.payments = rows]
<1>1. s \in Parts(s)
  BY DEF Sound, Shaped
<1>2. Saved(s, type, id, kindOf, amount, original) = r /\ Ledgered(rows)
  BY DEF Saved
<1> HIDE DEF rows
<1>3. /\ r \in Parts(r) /\ r.lead = s.lead /\ r.conversation = s.conversation
      /\ r.followUps = s.followUps /\ r.handoffs = s.handoffs /\ r.openHandoff = s.openHandoff
      /\ r.payments = rows
  BY <1>1 DEF Parts
<1> HIDE DEF r
<1> QED
  BY <1>2, <1>3, RowsWritten

LEMMA RevenueVerified ==
  ASSUME NEW s, Sound(s), NEW value
  PROVE  LET r == [s EXCEPT !.verified = value] IN Sound(r) /\ r.handoffs = s.handoffs
<1> DEFINE r == [s EXCEPT !.verified = value]
<1>1. s \in Parts(s)
  BY DEF Sound, Shaped
<1>2. /\ r \in Parts(r) /\ r.lead = s.lead /\ r.conversation = s.conversation
      /\ r.followUps = s.followUps /\ r.handoffs = s.handoffs /\ r.openHandoff = s.openHandoff
      /\ r.payments = s.payments
  BY <1>1 DEF Parts
<1> HIDE DEF r
<1>3. Sound(r) /\ r.handoffs = s.handoffs
  BY <1>2, RowsWritten
<1> QED
  BY <1>3 DEF r

LEMMA CompletenessWritten ==
  ASSUME NEW s, Sound(s), NEW value \in BOOLEAN
  PROVE  LET r == [s EXCEPT !.conversation.complete = value] IN Sound(r) /\ r.handoffs = s.handoffs
<1> DEFINE r == [s EXCEPT !.conversation.complete = value]
<1>1. s \in Parts(s)
  BY DEF Sound, Shaped
<1>2. /\ r \in Parts(r) /\ r.lead = s.lead /\ r.conversation.mode = s.conversation.mode
      /\ r.conversation.handoff = s.conversation.handoff
      /\ r.followUps = s.followUps /\ r.handoffs = s.handoffs /\ r.openHandoff = s.openHandoff
      /\ r.payments = s.payments
  BY <1>1 DEF Parts, Conversations
<1> HIDE DEF r
<1>3. Sound(r) /\ r.handoffs = s.handoffs
  BY <1>2 DEF Sound, Shaped, HasAction, Silent
<1> QED
  BY <1>3 DEF r

LEMMA ActionReplacedSoundly ==
  ASSUME NEW s, Sound(s), NEW type \in ActionTypes, NEW due
  PROVE  LET r == ReplaceAction(s, type, due) IN Sound(r) /\ r.handoffs = s.handoffs
<1> DEFINE r == ReplaceAction(s, type, due)
<1>1. /\ Shaped(r) /\ r.lead.action.type = type
      /\ r.conversation.mode = s.conversation.mode /\ r.lead.status = s.lead.status
      /\ r.followUps = s.followUps /\ r.handoffs = s.handoffs
  BY ActionReplaced DEF Sound
<1> HIDE DEF r
<1>2. Sound(r) /\ r.handoffs = s.handoffs
  BY <1>1 DEF Sound, HasAction, Silent, ActionTypes
<1> QED
  BY <1>2 DEF r

LEMMA FollowUpTriedSoundly ==
  ASSUME NEW s, Sound(s), NEW stage
  PROVE  LET r == TryFollowUp(s, stage) IN Sound(r) /\ r.handoffs = s.handoffs
<1> DEFINE r == TryFollowUp(s, stage)
<1>1. /\ Shaped(r) /\ Silent(r) /\ r.lead = s.lead /\ r.handoffs = s.handoffs
  BY FollowUpTried DEF Sound
<1> HIDE DEF r
<1>2. Sound(r) /\ r.handoffs = s.handoffs
  BY <1>1 DEF Sound, HasAction
<1> QED
  BY <1>2 DEF r

LEMMA CompletedSoundly ==
  ASSUME NEW s, Sound(s), NEW type, NEW id
  PROVE  LET r == Complete(s, type, id) IN Sound(r) /\ r.handoffs = s.handoffs
<1>1. CASE Balance(s, type, id) = 0
  <2>1. Complete(s, type, id) = Reconcile(CloseWon(s))
    BY <1>1 DEF Complete
  <2>2. Sound(CloseWon(s)) /\ CloseWon(s).handoffs = s.handoffs
    BY ClosedWon DEF Sound
  <2> QED
    BY <2>1, <2>2, SoundlyReconciled
<1>2. CASE Balance(s, type, id) # 0
  <2> DEFINE t == ReplaceAction(s, "COLLECT_BALANCE", "now")
             u == [t EXCEPT !.conversation.complete = FALSE]
             v == TryFollowUp(u, "AWAITING_BALANCE")
  <2>1. Complete(s, type, id) = Reconcile(v)
    BY <1>2 DEF Complete
  <2>2. "COLLECT_BALANCE" \in ActionTypes
    BY DEF ActionTypes
  <2>3. Sound(t) /\ t.handoffs = s.handoffs
    BY <2>2, ActionReplacedSoundly
  <2> HIDE DEF t
  <2>4. Sound(u) /\ u.handoffs = t.handoffs
    BY <2>3, CompletenessWritten
  <2> HIDE DEF u
  <2>5. Sound(v) /\ v.handoffs = u.handoffs
    BY <2>4, FollowUpTriedSoundly
  <2> HIDE DEF v
  <2> QED
    BY <2>1, <2>3, <2>4, <2>5, SoundlyReconciled
<1> QED
  BY <1>1, <1>2

LEMMA JobReleased ==
  ASSUME NEW s, Sound(s), NEW type, NEW id
  PROVE  LET r == ReleaseJob(s, type, id) IN Sound(r) /\ r.handoffs = s.handoffs
<1> DEFINE t == SaveJob(s, id, "READY_TO_SCHEDULE", s.jobs[id].slot)
           u == ReplaceAction(t, "SCHEDULE_JOB", "now")
<1>1. ReleaseJob(s, type, id) = u \/ ReleaseJob(s, type, id) = s
  BY DEF ReleaseJob
<1>2. Sound(t) /\ t.handoffs = s.handoffs
  BY JobSaved
<1>3. "SCHEDULE_JOB" \in ActionTypes
  BY DEF ActionTypes
<1> HIDE DEF t
<1>4. Sound(u) /\ u.handoffs = t.handoffs
  BY <1>2, <1>3, ActionReplacedSoundly
<1> HIDE DEF u
<1> QED
  BY <1>1, <1>2, <1>4

LEMMA AppointmentsKept ==
  ASSUME Sound(demo), NextAppointments
  PROVE  Kept(demo, demo')
<1> SUFFICES ASSUME NEW a \in Appointments,
                    \/ \E slot \in Slots : CreateAppointment(a, slot) \/ RescheduleAppointment(a, slot)
                    \/ ConfirmAppointment(a)
                    \/ CompleteAppointment(a)
                    \/ CancelAppointment(a)
             PROVE  Kept(demo, demo')
  BY DEF NextAppointments
<1>1. ASSUME NEW status, NEW slot, demo' = Reconcile(SaveAppointment(demo, a, status, slot))
      PROVE  Kept(demo, demo')
  BY <1>1, AppointmentSaved, SoundlyReconciled, KeptIfSame
<1>2. ASSUME NEW slot \in Slots, CreateAppointment(a, slot) PROVE Kept(demo, demo')
  <2> DEFINE r == SaveAppointment(demo, a, "TENTATIVE", slot)
             stage == IF Deposit[a] > 0 THEN "AWAITING_DEPOSIT" ELSE "AWAITING_CONFIRMATION"
             t == TryFollowUp(r, stage)
  <2>1. demo' = Reconcile(t)
    BY <1>2 DEF CreateAppointment
  <2>2. Sound(r) /\ r.handoffs = demo.handoffs
    BY AppointmentSaved
  <2> HIDE DEF r, stage
  <2>3. Sound(t) /\ t.handoffs = r.handoffs
    BY <2>2, FollowUpTriedSoundly
  <2> HIDE DEF t
  <2> QED
    BY <2>1, <2>2, <2>3, SoundlyReconciled, KeptIfSame
<1>3. ASSUME NEW slot \in Slots, RescheduleAppointment(a, slot) PROVE Kept(demo, demo')
  BY <1>1, <1>3 DEF RescheduleAppointment
<1>4. ASSUME ConfirmAppointment(a) PROVE Kept(demo, demo')
  BY <1>1, <1>4 DEF ConfirmAppointment
<1>5. ASSUME CompleteAppointment(a) PROVE Kept(demo, demo')
  <2> DEFINE r == SaveAppointment(demo, a, "COMPLETED", demo.appointments[a].slot)
  <2>1. demo' = Complete(r, "APPOINTMENT", a)
    BY <1>5 DEF CompleteAppointment
  <2>2. Sound(r) /\ r.handoffs = demo.handoffs
    BY AppointmentSaved
  <2> HIDE DEF r
  <2> QED
    BY <2>1, <2>2, CompletedSoundly, KeptIfSame
<1>6. ASSUME CancelAppointment(a) PROVE Kept(demo, demo')
  <2> DEFINE r == SaveAppointment(demo, a, "CANCELLED", demo.appointments[a].slot)
  <2>1. demo' = CloseLost(r, "CANCELLED") /\ "CANCELLED" \in LostReasons
    BY <1>6 DEF CancelAppointment, LostReasons
  <2>2. Sound(r) /\ r.handoffs = demo.handoffs
    BY AppointmentSaved
  <2> HIDE DEF r
  <2> QED
    BY <2>1, <2>2, ClosedLost, KeptIfSame
<1> QED
  BY <1>2, <1>3, <1>4, <1>5, <1>6

LEMMA QuotesKept ==
  ASSUME Sound(demo), NextQuotes
  PROVE  Kept(demo, demo')
<1> SUFFICES ASSUME NEW q \in Quotes,
                    \/ CreateQuoteDraft(q)
                    \/ SendQuote(q)
                    \/ DeclineQuote(q)
                    \/ ExpireQuote(q)
                    \/ AcceptQuote(q)
                    \/ \E slot \in Slots : ScheduleJob(q, slot) \/ RescheduleJob(q, slot)
                    \/ CancelJob(q)
                    \/ CompleteJob(q)
             PROVE  Kept(demo, demo')
  BY DEF NextQuotes
<1>1. ASSUME CreateQuoteDraft(q) PROVE Kept(demo, demo')
  BY <1>1, QuoteSaved, SoundlyReconciled, KeptIfSame DEF CreateQuoteDraft
<1>2. ASSUME SendQuote(q) PROVE Kept(demo, demo')
  <2> DEFINE r == SaveQuote(demo, q, "SENT")
             t == [r EXCEPT !.conversation.complete = FALSE]
             u == ReplaceAction(t, "FOLLOW_UP_QUOTE", "now")
             v == TryFollowUp(u, "QUOTE_SENT")
  <2>1. demo' = Reconcile(v)
    BY <1>2 DEF SendQuote
  <2>2. Sound(r) /\ r.handoffs = demo.handoffs
    BY QuoteSaved
  <2> HIDE DEF r
  <2>3. Sound(t) /\ t.handoffs = r.handoffs
    BY <2>2, CompletenessWritten
  <2> HIDE DEF t
  <2>4. "FOLLOW_UP_QUOTE" \in ActionTypes
    BY DEF ActionTypes
  <2>5. Sound(u) /\ u.handoffs = t.handoffs
    BY <2>3, <2>4, ActionReplacedSoundly
  <2> HIDE DEF u
  <2>6. Sound(v) /\ v.handoffs = u.handoffs
    BY <2>5, FollowUpTriedSoundly
  <2> HIDE DEF v
  <2> QED
    BY <2>1, <2>2, <2>3, <2>5, <2>6, SoundlyReconciled, KeptIfSame
<1>3. ASSUME NEW status, NEW reason \in LostReasons, demo' = CloseLost(SaveQuote(demo, q, status), reason)
      PROVE  Kept(demo, demo')
  BY <1>3, QuoteSaved, ClosedLost, KeptIfSame
<1>4. ASSUME DeclineQuote(q) PROVE Kept(demo, demo')
  <2>1. "CUSTOMER_DECLINED" \in LostReasons
    BY DEF LostReasons
  <2> QED
    BY <1>3, <1>4, <2>1 DEF DeclineQuote
<1>5. ASSUME ExpireQuote(q) PROVE Kept(demo, demo')
  <2>1. "QUOTE_EXPIRED" \in LostReasons
    BY DEF LostReasons
  <2> QED
    BY <1>3, <1>5, <2>1 DEF ExpireQuote
<1>6. ASSUME AcceptQuote(q) PROVE Kept(demo, demo')
  <2> DEFINE r == SaveQuote(demo, q, "ACCEPTED")
             status == IF Deposit[q] > 0 THEN "PENDING_DEPOSIT" ELSE "READY_TO_SCHEDULE"
             t == SaveJob(r, q, status, "none")
             type == IF Deposit[q] > 0 THEN "REQUEST_DEPOSIT" ELSE "SCHEDULE_JOB"
             u == ReplaceAction(t, type, "now")
             v == TryFollowUp(u, "AWAITING_DEPOSIT")
  <2>1. demo' = Reconcile(v) \/ demo' = Reconcile(u)
    BY <1>6 DEF AcceptQuote
  <2>2. Sound(r) /\ r.handoffs = demo.handoffs
    BY QuoteSaved
  <2> HIDE DEF r, status
  <2>3. Sound(t) /\ t.handoffs = r.handoffs
    BY <2>2, JobSaved
  <2> HIDE DEF t
  <2>4. type \in ActionTypes
    BY DEF ActionTypes
  <2> HIDE DEF type
  <2>5. Sound(u) /\ u.handoffs = t.handoffs
    BY <2>3, <2>4, ActionReplacedSoundly
  <2> HIDE DEF u
  <2>6. Sound(v) /\ v.handoffs = u.handoffs
    BY <2>5, FollowUpTriedSoundly
  <2> HIDE DEF v
  <2> QED
    BY <2>1, <2>2, <2>3, <2>5, <2>6, SoundlyReconciled, KeptIfSame
<1>7. ASSUME NEW slot \in Slots, ScheduleJob(q, slot) \/ RescheduleJob(q, slot) PROVE Kept(demo, demo')
  <2>1. demo' = Reconcile(SaveJob(demo, q, "SCHEDULED", slot))
    BY <1>7 DEF ScheduleJob, RescheduleJob
  <2> QED
    BY <2>1, JobSaved, SoundlyReconciled, KeptIfSame
<1>8. ASSUME CancelJob(q) PROVE Kept(demo, demo')
  <2> DEFINE r == SaveJob(demo, q, "CANCELLED", demo.jobs[q].slot)
  <2>1. demo' = CloseLost(r, "CANCELLED") /\ "CANCELLED" \in LostReasons
    BY <1>8 DEF CancelJob, LostReasons
  <2>2. Sound(r) /\ r.handoffs = demo.handoffs
    BY JobSaved
  <2> HIDE DEF r
  <2> QED
    BY <2>1, <2>2, ClosedLost, KeptIfSame
<1>9. ASSUME CompleteJob(q) PROVE Kept(demo, demo')
  <2> DEFINE r == SaveJob(demo, q, "COMPLETED", demo.jobs[q].slot)
  <2>1. demo' = Complete(r, "JOB", q)
    BY <1>9 DEF CompleteJob
  <2>2. Sound(r) /\ r.handoffs = demo.handoffs
    BY JobSaved
  <2> HIDE DEF r
  <2> QED
    BY <2>1, <2>2, CompletedSoundly, KeptIfSame
<1> QED
  BY <1>1, <1>2, <1>4, <1>5, <1>6, <1>7, <1>8, <1>9

LEMMA LedgerIsTyped == Sound(demo) => demo.payments \in Seq(PaymentRows)
BY DEF Sound, Shaped, Ledgered

\* What is paid is within the balance, what is refunded within the payment: the ledger stays right.
LEMMA PaymentIsSound ==
  ASSUME Sound(demo), NEW reference \in Payable, NEW amount \in 1 .. Price[reference.id],
         RecordPayment(reference, amount)
  PROVE  LET r == Saved(demo, reference.type, reference.id, "PAYMENT", amount, 0)
         IN  Sound(r) /\ r.handoffs = demo.handoffs
<1> DEFINE p == demo.payments
           row == [type |-> reference.type, id |-> reference.id, kind |-> "PAYMENT",
                   amount |-> amount, original |-> 0]
<1>1. reference.type \in PaidTypes /\ reference.id \in PaidIds
  BY DEF Payable, PaidTypes, PaidIds
<1>2. Price[reference.id] \in Nat
  BY <1>1, MoneyAssumption DEF PaidIds
<1>3. row \in PaymentRows
  BY <1>1, <1>2 DEF PaymentRows
<1>4. CollectedIn(p, reference.type, reference.id) + amount <= Price[reference.id]
  <2>1. amount <= Balance(demo, reference.type, reference.id)
    BY DEF RecordPayment
  <2>2. /\ Collected(demo, reference.type, reference.id)
             = CollectedIn(p, reference.type, reference.id)
        /\ CollectedIn(p, reference.type, reference.id) \in Int
    BY LedgerIsTyped, CollectedIsSum, AmountsAreNumbers
  <2> QED
    BY <1>2, <2>1, <2>2 DEF Balance
<1>5. Ledgered(p)
  BY DEF Sound, Shaped
<1>6. Ledgered(Append(p, row))
  <2> HIDE DEF p
  <2> QED
    BY <1>3, <1>4, <1>5, PaymentLedgered
<1> QED
  BY <1>6, PaymentSaved

LEMMA RefundIsSound ==
  ASSUME Sound(demo), NEW i \in DOMAIN demo.payments, NEW amount \in 1 .. demo.payments[i].amount,
         RecordRefund(i, amount)
  PROVE  LET r == Saved(demo, demo.payments[i].type, demo.payments[i].id, "REFUND", amount, i)
         IN  Sound(r) /\ r.handoffs = demo.handoffs
<1> DEFINE p == demo.payments
           row == [type |-> p[i].type, id |-> p[i].id, kind |-> "REFUND",
                   amount |-> amount, original |-> i]
<1>1. p \in Seq(PaymentRows) /\ p[i] \in PaymentRows
  BY LedgerIsTyped
<1>2. p[i].type \in PaidTypes /\ p[i].id \in PaidIds /\ p[i].amount \in Nat /\ i \in Nat
  BY <1>1 DEF PaymentRows
<1>3. row \in PaymentRows
  BY <1>2 DEF PaymentRows
<1>4. p[i].kind = "PAYMENT" /\ amount <= p[i].amount - Refunded(demo, i)
  BY DEF RecordRefund, Refundable
<1>5. Refunded(demo, i) = RefundedIn(p, i)
  BY <1>1, RefundedIsSum
<1>6. amount <= LeftIn(p)[i]
  BY <1>1, <1>4, <1>5, AmountsAreNumbers
<1>7. Traced(p, row)
  BY <1>4 DEF Traced
<1>8. Ledgered(p)
  BY DEF Sound, Shaped
<1>9. Ledgered(Append(p, row))
  <2> HIDE DEF p
  <2> QED
    BY <1>3, <1>6, <1>7, <1>8, RefundLedgered
<1> QED
  BY <1>9, PaymentSaved

LEMMA PaymentsKept ==
  ASSUME Sound(demo), NextPayments
  PROVE  Kept(demo, demo')
<1> DEFINE p == demo.payments
<1>1. ASSUME NEW reference \in Payable, NEW amount \in 1 .. Price[reference.id],
             RecordPayment(reference, amount)
      PROVE  Kept(demo, demo')
  <2> DEFINE r == Saved(demo, reference.type, reference.id, "PAYMENT", amount, 0)
             t == ReleaseJob(r, reference.type, reference.id)
  <2>1. demo' = Reconcile(t)
    BY <1>1 DEF RecordPayment
  <2>2. Sound(r) /\ r.handoffs = demo.handoffs
    BY <1>1, PaymentIsSound
  <2> HIDE DEF r
  <2>3. Sound(t) /\ t.handoffs = r.handoffs
    BY <2>2, JobReleased
  <2> HIDE DEF t
  <2> QED
    BY <2>1, <2>2, <2>3, SoundlyReconciled, KeptIfSame
<1>2. ASSUME NEW i \in DOMAIN p, NEW amount \in 1 .. p[i].amount, RecordRefund(i, amount)
      PROVE  Kept(demo, demo')
  <2> DEFINE r == Saved(demo, demo.payments[i].type, demo.payments[i].id, "REFUND", amount, i)
  <2>1. demo' = Reconcile(r)
    BY <1>2 DEF RecordRefund
  <2>2. Sound(r) /\ r.handoffs = demo.handoffs
    BY <1>2, RefundIsSound
  <2> HIDE DEF r
  <2> QED
    BY <2>1, <2>2, SoundlyReconciled, KeptIfSame
<1>3. ASSUME NEW i, VerifyRevenueAttribution(i) PROVE Kept(demo, demo')
  <2> DEFINE value == demo.verified \cup {i}
  <2>1. demo' = [demo EXCEPT !.verified = value]
    BY <1>3 DEF VerifyRevenueAttribution
  <2> HIDE DEF value
  <2> QED
    BY <2>1, RevenueVerified, KeptIfSame
<1> QED
  BY <1>1, <1>2, <1>3 DEF NextPayments

LEMMA OwnerKeepsSound ==
  ASSUME Sound(demo), OwnerOperation
  PROVE  Kept(demo, demo')
BY OpportunityKept, TakeoverKept, CustomerKept, FollowUpsKept, AppointmentsKept, QuotesKept,
   PaymentsKept DEF OwnerOperation

-----------------------------------------------------------------------------
(* What the engine may decide.                                             *)

Tools == UNION {ToolsOfLevel[l] : l \in 1 .. 4}
Tables == Seq(BOOLEAN \X Decisions)

LEMMA ToolsAreLevelled ==
  {"GET_BUSINESS_INFO", "GET_SERVICE_INFO", "GET_SERVICE_PRICE", "GET_CONVERSATION_CONTEXT",
   "CREATE_NEXT_ACTION", "REQUEST_CUSTOMER_INFORMATION", "GET_AVAILABLE_SLOTS",
   "CREATE_QUOTE_DRAFT", "HANDOFF_TO_HUMAN"} \subseteq Tools
<1>1. ToolsOfLevel[1] \subseteq Tools /\ ToolsOfLevel[2] \subseteq Tools
      /\ ToolsOfLevel[3] \subseteq Tools /\ ToolsOfLevel[4] \subseteq Tools
  BY DEF Tools
<1> QED
  BY <1>1 DEF ToolsOfLevel

LEMMA DecisionFields ==
  Decisions = [stage : Stages, action : ActionTypes, tool : Tools, level : 1 .. 4, handoff : BOOLEAN,
               followUp : BOOLEAN, reason : Reasons, missing : SUBSET Facts,
               knowledge : Knowledge \cup {"none"}]
BY DEF Decisions, Tools

LEMMA FactsAreMissing == ASSUME NEW s PROVE MissingFacts(s) \in SUBSET Facts
BY FactsAssumption DEF MissingFacts

LEMMA BaseDecides ==
  ASSUME NEW s, NEW stage \in Stages
  PROVE  BaseDecision(s, stage) \in Decisions
<1>1. EngineAction(stage, "REPLY_TO_CUSTOMER") \in ActionTypes
  BY ActionForStageIsAction DEF EngineAction, ActionTypes
<1>2. ShouldFollowUp(stage) \in BOOLEAN
  BY DEF ShouldFollowUp
<1> QED
  BY <1>1, <1>2, ToolsAreLevelled, FactsAreMissing DEF BaseDecision, Decisions, Reasons, Tools

LEMMA HandsOff ==
  ASSUME NEW d \in Decisions
  PROVE  HandedOff(d) \in Decisions
<1> DEFINE stage == "HUMAN_REVIEW"
           action == "HUMAN_REVIEW"
           tool == "HANDOFF_TO_HUMAN"
           level == 4
           handoff == TRUE
           followUp == FALSE
           reason == "none"
<1>1. /\ stage \in Stages /\ action \in ActionTypes /\ tool \in Tools /\ level \in 1 .. 4
      /\ handoff \in BOOLEAN /\ followUp \in BOOLEAN /\ reason \in Reasons
  BY ToolsAreLevelled DEF Stages, ActionTypes, Reasons
<1>2. HandedOff(d) =
        [d EXCEPT !.stage = stage, !.action = action, !.tool = tool, !.level = level,
                  !.handoff = handoff, !.followUp = followUp, !.reason = reason]
  BY DEF HandedOff
<1> HIDE DEF stage, action, tool, level, handoff, followUp, reason
<1> QED
  BY <1>1, <1>2, DecisionFields

LEMMA Answers ==
  ASSUME NEW d \in Decisions, NEW tool \in Tools, NEW knowledge \in Knowledge, NEW reason \in Reasons,
         NEW followUp \in BOOLEAN
  PROVE  Answering(d, tool, knowledge, reason, followUp) \in Decisions
<1>1. EngineAction(d.stage, "ANSWER_QUESTION") \in ActionTypes
  BY ActionForStageIsAction DEF EngineAction, ActionTypes
<1> QED
  BY <1>1 DEF Answering, Decisions, Tools

LEMMA Collects ==
  ASSUME NEW d \in Decisions, NEW missing \in SUBSET Facts
  PROVE  Collecting(d, missing) \in Decisions
<1> DEFINE stage == "INFORMATION_COLLECTION"
           action == "COLLECT_INFORMATION"
           tool == "REQUEST_CUSTOMER_INFORMATION"
           level == 2
           followUp == TRUE
           reason == "MISSING_REQUIRED_INFORMATION"
<1>1. /\ stage \in Stages /\ action \in ActionTypes /\ tool \in Tools /\ level \in 1 .. 4
      /\ followUp \in BOOLEAN /\ reason \in Reasons
  BY ToolsAreLevelled DEF Stages, ActionTypes, Reasons
<1>2. Collecting(d, missing) =
        [d EXCEPT !.stage = stage, !.action = action, !.tool = tool, !.level = level,
                  !.followUp = followUp, !.reason = reason, !.missing = missing]
  BY DEF Collecting
<1> HIDE DEF stage, action, tool, level, followUp, reason
<1> QED
  BY <1>1, <1>2, DecisionFields

LEMMA Proposes ==
  ASSUME NEW d \in Decisions, NEW stage \in Stages, NEW action \in ActionTypes, NEW tool \in Tools,
         NEW reason \in Reasons
  PROVE  Proposing(d, stage, action, tool, reason) \in Decisions
<1> DEFINE level == 3
           followUp == TRUE
<1>1. level \in 1 .. 4 /\ followUp \in BOOLEAN
  OBVIOUS
<1>2. Proposing(d, stage, action, tool, reason) =
        [d EXCEPT !.stage = stage, !.action = action, !.tool = tool, !.level = level,
                  !.followUp = followUp, !.reason = reason]
  BY DEF Proposing
<1> HIDE DEF level, followUp
<1> QED
  BY <1>1, <1>2, DecisionFields

LEMMA SafetyDecides ==
  ASSUME NEW m, NEW conflict, NEW d \in Decisions
  PROVE  SafetyRules(m, conflict, d) \in Tables
<1> DEFINE stopped == [d EXCEPT !.action = "REPLY_TO_CUSTOMER", !.followUp = FALSE, !.reason = "OPT_OUT"]
<1>1. "REPLY_TO_CUSTOMER" \in ActionTypes /\ "OPT_OUT" \in Reasons
  BY DEF ActionTypes, Reasons
<1>2. stopped \in Decisions
  BY <1>1 DEF Decisions
<1>3. HandedOff(d) \in Decisions
  BY HandsOff
<1> HIDE DEF stopped
<1>4. <<conflict \/ m.topic = "unsafe", HandedOff(d)>> \in BOOLEAN \X Decisions
  BY <1>3
<1>5. <<m.topic = "optOut", stopped>> \in BOOLEAN \X Decisions
  BY <1>2
<1> QED
  BY <1>4, <1>5 DEF SafetyRules, Tables, stopped

LEMMA ClaimDecides ==
  ASSUME NEW s, NEW m, NEW d \in Decisions
  PROVE  ClaimRules(s, m, d) \in Tables
<1>1. <<m.topic = "paymentClaim" \/ OutsideServiceArea(s), HandedOff(d)>> \in BOOLEAN \X Decisions
  BY HandsOff
<1> QED
  BY <1>1 DEF ClaimRules, Tables

LEMMA QuestionDecides ==
  ASSUME NEW s, NEW m, NEW d \in Decisions
  PROVE  QuestionRules(s, m, d) \in Tables
<1> DEFINE action == IF VerifiedRemaining(s) > 0 THEN "COLLECT_BALANCE" ELSE d.action
           balance == [d EXCEPT !.action = IF VerifiedRemaining(s) > 0 THEN "COLLECT_BALANCE" ELSE @,
                                !.tool = "GET_CONVERSATION_CONTEXT", !.reason = "PAYMENT_QUESTION"]
           business == Answering(d, "GET_BUSINESS_INFO", "businessInfo", "none", FALSE)
           service == Answering(d, "GET_SERVICE_INFO", "serviceInfo", "none", FALSE)
<1>1. action \in ActionTypes /\ "PAYMENT_QUESTION" \in Reasons /\ "none" \in Reasons
  BY DEF Decisions, ActionTypes, Reasons
<1>2. {"businessInfo", "serviceInfo"} \subseteq Knowledge /\ {"service"} \in SUBSET Facts
  BY DEF Knowledge, Facts
<1>3. balance \in Decisions
  <2>1. balance = [d EXCEPT !.action = action, !.tool = "GET_CONVERSATION_CONTEXT",
                            !.reason = "PAYMENT_QUESTION"]
    OBVIOUS
  <2> HIDE DEF action, balance
  <2> QED
    BY <1>1, <2>1, ToolsAreLevelled DEF Decisions, Tools
<1>4. business \in Decisions /\ service \in Decisions
  BY <1>1, <1>2, ToolsAreLevelled, Answers
<1>5. HandedOff(d) \in Decisions /\ Collecting(d, {"service"}) \in Decisions
  BY <1>2, HandsOff, Collects
<1> HIDE DEF balance, business, service
<1>6. /\ <<m.topic = "balance", balance>> \in BOOLEAN \X Decisions
      /\ <<m.topic = "businessInfo", business>> \in BOOLEAN \X Decisions
      /\ <<m.topic = "changeBooking", HandedOff(d)>> \in BOOLEAN \X Decisions
      /\ <<m.topic \in {"serviceInfo", "price", "booking"} /\ ~HasService(s), Collecting(d, {"service"})>>
           \in BOOLEAN \X Decisions
      /\ <<m.topic = "serviceInfo", service>> \in BOOLEAN \X Decisions
  BY <1>3, <1>4, <1>5
<1> QED
  BY <1>6 DEF QuestionRules, Tables, balance, business, service

LEMMA PriceDecides ==
  ASSUME NEW s, NEW m, NEW d \in Decisions
  PROVE  PriceRules(s, m, d) \in Tables
<1> DEFINE missing == MissingFacts(s)
           inRange == [d EXCEPT !.knowledge = "priceRange"]
           fixed == Answering(d, "GET_SERVICE_PRICE", "fixedPrice", "PRICE_QUESTION", TRUE)
           asked == Collecting(inRange, missing)
           asking == [asked EXCEPT !.stage = d.stage]
           quoted == Proposing(inRange, d.stage, "PREPARE_QUOTE", "CREATE_QUOTE_DRAFT",
                               "INFORMATION_COMPLETE")
<1>1. /\ {"priceRange", "fixedPrice"} \subseteq Knowledge /\ missing \in SUBSET Facts
      /\ {"PRICE_QUESTION", "INFORMATION_COMPLETE"} \subseteq Reasons
      /\ "PREPARE_QUOTE" \in ActionTypes /\ d.stage \in Stages
  BY FactsAreMissing DEF Knowledge, Reasons, ActionTypes, Decisions
<1> HIDE DEF missing
<1>2. inRange \in Decisions
  BY <1>1 DEF Decisions
<1> HIDE DEF inRange
<1>3. fixed \in Decisions /\ asked \in Decisions /\ quoted \in Decisions
  BY <1>1, <1>2, ToolsAreLevelled, Answers, Collects, Proposes
<1> HIDE DEF fixed, asked, quoted
<1>4. asking \in Decisions
  BY <1>1, <1>3 DEF Decisions
<1> HIDE DEF asking
<1>5. /\ <<m.topic = "price" /\ FixedPrice, fixed>> \in BOOLEAN \X Decisions
      /\ <<m.topic = "price" /\ PriceRange /\ missing # {}, asking>> \in BOOLEAN \X Decisions
      /\ <<m.topic = "price" /\ PriceRange, quoted>> \in BOOLEAN \X Decisions
      /\ <<m.topic = "price", HandedOff(d)>> \in BOOLEAN \X Decisions
  BY <1>3, <1>4, HandsOff
<1>6. PriceRules(s, m, d) =
        << <<m.topic = "price" /\ FixedPrice, fixed>>,
           <<m.topic = "price" /\ PriceRange /\ missing # {}, asking>>,
           <<m.topic = "price" /\ PriceRange, quoted>>,
           <<m.topic = "price", HandedOff(d)>> >>
  BY DEF PriceRules, fixed, asking, asked, quoted, inRange, missing
<1> QED
  BY <1>5, <1>6 DEF Tables

LEMMA WorkDecides ==
  ASSUME NEW s, NEW m, NEW d \in Decisions
  PROVE  WorkRules(s, m, d) \in Tables /\ Len(WorkRules(s, m, d)) = 6 /\ WorkRules(s, m, d)[6][1]
<1> DEFINE missing == MissingFacts(s)
           booked == Proposing(d, "READY_TO_BOOK", "OFFER_APPOINTMENT", "GET_AVAILABLE_SLOTS",
                               "BOOKING_INTENT")
           quoted == Proposing(d, "READY_FOR_QUOTE", "PREPARE_QUOTE", "CREATE_QUOTE_DRAFT",
                               "INFORMATION_COMPLETE")
           proposed == Proposing(d, d.stage, "OFFER_APPOINTMENT", "GET_AVAILABLE_SLOTS",
                                 "INFORMATION_COMPLETE")
           offered == [proposed EXCEPT !.followUp = d.followUp]
<1>1. /\ missing \in SUBSET Facts /\ {"service"} \in SUBSET Facts
      /\ {"BOOKING_INTENT", "INFORMATION_COMPLETE"} \subseteq Reasons
      /\ {"OFFER_APPOINTMENT", "PREPARE_QUOTE"} \subseteq ActionTypes
      /\ {"READY_TO_BOOK", "READY_FOR_QUOTE", d.stage} \subseteq Stages
      /\ d.followUp \in BOOLEAN
  BY FactsAreMissing DEF Facts, Reasons, ActionTypes, Stages, Decisions
<1> HIDE DEF missing
<1>2. booked \in Decisions /\ quoted \in Decisions /\ proposed \in Decisions
  BY <1>1, ToolsAreLevelled, Proposes
<1> HIDE DEF booked, quoted, proposed
<1>3. offered \in Decisions
  BY <1>1, <1>2 DEF Decisions
<1> HIDE DEF offered
<1>4. Collecting(d, missing) \in Decisions /\ Collecting(d, {"service"}) \in Decisions
  BY <1>1, Collects
<1>5. /\ <<m.topic = "booking" /\ missing # {}, Collecting(d, missing)>> \in BOOLEAN \X Decisions
      /\ <<m.topic = "booking", booked>> \in BOOLEAN \X Decisions
      /\ <<AskingForQuote(m) /\ ~HasService(s) /\ kind # "HOME_SERVICES", Collecting(d, {"service"})>>
           \in BOOLEAN \X Decisions
      /\ <<missing # {}, Collecting(d, missing)>> \in BOOLEAN \X Decisions
      /\ <<AskingForQuote(m), quoted>> \in BOOLEAN \X Decisions
      /\ <<TRUE, offered>> \in BOOLEAN \X Decisions
  BY <1>2, <1>3, <1>4 DEF AskingForQuote
<1>6. WorkRules(s, m, d) =
        << <<m.topic = "booking" /\ missing # {}, Collecting(d, missing)>>,
           <<m.topic = "booking", booked>>,
           <<AskingForQuote(m) /\ ~HasService(s) /\ kind # "HOME_SERVICES", Collecting(d, {"service"})>>,
           <<missing # {}, Collecting(d, missing)>>,
           <<AskingForQuote(m), quoted>>,
           <<TRUE, offered>> >>
  BY DEF WorkRules, booked, quoted, proposed, offered, missing
<1> QED
  BY <1>5, <1>6 DEF Tables

\* Some rule always applies, and whichever it is, it decides within the enumerations of the code.
LEMMA EngineDecides ==
  ASSUME NEW s, NEW m, NEW conflict
  PROVE  EngineDecision(s, m, conflict) \in Decisions
<1> DEFINE d == BaseDecision(s, InferredStage(s))
           a == SafetyRules(m, conflict, d)
           b == ClaimRules(s, m, d)
           q == QuestionRules(s, m, d)
           p == PriceRules(s, m, d)
           w == WorkRules(s, m, d)
           front == a \o b \o q \o p
           rules == front \o w
<1>1. d \in Decisions
  BY InferredStages, BaseDecides
<1>2. EngineDecision(s, m, conflict) = FirstRule(rules)
  BY DEF EngineDecision, Rules
<1> HIDE DEF d
<1>3. a \in Tables /\ b \in Tables /\ q \in Tables /\ p \in Tables
  BY <1>1, SafetyDecides, ClaimDecides, QuestionDecides, PriceDecides
<1>4. w \in Tables /\ Len(w) = 6 /\ w[6][1]
  BY <1>1, WorkDecides
<1> HIDE DEF a, b, q, p, w
<1>5. front \in Tables /\ Len(front) \in Nat
  BY <1>3 DEF Tables
<1> HIDE DEF front
<1> DEFINE n == Len(front) + 6
<1>6. rules \in Tables /\ Len(rules) = n /\ n \in Nat /\ n > 0 /\ rules[n] = w[6]
  <2> DEFINE Rows == BOOLEAN \X Decisions
  <2>1. front \in Seq(Rows) /\ w \in Seq(Rows)
    BY <1>4, <1>5 DEF Tables
  <2> HIDE DEF Rows
  <2>2. /\ rules \in Seq(Rows) /\ Len(rules) = Len(front) + Len(w)
        /\ \A i \in 1 .. Len(rules) :
             rules[i] = IF i <= Len(front) THEN front[i] ELSE w[i - Len(front)]
    BY <2>1, ConcatProperties
  <2>3. n \in Nat /\ n > Len(front) /\ n > 0 /\ n - Len(front) = 6 /\ Len(rules) = n
    BY <1>4, <1>5, <2>2
  <2> HIDE DEF n, rules
  <2>4. n \in 1 .. Len(rules) /\ ~(n <= Len(front))
    BY <1>5, <2>3
  <2>5. rules[n] = w[6]
    BY <2>2, <2>3, <2>4
  <2> QED
    BY <2>2, <2>3, <2>5 DEF Tables, Rows
<1> HIDE DEF rules, n
<1>7. rules[n][1]
  BY <1>4, <1>6
<1>8. \A i \in 1 .. n : rules[i][2] \in Decisions
  BY <1>6 DEF Tables
<1>9. FirstRule(rules) \in Decisions
  BY <1>6, <1>7, <1>8, FirstRuleHas, Zenon
<1> QED
  BY <1>2, <1>9

LEMMA ToolResults ==
  ASSUME NEW d \in Decisions, NEW status
  PROVE  WithToolResult(d, status) \in Decisions
<1> DEFINE askDate == [d EXCEPT !.action = "COLLECT_INFORMATION", !.missing = {"preferredDate"}]
           offer == [d EXCEPT !.stage = "APPOINTMENT_PROPOSED", !.action = "OFFER_APPOINTMENT"]
<1>1. /\ {"preferredDate"} \in SUBSET Facts /\ "APPOINTMENT_PROPOSED" \in Stages
      /\ {"COLLECT_INFORMATION", "OFFER_APPOINTMENT"} \subseteq ActionTypes
  BY DEF Facts, Stages, ActionTypes
<1>2. askDate \in Decisions /\ offer \in Decisions
  BY <1>1 DEF Decisions
<1>3. HandedOff(d) \in Decisions
  BY HandsOff
<1>4. CASE d.tool = "GET_SERVICE_PRICE"
  <2>1. d.tool # "GET_AVAILABLE_SLOTS"
    BY <1>4
  <2>2. CASE status = "BLOCKED"
    <3>1. WithToolResult(d, status) = HandedOff(d)
      BY <1>4, <2>1, <2>2, Zenon DEF WithToolResult
    <3> QED
      BY <1>3, <3>1
  <2>3. CASE status # "BLOCKED"
    <3>1. WithToolResult(d, status) = d
      BY <2>1, <2>3, Zenon DEF WithToolResult
    <3> QED
      BY <3>1
  <2> QED
    BY <2>2, <2>3
<1>5. CASE d.tool = "GET_AVAILABLE_SLOTS"
  <2>1. d.tool # "GET_SERVICE_PRICE"
    BY <1>5
  <2>2. WithToolResult(d, status) = IF status = "BLOCKED" \/ AvailableSlots = {} THEN askDate ELSE offer
    BY <1>5, <2>1, Zenon DEF WithToolResult
  <2> HIDE DEF askDate, offer
  <2> QED
    BY <1>2, <2>2
<1>6. CASE d.tool # "GET_SERVICE_PRICE" /\ d.tool # "GET_AVAILABLE_SLOTS"
  <2>1. WithToolResult(d, status) = d
    BY <1>6, Zenon DEF WithToolResult
  <2> QED
    BY <2>1
<1> QED
  BY <1>4, <1>5, <1>6

LEMMA DecisionIsFinal ==
  ASSUME NEW c, calls[c].decision \in Decisions
  PROVE  FinalDecision(c) \in Decisions
<1>1. Validated(calls[c].decision) \in Decisions
  BY HandsOff DEF Validated
<1> QED
  BY <1>1, ToolResults DEF FinalDecision

LEMMA ScenarioOfDecision ==
  ASSUME NEW d
  PROVE  ScenarioForDecision(d) \in Scenarios \cup {"none"}
<1>1. CASE d.reason = "PRICE_QUESTION"
  BY <1>1 DEF ScenarioForDecision, Scenarios
<1>2. CASE d.reason = "BOOKING_INTENT"
  BY <1>2 DEF ScenarioForDecision, Scenarios
<1>3. CASE d.reason = "MISSING_REQUIRED_INFORMATION"
  BY <1>3 DEF ScenarioForDecision, Scenarios
<1>4. CASE d.reason \notin {"PRICE_QUESTION", "BOOKING_INTENT", "MISSING_REQUIRED_INFORMATION"}
  <2>1. /\ d.reason # "PRICE_QUESTION" /\ d.reason # "BOOKING_INTENT"
        /\ d.reason # "MISSING_REQUIRED_INFORMATION"
    BY <1>4
  <2>2. ScenarioForDecision(d) = ScenarioOf(d.stage)
    BY <2>1, Zenon DEF ScenarioForDecision
  <2> QED
    BY <2>2, ScenarioOfStage
<1> QED
  BY <1>1, <1>2, <1>3, <1>4

-----------------------------------------------------------------------------
(* The calls.                                                              *)

Waiting == [pc : {"deciding"}, id : Ids, before : {"AI_ACTIVE", "HUMAN_ACTIVE"}, decision : Decisions]

\* A conversation that was read after the n-th takeover at the latest, when it was not closed.
Readable(n) == {v \in Conversations : v.mode # "CLOSED" /\ v.handoff <= n}

Outgoing(n) == [pc : {"sending"}, author : {"ASSISTANT", "BUSINESS"}, conversation : Readable(n)]

CallRows(n) == {NoCall} \cup Waiting \cup Outgoing(n)

DemoInv ==
  /\ Sound(demo)
  /\ calls \in [Calls -> CallRows(demo.handoffs)]
  /\ received \subseteq Ids
  /\ decided \in [Ids -> 0 .. 1]
  /\ \A i \in Ids : decided[i] > 0 => i \in received
  /\ \A c \in Calls : calls[c].pc = "deciding" => calls[c].id \in received /\ decided[calls[c].id] = 0
  /\ \A c, d \in Calls :
       calls[c].pc = "deciding" /\ calls[d].pc = "deciding" /\ calls[c].id = calls[d].id => c = d

LEMMA RowsOfCalls ==
  ASSUME NEW n, NEW row \in CallRows(n)
  PROVE  /\ row.pc \in {"idle", "deciding", "sending"}
         /\ row.pc = "idle" => row = NoCall
         /\ row.pc = "deciding" => row \in Waiting
         /\ row.pc = "sending" => row \in Outgoing(n)
<1>1. CASE row = NoCall
  BY <1>1 DEF NoCall
<1>2. CASE row \in Waiting
  BY <1>2 DEF Waiting
<1>3. CASE row \in Outgoing(n)
  BY <1>3 DEF Outgoing
<1> QED
  BY <1>1, <1>2, <1>3 DEF CallRows

\* What a call keeps stays valid while the takeovers become more.
LEMMA CallRowsGrow ==
  ASSUME NEW n \in Nat, NEW k \in Nat, n <= k
  PROVE  CallRows(n) \subseteq CallRows(k)
<1>1. Readable(n) \subseteq Readable(k)
  BY DEF Readable, Conversations
<1>2. Outgoing(n) \subseteq Outgoing(k)
  BY <1>1 DEF Outgoing
<1> QED
  BY <1>2 DEF CallRows

LEMMA CallsStayValid ==
  ASSUME DemoInv, Kept(demo, demo')
  PROVE  calls \in [Calls -> CallRows(demo'.handoffs)]
<1>1. demo.handoffs \in Nat /\ demo'.handoffs \in Nat /\ demo.handoffs <= demo'.handoffs
  BY DEF DemoInv, Kept, Sound, Shaped, Parts
<1>2. CallRows(demo.handoffs) \subseteq CallRows(demo'.handoffs)
  BY <1>1, CallRowsGrow
<1> QED
  BY <1>2 DEF DemoInv

\* A step that changes the opportunity, and perhaps ends a call.
LEMMA CallEnds ==
  ASSUME DemoInv, Kept(demo, demo'), NEW c \in Calls,
         calls' = calls \/ calls' = [calls EXCEPT ![c] = NoCall],
         UNCHANGED <<received, decided>>
  PROVE  DemoInv'
<1>1. calls \in [Calls -> CallRows(demo'.handoffs)] /\ NoCall \in CallRows(demo'.handoffs)
  BY CallsStayValid DEF CallRows
<1>2. calls' \in [Calls -> CallRows(demo'.handoffs)]
  BY <1>1
<1>3. \A d \in Calls : calls'[d].pc = "deciding" => calls'[d] = calls[d]
  BY <1>1 DEF NoCall
<1>4. Sound(demo)'
  BY DEF Kept, Sound, Shaped, Parts, HasAction, Silent
<1> QED
  BY <1>2, <1>3, <1>4 DEF DemoInv

LEMMA OwnerKeepsInv ==
  ASSUME DemoInv, OwnerOperation, UNCHANGED <<kind, calls, received, decided>>
  PROVE  DemoInv'
<1>1. Kept(demo, demo')
  BY OwnerKeepsSound DEF DemoInv
<1>2. calls \in [Calls -> CallRows(demo'.handoffs)]
  BY <1>1, CallsStayValid
<1>3. Sound(demo)'
  BY <1>1 DEF Kept, Sound, Shaped, Parts, HasAction, Silent
<1> QED
  BY <1>2, <1>3 DEF DemoInv

LEMMA HeardSoundly ==
  ASSUME NEW s, Sound(s), NEW m \in Messages
  PROVE  LET r == Heard(s, m)
         IN  Sound(r) /\ r.handoffs = s.handoffs /\ r.conversation.mode = s.conversation.mode
<1> DEFINE u == StopFollowUps(s)
           marketing == u.marketing /\ ~m.stop
           t == [u EXCEPT !.conversation.heard = TRUE, !.marketing = marketing]
<1>1. /\ m.fact \in Facts \cup {"none"} /\ m.value \in 0 .. 2
  BY MessageAssumption
<1>2. Heard(s, m) = Capture(t, m)
  BY DEF Heard
<1>3. /\ Shaped(u) /\ \A x \in Scenarios : u.followUps[x] = 0
      /\ u.lead = s.lead /\ u.conversation = s.conversation /\ u.handoffs = s.handoffs
  BY FollowUpsStopped DEF Sound
<1> HIDE DEF u
<1>4. u \in Parts(u) /\ marketing \in BOOLEAN
  BY <1>3 DEF Shaped
<1> HIDE DEF marketing
<1>5. /\ t \in Parts(t) /\ t.lead = u.lead /\ t.conversation.mode = u.conversation.mode
      /\ t.conversation.handoff = u.conversation.handoff
      /\ t.followUps = u.followUps /\ t.handoffs = u.handoffs /\ t.openHandoff = u.openHandoff
      /\ t.payments = u.payments
  BY <1>4 DEF Parts, Conversations
<1> HIDE DEF t
<1>6. Sound(t) /\ t.handoffs = s.handoffs /\ t.conversation.mode = s.conversation.mode
  BY <1>3, <1>5 DEF Sound, Shaped, HasAction, Silent
<1>7. CASE m.fact = "none" \/ Conflicts(t, m)
  BY <1>2, <1>6, <1>7 DEF Capture
<1>8. CASE ~(m.fact = "none" \/ Conflicts(t, m))
  <2> DEFINE memory == [t.memory EXCEPT ![m.fact] = m.value]
             service == t.lead.service \/ (m.fact = "service" /\ m.value = 1)
             r == [t EXCEPT !.memory = memory, !.lead.service = service]
  <2>1. Capture(t, m) = r
    BY <1>8 DEF Capture
  <2>2. t.memory \in [Facts -> 0 .. 2]
    BY <1>5 DEF Parts
  <2>3. memory \in [Facts -> 0 .. 2] /\ service \in BOOLEAN
    BY <1>1, <1>8, <2>2
  <2> HIDE DEF memory, service
  <2>4. /\ r \in Parts(r) /\ r.lead.action = t.lead.action /\ r.lead.status = t.lead.status
        /\ r.conversation = t.conversation
        /\ r.followUps = t.followUps /\ r.handoffs = t.handoffs /\ r.openHandoff = t.openHandoff
        /\ r.payments = t.payments
    BY <1>5, <2>3 DEF Parts, Leads
  <2> HIDE DEF r
  <2>5. Sound(r)
    BY <1>6, <2>4 DEF Sound, Shaped, HasAction, Silent
  <2> QED
    BY <1>2, <1>6, <2>1, <2>4, <2>5
<1> QED
  BY <1>7, <1>8

LEMMA AcceptedSoundly ==
  ASSUME DemoInv, NEW c \in Calls, NEW m \in Messages, calls[c] = NoCall,
         NEW s, Sound(s), s.handoffs = demo.handoffs, Acceptable(s, m), Accept(s, c, m)
  PROVE  DemoInv'
<1> DEFINE r == Heard(s, m)
           row == [pc |-> "deciding", id |-> m.id, before |-> s.conversation.mode,
                   decision |-> EngineDecision(r, m, Conflicts(s, m))]
<1>1. /\ demo' = r /\ calls' = [calls EXCEPT ![c] = row]
      /\ received' = received \cup {m.id} /\ decided' = decided
  BY DEF Accept
<1>2. Sound(r) /\ r.handoffs = s.handoffs
  BY HeardSoundly
<1>3. EngineDecision(r, m, Conflicts(s, m)) \in Decisions
  BY EngineDecides
<1>4. s.conversation.mode \in {"AI_ACTIVE", "HUMAN_ACTIVE"}
  BY DEF Acceptable, Sound, Shaped, Parts, Conversations
<1>5. m.id \in Ids /\ m.id \notin received
  BY DEF Ids, Acceptable, NotReceived
<1>6. row \in Waiting /\ row.pc = "deciding" /\ row.id = m.id
  BY <1>3, <1>4, <1>5 DEF Waiting
<1> HIDE DEF r, row
<1>7. Kept(demo, demo')
  BY <1>1, <1>2, KeptIfSame DEF DemoInv
<1>8. calls \in [Calls -> CallRows(demo'.handoffs)] /\ row \in CallRows(demo'.handoffs)
  BY <1>6, <1>7, CallsStayValid DEF CallRows
<1>9. /\ calls' \in [Calls -> CallRows(demo'.handoffs)]
      /\ \A d \in Calls : calls'[d] = IF d = c THEN row ELSE calls[d]
  BY <1>1, <1>8
<1>10. decided[m.id] = 0
  BY <1>5 DEF DemoInv
<1>11. /\ \A d \in Calls : calls'[d].pc = "deciding" =>
            calls'[d].id \in received' /\ decided'[calls'[d].id] = 0
       /\ \A d, e \in Calls :
            calls'[d].pc = "deciding" /\ calls'[e].pc = "deciding" /\ calls'[d].id = calls'[e].id => d = e
  BY <1>1, <1>5, <1>6, <1>9, <1>10 DEF DemoInv
<1>12. /\ received' \subseteq Ids /\ decided' \in [Ids -> 0 .. 1]
       /\ \A i \in Ids : decided'[i] > 0 => i \in received'
  BY <1>1, <1>5 DEF DemoInv
<1>13. Sound(demo)'
  BY <1>1, <1>2 DEF Sound, Shaped, Parts, HasAction, Silent
<1> QED
  BY <1>9, <1>11, <1>12, <1>13 DEF DemoInv

\* A conversation that was read before the await is saved after it.
LEMMA SentSoundly ==
  ASSUME DemoInv, NEW c \in Calls, Sent(c)
  PROVE  DemoInv'
<1> DEFINE v == calls[c].conversation
           r == [demo EXCEPT !.conversation = v]
<1>1. demo' = r /\ calls' = [calls EXCEPT ![c] = NoCall] /\ UNCHANGED <<received, decided>>
  BY DEF Sent
<1>2. v \in Conversations /\ v.mode # "CLOSED" /\ v.handoff <= demo.handoffs
  <2>1. calls[c] \in Outgoing(demo.handoffs)
    BY RowsOfCalls DEF DemoInv, Sent
  <2> QED
    BY <2>1 DEF Outgoing, Readable
<1>3. Sound(demo) /\ demo \in Parts(demo)
  BY DEF DemoInv, Sound, Shaped
<1> HIDE DEF v
<1>4. /\ r \in Parts(r) /\ r.lead = demo.lead /\ r.conversation = v
      /\ r.followUps = demo.followUps /\ r.handoffs = demo.handoffs /\ r.openHandoff = demo.openHandoff
      /\ r.payments = demo.payments
  BY <1>2, <1>3 DEF Parts
<1> HIDE DEF r
<1>5. Sound(r)
  BY <1>2, <1>3, <1>4 DEF Sound, Shaped, HasAction, Silent
<1>6. Kept(demo, demo')
  BY <1>1, <1>3, <1>4, <1>5, KeptIfSame
<1> QED
  BY <1>1, <1>6, CallEnds

LEMMA SuggestedSoundly ==
  ASSUME Sound(demo), NEW c, FinalDecision(c) \in Decisions
  PROVE  LET r == Suggested(c)
         IN  Sound(r) /\ r.handoffs = demo.handoffs /\ r.conversation.mode = demo.conversation.mode
<1> DEFINE stage == FinalDecision(c).stage
           r == [demo EXCEPT !.conversation.stage = stage]
<1>1. demo \in Parts(demo) /\ stage \in Stages
  BY DEF Sound, Shaped, Decisions
<1>2. Suggested(c) = r
  BY DEF Suggested
<1> HIDE DEF stage
<1>3. /\ r \in Parts(r) /\ r.lead = demo.lead /\ r.conversation.mode = demo.conversation.mode
      /\ r.conversation.handoff = demo.conversation.handoff
      /\ r.followUps = demo.followUps /\ r.handoffs = demo.handoffs /\ r.openHandoff = demo.openHandoff
      /\ r.payments = demo.payments
  BY <1>1 DEF Parts, Conversations
<1> HIDE DEF r
<1> QED
  BY <1>2, <1>3 DEF Sound, Shaped, HasAction, Silent

\* Acting on a decision that does not ask for a human keeps the mode; one that does is not acted on
\* in a closed conversation.
LEMMA ActedSoundly ==
  ASSUME Sound(demo), NEW c, FinalDecision(c) \in Decisions,
         calls[c].before = "HUMAN_ACTIVE" \/ ~FinalDecision(c).handoff
           \/ demo.conversation.mode # "CLOSED"
  PROVE  /\ Kept(demo, Acted(c))
         /\ ~FinalDecision(c).handoff => Acted(c).conversation.mode = demo.conversation.mode
<1> DEFINE d == FinalDecision(c)
           r == Suggested(c)
           t == ReplaceAction(r, d.action, "now")
           x == ScenarioForDecision(d)
           u == Schedule(t, x)
<1>1. Acted(c) = IF calls[c].before = "HUMAN_ACTIVE" THEN r
                 ELSE IF d.handoff THEN TakeOver(r)
                 ELSE IF d.followUp /\ MaySchedule(t, x) THEN u ELSE t
  BY DEF Acted
<1>2. d.action \in ActionTypes /\ x \in Scenarios \cup {"none"} /\ demo.handoffs \in Nat
  BY ScenarioOfDecision DEF Decisions, Sound, Shaped, Parts
<1>3. Sound(r) /\ r.handoffs = demo.handoffs /\ r.conversation.mode = demo.conversation.mode
  BY SuggestedSoundly
<1>4. r.conversation.mode # "CLOSED" => Sound(TakeOver(r)) /\ TakeOver(r).handoffs >= r.handoffs
  BY <1>3, TakenOver
<1> HIDE DEF r
<1>5. /\ Sound(t) /\ t.handoffs = r.handoffs /\ t.conversation.mode = r.conversation.mode
  BY <1>2, <1>3, ActionReplacedSoundly, ActionReplaced DEF Sound
<1> HIDE DEF t
<1>6. MaySchedule(t, x) =>
        Sound(u) /\ u.handoffs = t.handoffs /\ u.conversation.mode = t.conversation.mode
  <2> SUFFICES ASSUME MaySchedule(t, x)
               PROVE  Sound(u) /\ u.handoffs = t.handoffs /\ u.conversation.mode = t.conversation.mode
    OBVIOUS
  <2>1. x \in Scenarios /\ t.conversation.mode = "AI_ACTIVE"
    BY <1>2 DEF MaySchedule, Unblocked
  <2> HIDE DEF x
  <2>2. /\ Shaped(u) /\ Silent(u)
        /\ u.lead = t.lead /\ u.conversation = t.conversation /\ u.handoffs = t.handoffs
    BY <1>5, <2>1, ScheduledSoundly DEF Sound
  <2> HIDE DEF u
  <2> QED
    BY <1>5, <2>2 DEF Sound, HasAction
<1> HIDE DEF u, x, d
<1>7. CASE calls[c].before = "HUMAN_ACTIVE"
  BY <1>1, <1>2, <1>3, <1>7 DEF Kept
<1>8. CASE calls[c].before # "HUMAN_ACTIVE" /\ d.handoff
  <2>1. Acted(c) = TakeOver(r) /\ r.conversation.mode # "CLOSED"
    BY <1>1, <1>3, <1>8 DEF d
  <2> QED
    BY <1>3, <1>4, <1>8, <2>1 DEF Kept, d
<1>9. CASE calls[c].before # "HUMAN_ACTIVE" /\ ~d.handoff
  <2>1. (Acted(c) = u /\ MaySchedule(t, x)) \/ Acted(c) = t
    BY <1>1, <1>9
  <2> QED
    BY <1>2, <1>3, <1>5, <1>6, <2>1 DEF Kept
<1> QED
  BY <1>7, <1>8, <1>9

LEMMA DecidingCall ==
  ASSUME DemoInv, NEW c \in Calls, calls[c].pc = "deciding"
  PROVE  /\ calls[c].id \in Ids /\ calls[c].before \in {"AI_ACTIVE", "HUMAN_ACTIVE"}
         /\ FinalDecision(c) \in Decisions
<1>1. calls[c] \in Waiting
  BY RowsOfCalls DEF DemoInv
<1>2. /\ calls[c].id \in Ids /\ calls[c].before \in {"AI_ACTIVE", "HUMAN_ACTIVE"}
      /\ calls[c].decision \in Decisions
  BY <1>1 DEF Waiting
<1> QED
  BY <1>2, DecisionIsFinal

LEMMA DecidedSoundly ==
  ASSUME DemoInv, NEW c \in Calls, Decide(c)
  PROVE  DemoInv'
<1> DEFINE r == Acted(c)
           row == IF RepliesByItself(c) /\ MaySend(r, "ASSISTANT") THEN Sending(r, "ASSISTANT") ELSE NoCall
           id == calls[c].id
<1>1. /\ demo' = r /\ calls' = [calls EXCEPT ![c] = row]
      /\ decided' = [decided EXCEPT ![id] = @ + 1] /\ received' = received
      /\ calls[c].pc = "deciding"
  BY DEF Decide
<1>2. /\ id \in Ids /\ calls[c].before \in {"AI_ACTIVE", "HUMAN_ACTIVE"}
      /\ FinalDecision(c) \in Decisions
  BY <1>1, DecidingCall
<1>3. calls[c].before = "HUMAN_ACTIVE" \/ ~FinalDecision(c).handoff \/ demo.conversation.mode # "CLOSED"
  BY <1>2 DEF Decide, Throws
<1>4. Kept(demo, r)
  BY <1>2, <1>3, ActedSoundly DEF DemoInv
<1> HIDE DEF r
<1>5. Kept(demo, demo')
  BY <1>1, <1>4
<1>6. row \in CallRows(demo'.handoffs) /\ row.pc \in {"idle", "sending"}
  <2>1. CASE RepliesByItself(c) /\ MaySend(r, "ASSISTANT")
    <3>1. r.conversation \in Readable(r.handoffs)
      BY <1>4, <2>1 DEF Kept, Sound, Shaped, Parts, MaySend, Readable
    <3>2. row = [pc |-> "sending", author |-> "ASSISTANT", conversation |-> r.conversation]
      BY <2>1 DEF Sending
    <3>3. row \in Outgoing(r.handoffs) /\ row.pc = "sending"
      BY <3>1, <3>2 DEF Outgoing
    <3> QED
      BY <1>1, <3>3 DEF CallRows
  <2>2. CASE ~(RepliesByItself(c) /\ MaySend(r, "ASSISTANT"))
    BY <2>2 DEF CallRows, NoCall
  <2> QED
    BY <2>1, <2>2
<1> HIDE DEF row
<1>7. calls \in [Calls -> CallRows(demo'.handoffs)]
  BY <1>5, CallsStayValid
<1>8. /\ calls' \in [Calls -> CallRows(demo'.handoffs)]
      /\ \A d \in Calls : calls'[d].pc = "deciding" => d # c /\ calls'[d] = calls[d]
  BY <1>1, <1>6, <1>7
<1>9. id \in received /\ decided[id] = 0
  BY <1>1 DEF DemoInv
<1>10. \A d \in Calls : calls'[d].pc = "deciding" => calls[d].id # id
  BY <1>1, <1>8 DEF DemoInv
<1> HIDE DEF id
<1>11. /\ decided' \in [Ids -> 0 .. 1]
       /\ \A i \in Ids : decided'[i] = IF i = id THEN 1 ELSE decided[i]
  BY <1>1, <1>2, <1>9 DEF DemoInv
<1>12. \A i \in Ids : decided'[i] > 0 => i \in received'
  BY <1>1, <1>9, <1>11 DEF DemoInv
<1>13. \A d \in Calls : calls'[d].pc = "deciding" =>
         calls'[d].id \in received' /\ decided'[calls'[d].id] = 0
  <2> SUFFICES ASSUME NEW d \in Calls, calls'[d].pc = "deciding"
               PROVE  calls'[d].id \in received' /\ decided'[calls'[d].id] = 0
    OBVIOUS
  <2>1. calls'[d] = calls[d] /\ calls[d].id # id /\ calls[d].pc = "deciding"
    BY <1>8, <1>10
  <2>2. calls[d].id \in received /\ decided[calls[d].id] = 0 /\ calls[d].id \in Ids
    BY <2>1 DEF DemoInv
  <2> QED
    BY <1>1, <1>11, <2>1, <2>2
<1>14. Sound(demo)'
  BY <1>1, <1>4 DEF Kept, Sound, Shaped, Parts, HasAction, Silent
<1> QED
  BY <1>1, <1>8, <1>11, <1>12, <1>13, <1>14 DEF DemoInv

LEMMA ThrownSoundly ==
  ASSUME DemoInv, NEW c \in Calls, DecideThrows(c)
  PROVE  DemoInv'
<1>1. calls[c].pc = "deciding" /\ Throws(c)
  BY DEF DecideThrows
<1>2. FinalDecision(c) \in Decisions
  BY <1>1, DecidingCall
<1>3. CASE FinalDecision(c).handoff
  <2>1. demo' = Suggested(c)
    BY <1>3 DEF DecideThrows
  <2>2. Kept(demo, demo')
    BY <1>2, <2>1, SuggestedSoundly, KeptIfSame DEF DemoInv
  <2> QED
    BY <2>2, CallEnds DEF DecideThrows
<1>4. CASE ~FinalDecision(c).handoff
  <2>1. demo' = Acted(c)
    BY <1>4 DEF DecideThrows
  <2>2. Kept(demo, demo')
    BY <1>2, <1>4, <2>1, ActedSoundly DEF DemoInv
  <2> QED
    BY <2>2, CallEnds DEF DecideThrows
<1> QED
  BY <1>3, <1>4

LEMMA ReturnKeepsInv ==
  ASSUME DemoInv, NEW c \in Calls, NEW m \in Messages, IngestReturn(c, m)
  PROVE  DemoInv'
<1>1. Sound(Reopen(demo)) /\ Reopen(demo).handoffs = demo.handoffs
  BY ReopenedSoundly DEF DemoInv
<1>2. CASE Acceptable(Reopen(demo), m)
  BY <1>1, <1>2, AcceptedSoundly DEF IngestReturn
<1>3. CASE ~Acceptable(Reopen(demo), m)
  <2>1. demo' = Reopen(demo) /\ UNCHANGED <<calls, received, decided>>
    BY <1>3 DEF IngestReturn
  <2>2. Kept(demo, demo')
    BY <1>1, <2>1, KeptIfSame DEF DemoInv
  <2> QED
    BY <2>1, <2>2, CallEnds
<1> QED
  BY <1>2, <1>3

LEMMA BusinessKeepsInv ==
  ASSUME DemoInv, NEW c \in Calls, SendBusinessMessage(c)
  PROVE  DemoInv'
<1> DEFINE row == Sending(demo, "BUSINESS")
<1>1. /\ calls' = [calls EXCEPT ![c] = row] /\ UNCHANGED <<demo, received, decided>>
      /\ MaySend(demo, "BUSINESS")
  BY DEF SendBusinessMessage
<1>2. demo.conversation \in Readable(demo.handoffs)
  BY <1>1 DEF DemoInv, Sound, Shaped, Parts, MaySend, Readable
<1>3. row \in Outgoing(demo.handoffs) /\ row.pc = "sending"
  BY <1>2 DEF Sending, Outgoing
<1>4. row \in CallRows(demo.handoffs)
  BY <1>3 DEF CallRows
<1> HIDE DEF row
<1>5. /\ calls' \in [Calls -> CallRows(demo.handoffs)]
      /\ \A d \in Calls : calls'[d].pc = "deciding" => calls'[d] = calls[d]
  BY <1>1, <1>3, <1>4 DEF DemoInv
<1>6. Sound(demo)' /\ demo'.handoffs = demo.handoffs
  BY <1>1 DEF DemoInv, Sound, Shaped, Parts, HasAction, Silent
<1> QED
  BY <1>1, <1>5, <1>6 DEF DemoInv

LEMMA CallsKeepInv ==
  ASSUME DemoInv, NextCalls
  PROVE  DemoInv'
<1>1. ASSUME NEW c \in Calls, NEW m \in Messages, ReceiveCustomerMessage(c, m) PROVE DemoInv'
  <2>1. Sound(demo)
    BY DEF DemoInv
  <2> QED
    BY <1>1, <2>1, AcceptedSoundly DEF ReceiveCustomerMessage
<1>2. ASSUME NEW c \in Calls, NEW m \in Messages, IngestReturn(c, m) PROVE DemoInv'
  BY <1>2, ReturnKeepsInv
<1>3. ASSUME NEW c \in Calls, SendBusinessMessage(c) PROVE DemoInv'
  BY <1>3, BusinessKeepsInv
<1>4. ASSUME NEW c \in Calls, Sent(c) PROVE DemoInv'
  BY <1>4, SentSoundly
<1>5. ASSUME NEW c \in Calls, CallLost(c) PROVE DemoInv'
  <2>1. Kept(demo, demo')
    <3>1. demo' = demo /\ Sound(demo)
      BY <1>5 DEF CallLost, DemoInv
    <3> QED
      BY <3>1, KeptIfSame
  <2> QED
    BY <1>5, <2>1, CallEnds DEF CallLost
<1>6. ASSUME NEW c \in Calls, Decide(c) PROVE DemoInv'
  BY <1>6, DecidedSoundly
<1>7. ASSUME NEW c \in Calls, DecideThrows(c) PROVE DemoInv'
  BY <1>7, ThrownSoundly
<1> QED
  BY <1>1, <1>2, <1>3, <1>4, <1>5, <1>6, <1>7 DEF NextCalls

-----------------------------------------------------------------------------
(* Theorems.                                                               *)

LEMMA DemoInvInit == InitConversation => DemoInv
<1> SUFFICES ASSUME InitConversation PROVE DemoInv
  OBVIOUS
<1>1. PICK marketing \in BOOLEAN :
       demo = [lead |-> [status |-> "NEW", reason |-> "none", service |-> FALSE,
                         action |-> [type |-> "REPLY_TO_CUSTOMER", due |-> "now"]],
               conversation |-> [mode |-> "AI_ACTIVE", stage |-> "NEW_INQUIRY", complete |-> FALSE,
                                 action |-> "REPLY_TO_CUSTOMER", handoff |-> 0, heard |-> FALSE],
               marketing |-> marketing,
               openHandoff |-> 0, handoffs |-> 0,
               followUps |-> [x \in Scenarios |-> 0],
               memory |-> [f \in Facts |-> 0],
               appointments |-> [a \in Appointments |-> [status |-> "NONE", slot |-> "none"]],
               quotes |-> [q \in Quotes |-> [status |-> "NONE"]],
               jobs |-> [q \in Quotes |-> [status |-> "NONE", slot |-> "none"]],
               recent |-> [appointments |-> <<>>, quotes |-> <<>>, jobs |-> <<>>],
               payments |-> <<>>,
               verified |-> {}]
  BY DEF InitConversation, InitDemo
<1>2. /\ demo \in Parts(demo) /\ demo.lead.status = "NEW"
      /\ demo.lead.action.type = "REPLY_TO_CUSTOMER" /\ demo.conversation.mode = "AI_ACTIVE"
      /\ demo.conversation.handoff = 0 /\ demo.openHandoff = 0 /\ demo.handoffs = 0
      /\ \A x \in Scenarios : demo.followUps[x] = 0
  BY <1>1 DEF Parts, Leads, Conversations, Statuses, Stages, NextActions, ActionTypes
<1>3. Sound(demo)
  <2>1. Ledgered(demo.payments)
    BY <1>1, NothingLedgered
  <2> QED
    BY <1>2, <2>1, LimitIsLarger DEF Sound, Shaped, HasAction, Silent, NextActions, ActionTypes
<1> QED
  BY <1>3 DEF DemoInv, InitConversation, CallRows, NoCall

LEMMA DemoInvStep == DemoInv /\ [NextDemo]_conversationVars => DemoInv'
<1>1. ASSUME DemoInv, OwnerOperation, UNCHANGED <<kind, calls, received, decided>> PROVE DemoInv'
  BY <1>1, OwnerKeepsInv
<1>2. ASSUME DemoInv, NextCalls PROVE DemoInv'
  BY <1>2, CallsKeepInv
<1>3. ASSUME DemoInv, UNCHANGED conversationVars PROVE DemoInv'
  <2>1. demo' = demo /\ calls' = calls /\ received' = received /\ decided' = decided
    BY <1>3 DEF conversationVars
  <2>2. Sound(demo)'
    BY <1>3, <2>1 DEF DemoInv, Sound, Shaped, Parts, HasAction, Silent
  <2> QED
    BY <1>3, <2>1, <2>2 DEF DemoInv
<1> QED
  BY <1>1, <1>2, <1>3 DEF NextDemo

LEMMA DemoInvHolds == DemoSpec => []DemoInv
BY DemoInvInit, DemoInvStep, PTL DEF DemoSpec

\* The rows stay in the enumerations of the code; a follow-up never has more attempts than its
\* cadence configures; a message is decided at most once, however often it is delivered while the
\* decision is awaited.
THEOREM DemoTypes == DemoSpec => []DemoTypeOK
<1>1. DemoInv => DemoTypeOK
  <2> SUFFICES ASSUME DemoInv PROVE DemoTypeOK
    OBVIOUS
  <2>1. Shaped(demo) /\ demo \in Parts(demo)
    BY DEF DemoInv, Sound, Shaped
  <2>2. /\ demo.lead.status \in {"NEW", "ACTIVE", "WON", "LOST"}
        /\ demo.lead.reason \in LostReasons \cup {"none"}
        /\ demo.lead.action.type \in ActionTypes \cup {"none"}
        /\ demo.conversation.mode \in {"AI_ACTIVE", "HUMAN_ACTIVE", "CLOSED"}
        /\ demo.conversation.stage \in Stages
        /\ demo.conversation.action \in ActionTypes \cup {"none"}
        /\ {demo.openHandoff, demo.conversation.handoff} \subseteq 0 .. demo.handoffs
        /\ demo.memory \in [Facts -> 0 .. 2]
    BY <2>1 DEF Shaped, Parts, Leads, Conversations, Statuses, NextActions
  <2>3. \A x \in Scenarios : demo.followUps[x] \in 0 .. Max({1, Cadence[x]})
    <3>1. ASSUME NEW x \in Scenarios PROVE demo.followUps[x] \in 0 .. Limit(x)
      <4>1. Limit(x) \in Nat
        BY LimitIsLarger
      <4> QED
        BY <2>1, <4>1 DEF Shaped, Parts
    <3> QED
      BY <3>1 DEF Limit
  <2>4. \A c \in Calls : calls[c].pc = "deciding" => calls[c].decision \in Decisions
    BY RowsOfCalls DEF DemoInv, Waiting
  <2> QED
    BY <2>2, <2>3, <2>4 DEF DemoTypeOK, DemoInv
<1> QED
  BY <1>1, DemoInvHolds, PTL

\* An opportunity that is open always has a next action.
THEOREM OpenLeadsHaveActions == DemoSpec => []ActiveLeadHasNextAction
<1>1. DemoInv => ActiveLeadHasNextAction
  BY DEF DemoInv, Sound, HasAction, ActiveLeadHasNextAction, NoAction
<1> QED
  BY <1>1, DemoInvHolds, PTL

\* A conversation is closed only with its opportunity, and nothing is scheduled in it, although a
\* message that was being sent saves the conversation it read before.
THEOREM ClosedStaysSilent == DemoSpec => []ClosedIsSilent
<1>1. DemoInv => ClosedIsSilent
  BY DEF DemoInv, Sound, Silent, ClosedIsSilent
<1> QED
  BY <1>1, DemoInvHolds, PTL

\* What was collected for an appointment, a quote or a job is never less than nothing and never more
\* than its total, whatever was paid, refunded and paid again, and in whatever order.
THEOREM CollectedStaysWithinTotal == DemoSpec => []CollectedWithinTotal
<1>1. DemoInv => CollectedWithinTotal
  <2> SUFFICES ASSUME DemoInv, NEW reference \in Payable
               PROVE  Collected(demo, reference.type, reference.id) \in 0 .. Price[reference.id]
    BY DEF CollectedWithinTotal
  <2> DEFINE p == demo.payments
             type == reference.type
             id == reference.id
  <2>1. type \in PaidTypes /\ id \in PaidIds
    BY DEF Payable, PaidTypes, PaidIds
  <2>2. Ledgered(p) /\ p \in Seq(PaymentRows)
    BY DEF DemoInv, Sound, Shaped, Ledgered
  <2>3. Collected(demo, type, id) = CollectedIn(p, type, id)
    BY <2>2, CollectedIsSum
  <2> HIDE DEF p, type, id
  <2>4. CollectedIn(p, type, id) \in 0 .. Price[id]
    BY <2>1, <2>2, CollectedBounds
  <2> QED
    BY <2>3, <2>4 DEF type, id
<1> QED
  BY <1>1, DemoInvHolds, PTL

\* The refunds of a payment never exceed it, however many are made one after another.
RefundsWithinPayments ==
  \A i \in DOMAIN demo.payments :
    demo.payments[i].kind = "PAYMENT" => Refunded(demo, i) <= demo.payments[i].amount

THEOREM RefundsStayWithinPayments == DemoSpec => []RefundsWithinPayments
<1>1. DemoInv => RefundsWithinPayments
  <2> SUFFICES ASSUME DemoInv, NEW i \in DOMAIN demo.payments, demo.payments[i].kind = "PAYMENT"
               PROVE  Refunded(demo, i) <= demo.payments[i].amount
    BY DEF RefundsWithinPayments
  <2> DEFINE p == demo.payments
  <2>1. p \in Seq(PaymentRows) /\ LeftIn(p)[i] >= 0
    BY DEF DemoInv, Sound, Shaped, Ledgered
  <2>2. Refunded(demo, i) = RefundedIn(p, i)
    BY <2>1, RefundedIsSum
  <2>3. LeftIn(p)[i] = p[i].amount - RefundedIn(p, i) /\ RefundedIn(p, i) \in Nat
    BY <2>1, AmountsAreNumbers
  <2>4. p[i] \in PaymentRows
    BY <2>1
  <2>5. p[i].amount \in Nat
    BY <2>4 DEF PaymentRows
  <2> HIDE DEF p
  <2>6. RefundedIn(p, i) <= p[i].amount
    BY <2>1, <2>3, <2>5
  <2> QED
    BY <2>2, <2>6 DEF p
<1> QED
  BY <1>1, DemoInvHolds, PTL

\* The scopes that TLC explores are behaviours of the demo.
THEOREM ScopesAreDemo == MCSpec => DemoSpec
<1>1. MCInit => InitConversation
  BY DEF MCInit
<1>2. [MCNext]_mcVars => [NextDemo]_conversationVars
  BY DEF MCNext, Quiet, NextDemo, OwnerOperation, mcVars, conversationVars
<1> QED
  BY <1>1, <1>2, PTL DEF MCSpec, DemoSpec

-----------------------------------------------------------------------------
(* What is won is done and, while the conversation is closed, paid. The    *)
(* orders in which rows were saved name the rows that exist, so that with  *)
(* one piece of work the journey looks at that one. A win is earned if     *)
(* its only work is completed, and paid unless a send opened it again.     *)
(* Operations that reconcile earn a win again whatever was collected, if   *)
(* the work is done; the others change neither work nor payments.          *)

WorkStatuses == {"NONE", "TENTATIVE", "CONFIRMED", "PENDING_DEPOSIT", "READY_TO_SCHEDULE", "SCHEDULED",
                 "CANCELLED", "COMPLETED"}
WorkRows == [status : WorkStatuses, slot : Slots \cup {"none"}]
Recents == [appointments : Seq(Appointments), quotes : Seq(Quotes), jobs : Seq(Quotes)]

Booked(s) ==
  /\ s.appointments \in [Appointments -> WorkRows]
  /\ s.jobs \in [Quotes -> WorkRows]
  /\ s.recent \in Recents
  /\ Range(s.recent.appointments) = {a \in Appointments : s.appointments[a].status # "NONE"}
  /\ Range(s.recent.jobs) = {q \in Quotes : s.jobs[q].status # "NONE"}

AppointmentWork(a) == [type |-> "APPOINTMENT", id |-> a]
JobWork(q) == [type |-> "JOB", id |-> q]

WorkOf(s) ==
  {AppointmentWork(a) : a \in {b \in Appointments : s.appointments[b].status # "NONE"}}
  \cup {JobWork(q) : q \in {r \in Quotes : s.jobs[r].status # "NONE"}}

StatusIn(s, w) == IF w.type = "JOB" THEN s.jobs[w.id].status ELSE s.appointments[w.id].status

Finished(s) == \A w \in WorkOf(s) : WorkOf(s) = {w} => StatusIn(s, w) = "COMPLETED"
PaidFor(s) == \A w \in WorkOf(s) : WorkOf(s) = {w} => CollectedIn(s.payments, w.type, w.id) = Price[w.id]

Won(s) == s.lead.status = "WON"
WonAndClosed(s) == Won(s) /\ s.conversation.mode = "CLOSED"
Done(s) == Won(s) => Finished(s)
Earned(s) == Done(s) /\ (WonAndClosed(s) => PaidFor(s))

WonInv == Booked(demo) /\ Earned(demo)

LEMMA GreatestIndex ==
  ASSUME NEW n \in Nat, NEW I \in SUBSET (1 .. n), I # {}
  PROVE  Max(I) \in I
<1> DEFINE J == {n - i : i \in I}
<1>1. J \in SUBSET Nat /\ J # {}
  <2>1. \A i \in I : i \in 1 .. n
    OBVIOUS
  <2>2. \A i \in I : n - i \in Nat
    BY <2>1
  <2> QED
    BY <2>2
<1>2. Min(J) \in J /\ \A j \in J : Min(J) <= j
  BY <1>1, LeastIndex
<1> HIDE DEF J
<1>3. PICK i \in I : Min(J) = n - i
  BY <1>2 DEF J
<1>4. ASSUME NEW k \in I PROVE i >= k
  <2>1. n - k \in J
    BY DEF J
  <2>2. n - i <= n - k
    BY <1>2, <1>3, <2>1
  <2> QED
    BY <2>2
<1> QED
  BY <1>4 DEF Max

\* A saved row is among the rows that were saved, with those that were there.
LEMMA TouchedRows ==
  ASSUME NEW S, NEW order \in Seq(S), NEW w \in S
  PROVE  /\ Touched(order, w) \in Seq(S)
         /\ Range(Touched(order, w)) = Range(order) \cup {w}
<1> DEFINE rest == RemoveFirst(order, w)
<1>1. /\ rest \in Seq(S) /\ Range(rest) \subseteq Range(order)
      /\ \A v \in Range(order) : v # w => v \in Range(rest)
  <2>1. CASE \E i \in 1 .. Len(order) : order[i] = w
    <3> DEFINE I == {i \in 1 .. Len(order) : order[i] = w}
               k == Min(I)
               left == SubSeq(order, 1, k - 1)
               right == SubSeq(order, k + 1, Len(order))
    <3>1. I \in SUBSET Nat /\ I # {} /\ Len(order) \in Nat
      BY <2>1
    <3>2. SelectInSeq(order, LAMBDA v : v = w) = k
      BY <3>1 DEF SelectInSeq
    <3>3. k \in I
      BY <3>1, LeastIndex
    <3>4. rest = left \o right
      BY <2>1, <3>2 DEF RemoveFirst, RemoveAt
    <3> HIDE DEF k
    <3>5. k \in 1 .. Len(order) /\ order[k] = w
      BY <3>3
    <3> HIDE DEF I
    <3>6. /\ left \in Seq(S) /\ Len(left) = k - 1 /\ \A i \in 1 .. (k - 1) : left[i] = order[i]
      BY <3>5, SubSeqProperties
    <3>7. /\ right \in Seq(S) /\ Len(right) = Len(order) - k
          /\ \A i \in 1 .. (Len(order) - k) : right[i] = order[k + i]
      BY <3>5, SubSeqProperties
    <3> HIDE DEF left, right, rest
    <3>8. /\ rest \in Seq(S) /\ Len(rest) = Len(left) + Len(right)
          /\ \A i \in 1 .. Len(rest) : rest[i] = IF i <= Len(left) THEN left[i] ELSE right[i - Len(left)]
      <4>1. left \in Seq(S) /\ right \in Seq(S)
        BY <3>6, <3>7
      <4>2. /\ left \o right \in Seq(S) /\ Len(left \o right) = Len(left) + Len(right)
            /\ \A i \in 1 .. Len(left) + Len(right) :
                 (left \o right)[i] = IF i <= Len(left) THEN left[i] ELSE right[i - Len(left)]
        BY <4>1, ConcatProperties
      <4> QED
        BY <3>4, <4>2
    <3>9. \A i \in 1 .. Len(rest) : rest[i] = IF i < k THEN order[i] ELSE order[i + 1]
      <4> TAKE i \in 1 .. Len(rest)
      <4>1. CASE i < k
        BY <3>5, <3>6, <3>7, <3>8, <4>1
      <4>2. CASE ~(i < k)
        <5>1. i - (k - 1) \in 1 .. (Len(order) - k) /\ ~(i <= Len(left))
          BY <3>5, <3>6, <3>7, <3>8, <4>2
        <5>2. rest[i] = right[i - (k - 1)] /\ k + (i - (k - 1)) = i + 1
          BY <3>5, <3>6, <3>8, <5>1
        <5> QED
          BY <3>7, <4>2, <5>1, <5>2
      <4> QED
        BY <4>1, <4>2
    <3>10. Len(rest) = Len(order) - 1
      BY <3>1, <3>5, <3>6, <3>7, <3>8
    <3>11. Range(rest) \subseteq Range(order)
      <4> SUFFICES ASSUME NEW i \in 1 .. Len(rest) PROVE \E j \in 1 .. Len(order) : rest[i] = order[j]
        BY <3>8 DEF Range
      <4>1. i \in 1 .. Len(order) /\ i + 1 \in 1 .. Len(order)
        BY <3>1, <3>10
      <4> QED
        BY <3>9, <4>1
    <3>12. ASSUME NEW j \in 1 .. Len(order), order[j] # w PROVE \E i \in 1 .. Len(rest) : rest[i] = order[j]
      <4>1. CASE j < k
        <5>1. j \in 1 .. Len(rest)
          BY <3>5, <3>10, <4>1
        <5> QED
          BY <3>9, <4>1, <5>1
      <4>2. CASE ~(j < k)
        <5>1. j # k
          BY <3>5, <3>12
        <5>2. j - 1 \in 1 .. Len(rest) /\ ~(j - 1 < k) /\ (j - 1) + 1 = j
          BY <3>5, <3>10, <4>2, <5>1
        <5> QED
          BY <3>9, <5>2
      <4> QED
        BY <4>1, <4>2
    <3>13. DOMAIN rest = 1 .. Len(rest) /\ DOMAIN order = 1 .. Len(order)
      BY <3>8
    <3>14. ASSUME NEW v \in Range(order), v # w PROVE v \in Range(rest)
      <4>1. PICK j \in 1 .. Len(order) : order[j] = v
        BY <3>13 DEF Range
      <4>2. PICK i \in 1 .. Len(rest) : rest[i] = order[j]
        BY <3>12, <3>14, <4>1
      <4> QED
        BY <3>13, <4>1, <4>2 DEF Range
    <3> QED
      BY <3>8, <3>11, <3>14
  <2>2. CASE ~(\E i \in 1 .. Len(order) : order[i] = w)
    BY <2>2 DEF RemoveFirst, Range
  <2> QED
    BY <2>1, <2>2
<1> HIDE DEF rest
<1>2. Touched(order, w) = Append(rest, w)
  BY DEF Touched, rest
<1>3. /\ Append(rest, w) \in Seq(S) /\ Len(Append(rest, w)) = Len(rest) + 1
      /\ \A i \in 1 .. Len(rest) : Append(rest, w)[i] = rest[i]
      /\ Append(rest, w)[Len(rest) + 1] = w
  BY <1>1, AppendProperties
<1>4. Range(Append(rest, w)) = Range(rest) \cup {w}
  <2> DEFINE more == Append(rest, w)
  <2>1. Len(rest) \in Nat /\ DOMAIN rest = 1 .. Len(rest) /\ DOMAIN more = 1 .. (Len(rest) + 1)
    BY <1>1, <1>3
  <2> HIDE DEF more
  <2>2. 1 .. (Len(rest) + 1) = (1 .. Len(rest)) \cup {Len(rest) + 1}
    BY <2>1
  <2> QED
    BY <1>3, <2>1, <2>2 DEF Range, more
<1>5. w \notin Range(order) \/ w \in Range(order)
  OBVIOUS
<1> QED
  BY <1>1, <1>2, <1>3, <1>4

\* The newest row is one of those that are kept, unless there is none.
LEMMA NewestIs ==
  ASSUME NEW S, NEW order \in Seq(S), NEW kept
  PROVE  \/ Newest(order, kept) \in Range(order) \cap kept
         \/ Newest(order, kept) = "none" /\ Range(order) \cap kept = {}
<1> DEFINE I == {i \in 1 .. Len(order) : order[i] \in kept}
<1>1. SelectLastInSeq(order, LAMBDA w : w \in kept) = IF I # {} THEN Max(I) ELSE 0
  BY DEF SelectLastInSeq
<1>2. I \in SUBSET (1 .. Len(order)) /\ Len(order) \in Nat /\ DOMAIN order = 1 .. Len(order)
  OBVIOUS
<1>3. CASE I = {}
  <2>1. Newest(order, kept) = "none"
    BY <1>1, <1>3 DEF Newest
  <2>2. Range(order) \cap kept = {}
    BY <1>2, <1>3 DEF Range
  <2> QED
    BY <2>1, <2>2
<1>4. CASE I # {}
  <2>1. Max(I) \in I
    BY <1>2, <1>4, GreatestIndex
  <2>2. Max(I) # 0
    BY <1>2, <2>1
  <2>3. Newest(order, kept) = order[Max(I)]
    BY <1>1, <1>4, <2>2 DEF Newest
  <2> QED
    BY <1>2, <2>1, <2>3 DEF Range
<1> QED
  BY <1>3, <1>4

-----------------------------------------------------------------------------
\* An operation that leaves the work and the payments alone and does not win.

SameBooks(s, r) ==
  /\ r.appointments = s.appointments /\ r.jobs = s.jobs
  /\ r.recent = s.recent /\ r.payments = s.payments

Carries(s, r) ==
  /\ Booked(s) => Booked(r)
  /\ Finished(s) => Finished(r)
  /\ PaidFor(s) => PaidFor(r)
  /\ Won(r) => Won(s)
  /\ WonAndClosed(r) => WonAndClosed(s)

LEMMA BooksDecide ==
  ASSUME NEW s, NEW r, SameBooks(s, r)
  PROVE  (Booked(s) => Booked(r)) /\ (Finished(s) => Finished(r)) /\ (PaidFor(s) => PaidFor(r))
<1>1. WorkOf(r) = WorkOf(s) /\ \A w : StatusIn(r, w) = StatusIn(s, w)
  BY DEF SameBooks, WorkOf, StatusIn
<1>2. Booked(s) => Booked(r)
  BY DEF SameBooks, Booked
<1> QED
  BY <1>1, <1>2 DEF SameBooks, Finished, PaidFor

LEMMA SameBooksCarry ==
  ASSUME NEW s, NEW r, SameBooks(s, r), Won(r) => Won(s),
         WonAndClosed(r) => WonAndClosed(s)
  PROVE  Carries(s, r)
BY BooksDecide DEF Carries

LEMMA CarriedOn ==
  ASSUME NEW s, NEW r, Carries(s, r), NEW t, Carries(r, t)
  PROVE  Carries(s, t)
BY DEF Carries

LEMMA CarriedEarned ==
  ASSUME NEW s, Booked(s), NEW r, Carries(s, r)
  PROVE  Booked(r) /\ (Done(s) => Done(r)) /\ (Earned(s) => Earned(r))
BY DEF Carries, Done, Earned

LEMMA ActionCarried ==
  ASSUME NEW s, Shaped(s), NEW type \in ActionTypes, NEW due
  PROVE  SameBooks(s, ReplaceAction(s, type, due)) /\ Carries(s, ReplaceAction(s, type, due))
<1> DEFINE r == ReplaceAction(s, type, due)
<1>1. s \in Parts(s)
  BY DEF Shaped
<1>2. SameBooks(s, r)
  <2>1. CASE r = s
    BY <2>1 DEF SameBooks
  <2>2. CASE r = [s EXCEPT !.lead.action = [type |-> type, due |-> due], !.conversation.action = type]
    BY <1>1, <2>2 DEF SameBooks, Parts
  <2> QED
    BY <2>1, <2>2 DEF ReplaceAction
<1>3. (Won(r) => Won(s)) /\ (WonAndClosed(r) => WonAndClosed(s))
  BY ActionReplaced DEF Won, WonAndClosed
<1> QED
  BY <1>2, <1>3, SameBooksCarry

LEMMA ClearingCarried ==
  ASSUME NEW s, Shaped(s)
  PROVE  SameBooks(s, ClearActions(s)) /\ Carries(s, ClearActions(s))
<1>1. s \in Parts(s)
  BY DEF Shaped
<1>2. SameBooks(s, ClearActions(s))
  BY <1>1 DEF SameBooks, Parts, ClearActions
<1>3. (Won(ClearActions(s)) => Won(s)) /\ (WonAndClosed(ClearActions(s)) => WonAndClosed(s))
  BY ActionsCleared DEF Won, WonAndClosed
<1> QED
  BY <1>2, <1>3, SameBooksCarry

LEMMA StoppingCarried ==
  ASSUME NEW s, Shaped(s)
  PROVE  SameBooks(s, StopFollowUps(s)) /\ Carries(s, StopFollowUps(s))
<1>1. s \in Parts(s)
  BY DEF Shaped
<1>2. SameBooks(s, StopFollowUps(s))
  BY <1>1 DEF SameBooks, Parts, StopFollowUps
<1>3. (Won(StopFollowUps(s)) => Won(s)) /\ (WonAndClosed(StopFollowUps(s)) => WonAndClosed(s))
  BY FollowUpsStopped DEF Won, WonAndClosed
<1> QED
  BY <1>2, <1>3, SameBooksCarry

LEMMA SchedulingCarried ==
  ASSUME NEW s, Shaped(s), NEW x \in Scenarios
  PROVE  SameBooks(s, Schedule(s, x)) /\ Carries(s, Schedule(s, x))
<1>1. s \in Parts(s)
  BY DEF Shaped
<1>2. SameBooks(s, Schedule(s, x))
  BY <1>1 DEF SameBooks, Parts, Schedule
<1>3. (Won(Schedule(s, x)) => Won(s)) /\ (WonAndClosed(Schedule(s, x)) => WonAndClosed(s))
  BY Scheduled DEF Won, WonAndClosed
<1> QED
  BY <1>2, <1>3, SameBooksCarry

LEMMA TryingCarried ==
  ASSUME NEW s, Shaped(s), Silent(s), NEW stage
  PROVE  SameBooks(s, TryFollowUp(s, stage)) /\ Carries(s, TryFollowUp(s, stage))
<1>1. CASE MaySchedule(s, ScenarioOf(stage))
  <2>1. ScenarioOf(stage) \in Scenarios
    BY <1>1, ScenarioOfStage DEF MaySchedule, Unblocked
  <2> QED
    BY <1>1, <2>1, SchedulingCarried DEF TryFollowUp
<1>2. CASE ~MaySchedule(s, ScenarioOf(stage))
  BY <1>2, SameBooksCarry DEF TryFollowUp, SameBooks
<1> QED
  BY <1>1, <1>2

\* A win writes the lead and the conversation.
LEMMA WinningBooks ==
  ASSUME NEW s, Shaped(s)
  PROVE  SameBooks(s, CloseWon(s))
<1>1. CASE s.lead.status = "WON"
  BY <1>1 DEF CloseWon, SameBooks
<1>2. CASE s.lead.status # "WON"
  <2> DEFINE t == StopFollowUps(ClearActions(s))
  <2>1. Shaped(t) /\ SameBooks(s, t)
    BY ActionsCleared, ClearingCarried, StoppingCarried, FollowUpsStopped DEF SameBooks
  <2>2. CloseWon(s) = [t EXCEPT !.lead.status = "WON", !.lead.reason = "none",
                                !.conversation.mode = "CLOSED", !.conversation.stage = "CLOSED_WON",
                                !.conversation.complete = TRUE]
    BY <1>2 DEF CloseWon
  <2> HIDE DEF t
  <2>3. t \in Parts(t)
    BY <2>1 DEF Shaped
  <2> QED
    BY <2>1, <2>2, <2>3 DEF SameBooks, Parts
<1> QED
  BY <1>1, <1>2

LEMMA LosingCarried ==
  ASSUME NEW s, Shaped(s), NEW reason
  PROVE  SameBooks(s, CloseLost(s, reason)) /\ Carries(s, CloseLost(s, reason))
<1>1. CASE s.lead.status \in {"WON", "LOST"}
  BY <1>1, SameBooksCarry DEF CloseLost, SameBooks
<1>2. CASE s.lead.status \notin {"WON", "LOST"}
  <2> DEFINE t == StopFollowUps(ClearActions(s))
             r == [t EXCEPT !.lead.status = "LOST", !.lead.reason = reason,
                            !.conversation.mode = "CLOSED", !.conversation.stage = "CLOSED_LOST",
                            !.conversation.complete = TRUE]
  <2>1. Shaped(t) /\ SameBooks(s, t)
    BY ActionsCleared, ClearingCarried, StoppingCarried, FollowUpsStopped DEF SameBooks
  <2>2. CloseLost(s, reason) = r
    BY <1>2 DEF CloseLost
  <2> HIDE DEF t
  <2>3. t \in Parts(t)
    BY <2>1 DEF Shaped
  <2>4. SameBooks(t, r) /\ r.lead.status = "LOST"
    BY <2>3 DEF SameBooks, Parts, Leads
  <2> HIDE DEF r
  <2>5. SameBooks(s, r) /\ ~Won(r) /\ ~WonAndClosed(r)
    BY <2>1, <2>4 DEF SameBooks, Won, WonAndClosed
  <2> QED
    BY <2>2, <2>5, SameBooksCarry
<1> QED
  BY <1>1, <1>2

LEMMA MovingBooks ==
  ASSUME NEW s, Shaped(s), Silent(s), NEW stage \in Stages
  PROVE  LET r == MoveTo(s, stage)
         IN  /\ SameBooks(s, r)
             /\ Won(r) => Won(s) /\ ~ReopensAfterRefund(s, stage)
             /\ WonAndClosed(r) => WonAndClosed(s)
<1> DEFINE again == ReopensAfterRefund(s, stage)
           status == IF s.lead.status = "NEW" \/ again THEN "ACTIVE" ELSE s.lead.status
           mode == IF again THEN "AI_ACTIVE" ELSE s.conversation.mode
           complete == stage \in {"CLOSED_WON", "CLOSED_LOST"}
           moved == [s EXCEPT !.lead.status = status, !.conversation.stage = stage,
                              !.conversation.complete = complete, !.conversation.mode = mode]
<1>1. s \in Parts(s)
  BY DEF Shaped
<1>2. MoveTo(s, stage) = IF again THEN TryFollowUp(moved, stage) ELSE moved
  <2>1. moved = [s EXCEPT
        !.lead.status = IF s.lead.status = "NEW" \/ ReopensAfterRefund(s, stage) THEN "ACTIVE" ELSE @,
        !.conversation.stage = stage,
        !.conversation.complete = (stage \in {"CLOSED_WON", "CLOSED_LOST"}),
        !.conversation.mode = IF ReopensAfterRefund(s, stage) THEN "AI_ACTIVE" ELSE @]
    BY <1>1 DEF Parts, Leads, Conversations
  <2> QED
    BY <2>1 DEF MoveTo
<1> HIDE DEF status, mode, complete
<1>3. SameBooks(s, moved) /\ moved.lead.status = status /\ moved.conversation.mode = mode
  BY <1>1 DEF SameBooks, Parts, Leads, Conversations
<1>4. SameBooks(s, MoveTo(s, stage))
  <2>1. CASE ~MaySchedule(moved, ScenarioOf(stage)) \/ ~again
    BY <1>2, <1>3, <2>1 DEF TryFollowUp
  <2>2. CASE MaySchedule(moved, ScenarioOf(stage)) /\ again
    <3>1. MoveTo(s, stage) = Schedule(moved, ScenarioOf(stage))
      BY <1>2, <2>2 DEF TryFollowUp
    <3>2. DOMAIN moved = DOMAIN s
      BY <1>1 DEF Parts
    <3> QED
      BY <1>1, <1>3, <3>1, <3>2 DEF SameBooks, Schedule, Parts
  <2> QED
    BY <2>1, <2>2
<1>5. /\ Won(MoveTo(s, stage)) => Won(s) /\ ~again
      /\ WonAndClosed(MoveTo(s, stage)) => WonAndClosed(s)
  <2>1. MoveTo(s, stage).lead.status = status
    BY Moved DEF status
  <2>2. again => status = "ACTIVE"
    BY DEF status
  <2>3. ~again => /\ MoveTo(s, stage) = moved
                  /\ status = "WON" => s.lead.status = "WON"
                  /\ mode = s.conversation.mode
    BY <1>2 DEF status, mode
  <2> QED
    BY <1>3, <2>1, <2>2, <2>3 DEF Won, WonAndClosed
<1> QED
  BY <1>4, <1>5

-----------------------------------------------------------------------------
\* Reconciling: with one piece of work, the journey looks at that one.

LEMMA WorkIsTyped ==
  ASSUME NEW s, NEW w \in WorkOf(s)
  PROVE  \/ \E a \in Appointments : w = AppointmentWork(a) /\ s.appointments[a].status # "NONE"
         \/ \E q \in Quotes : w = JobWork(q) /\ s.jobs[q].status # "NONE"
BY DEF WorkOf

LEMMA SoleIsCurrent ==
  ASSUME NEW s, Booked(s), NEW w, WorkOf(s) = {w}
  PROVE  /\ Current(s).completed <=> StatusIn(s, w) = "COMPLETED"
         /\ Current(s).completed => Current(s).balance = Balance(s, w.type, w.id)
         /\ w.type \in PaidTypes /\ w.id \in PaidIds
<1> DEFINE keptAppointments == {a \in Appointments : s.appointments[a].status # "CANCELLED"}
           keptJobs == {q \in Quotes : s.jobs[q].status # "CANCELLED"}
           appointment == Newest(s.recent.appointments, keptAppointments)
           job == Newest(s.recent.jobs, keptJobs)
           quote == Newest(s.recent.quotes, Quotes)
           c == Current(s)
<1>1. c = IF job # "none" THEN View(s, appointment, job, quote, "JOB", job)
          ELSE View(s, appointment, job, quote, "APPOINTMENT", appointment)
  BY DEF Current
<1>2. s.recent.appointments \in Seq(Appointments) /\ s.recent.jobs \in Seq(Quotes)
  BY DEF Booked, Recents
<1>3. /\ \/ appointment \in Range(s.recent.appointments) \cap keptAppointments
         \/ appointment = "none" /\ Range(s.recent.appointments) \cap keptAppointments = {}
      /\ \/ job \in Range(s.recent.jobs) \cap keptJobs
         \/ job = "none" /\ Range(s.recent.jobs) \cap keptJobs = {}
  BY <1>2, NewestIs
<1>4. /\ \A a \in Appointments : s.appointments[a].status # "NONE" => AppointmentWork(a) = w
      /\ \A q \in Quotes : s.jobs[q].status # "NONE" => JobWork(q) = w
  BY DEF WorkOf
<1>5. "none" \notin Appointments /\ "none" \notin Quotes
  BY NamesAssumption
<1> HIDE DEF c, appointment, job, quote
<1>6. ASSUME NEW a \in Appointments, w = AppointmentWork(a), s.appointments[a].status # "NONE"
      PROVE  /\ c.completed <=> StatusIn(s, w) = "COMPLETED"
             /\ c.completed => c.balance = Balance(s, w.type, w.id)
             /\ w.type \in PaidTypes /\ w.id \in PaidIds
  <2>1. w.type = "APPOINTMENT" /\ w.id = a
    BY <1>6 DEF AppointmentWork
  <2>2. \A q \in Quotes : s.jobs[q].status = "NONE"
    BY <1>4, <2>1 DEF JobWork
  <2>3. job = "none"
    BY <1>3, <2>2 DEF Booked
  <2>4. \A b \in Appointments : s.appointments[b].status # "NONE" => b = a
    BY <1>4, <2>1 DEF AppointmentWork
  <2>5. Range(s.recent.appointments) = {a}
    BY <1>6, <2>4 DEF Booked
  <2>6. c = View(s, appointment, "none", quote, "APPOINTMENT", appointment)
    BY <1>1, <2>3
  <2>7. /\ c.completed <=> "COMPLETED" \in {"NONE", StatusOf(s.appointments, appointment)}
        /\ c.balance = IF appointment = "none" THEN 0 ELSE Balance(s, "APPOINTMENT", appointment)
    BY <2>6 DEF View, StatusOf
  <2>8. CASE s.appointments[a].status = "CANCELLED"
    <3>1. appointment = "none"
      BY <1>3, <2>5, <2>8
    <3> QED
      BY <2>1, <2>7, <2>8, <3>1 DEF StatusOf, StatusIn, PaidTypes, PaidIds
  <2>9. CASE s.appointments[a].status # "CANCELLED"
    <3>1. appointment = a
      BY <1>3, <2>5, <2>9
    <3> QED
      BY <1>5, <2>1, <2>7, <3>1 DEF StatusOf, StatusIn, PaidTypes, PaidIds
  <2> QED
    BY <2>8, <2>9
<1>7. ASSUME NEW q \in Quotes, w = JobWork(q), s.jobs[q].status # "NONE"
      PROVE  /\ c.completed <=> StatusIn(s, w) = "COMPLETED"
             /\ c.completed => c.balance = Balance(s, w.type, w.id)
             /\ w.type \in PaidTypes /\ w.id \in PaidIds
  <2>1. w.type = "JOB" /\ w.id = q
    BY <1>7 DEF JobWork
  <2>2. \A a \in Appointments : s.appointments[a].status = "NONE"
    BY <1>4, <2>1 DEF AppointmentWork
  <2>3. appointment = "none"
    BY <1>3, <2>2 DEF Booked
  <2>4. \A r \in Quotes : s.jobs[r].status # "NONE" => r = q
    BY <1>4, <2>1 DEF JobWork
  <2>5. Range(s.recent.jobs) = {q}
    BY <1>7, <2>4 DEF Booked
  <2>6. CASE s.jobs[q].status = "CANCELLED"
    <3>1. job = "none"
      BY <1>3, <2>5, <2>6
    <3>2. c = View(s, "none", "none", quote, "APPOINTMENT", "none")
      BY <1>1, <2>3, <3>1
    <3>3. ~c.completed
      BY <3>2 DEF View, StatusOf
    <3> QED
      BY <2>1, <2>6, <3>3 DEF StatusIn, PaidTypes, PaidIds
  <2>7. CASE s.jobs[q].status # "CANCELLED"
    <3>1. job = q /\ q # "none"
      BY <1>3, <1>5, <2>5, <2>7
    <3>2. c = View(s, "none", q, quote, "JOB", q)
      BY <1>1, <2>3, <3>1
    <3>3. /\ c.completed <=> "COMPLETED" \in {s.jobs[q].status, "NONE"}
          /\ c.balance = Balance(s, "JOB", q)
      BY <3>1, <3>2 DEF View, StatusOf
    <3> QED
      BY <2>1, <3>3 DEF StatusIn, PaidTypes, PaidIds
  <2> QED
    BY <2>6, <2>7
<1>8. w \in WorkOf(s)
  OBVIOUS
<1> QED
  BY <1>6, <1>7, <1>8, WorkIsTyped DEF c

LEMMA NothingOwed ==
  ASSUME NEW s, Ledgered(s.payments), NEW type \in PaidTypes, NEW id \in PaidIds, Balance(s, type, id) = 0
  PROVE  CollectedIn(s.payments, type, id) = Price[id]
<1>1. Collected(s, type, id) = CollectedIn(s.payments, type, id)
  BY CollectedIsSum DEF Ledgered
<1>2. CollectedIn(s.payments, type, id) \in 0 .. Price[id]
  BY CollectedBounds
<1>3. Price[id] \in Nat
  BY MoneyAssumption DEF PaidIds
<1> QED
  BY <1>1, <1>2, <1>3 DEF Balance

LEMMA DoneAwaitsBalance ==
  ASSUME NEW s, s.conversation.mode # "HUMAN_ACTIVE", s.lead.status # "LOST",
         NEW c, ~SettledInFull(c), c.completed
  PROVE  JourneyStage(s, c) = "AWAITING_BALANCE"
<1> DEFINE rules == <<
       <<s.conversation.mode = "HUMAN_ACTIVE", "HUMAN_REVIEW">>,
       <<s.lead.status = "LOST", "CLOSED_LOST">>,
       <<SettledInFull(c), "CLOSED_WON">>,
       <<c.completed, "AWAITING_BALANCE">>,
       <<c.job = "PENDING_DEPOSIT", "AWAITING_DEPOSIT">>,
       <<c.job # "NONE" /\ c.collected < c.jobDeposit, "AWAITING_DEPOSIT">>,
       <<c.job = "SCHEDULED", "JOB_SCHEDULED">>,
       <<c.job # "NONE", "BOOKED">>,
       <<c.appointment # "NONE" /\ c.collected < c.appointmentDeposit, "AWAITING_DEPOSIT">>,
       <<c.appointment = "CONFIRMED", "BOOKED">>,
       <<c.appointment # "NONE", "AWAITING_CONFIRMATION">>,
       <<c.quote = "DRAFT", "QUOTE_PREPARATION">>,
       <<c.quote = "SENT", "QUOTE_SENT">>,
       <<s.lead.status = "WON", "CLOSED_WON">>,
       <<TRUE, s.conversation.stage>> >>
<1>1. JourneyStage(s, c) = FirstRule(rules)
  BY DEF JourneyStage
<1>2. Len(rules) = 15 /\ rules[15][1] /\ 15 \in Nat /\ 15 > 0
  OBVIOUS
<1>3. ~rules[1][1] /\ ~rules[2][1] /\ ~rules[3][1] /\ rules[4][1] /\ rules[4][2] = "AWAITING_BALANCE"
  OBVIOUS
<1> HIDE DEF rules
<1>4. PICK i \in 1 .. 15 : /\ FirstRule(rules) = rules[i][2] /\ rules[i][1]
                           /\ \A j \in 1 .. 15 : rules[j][1] => i <= j
  BY <1>2, FirstRuleDecides, Zenon
<1>5. i # 1 /\ i # 2 /\ i # 3
  BY <1>3, <1>4, Zenon
<1>6. i <= 4
  BY <1>3, <1>4
<1>7. i = 4
  BY <1>5, <1>6
<1> QED
  BY <1>1, <1>3, <1>4, <1>7, Zenon

\* Whatever was paid or refunded, a reconciled win is earned if its work is done.
LEMMA ReconciledEarned ==
  ASSUME NEW s, Shaped(s), Silent(s), Booked(s), Done(s)
  PROVE  Booked(Reconcile(s)) /\ Earned(Reconcile(s))
<1> DEFINE c == Current(s)
           stage == JourneyStage(s, c)
           action == JourneyAction(s, c, stage)
           moved == MoveTo(s, stage)
           r == Reconcile(s)
<1>1. CASE s.lead.status = "LOST"
  <2>1. r = ClearActions(StopFollowUps(s))
    BY <1>1 DEF Reconcile
  <2>2. Carries(s, r)
    BY <2>1, StoppingCarried, FollowUpsStopped, ClearingCarried, CarriedOn
  <2>3. ~Won(s)
    BY <1>1 DEF Won
  <2> QED
    BY <2>2, <2>3, CarriedEarned DEF Earned, Done, WonAndClosed
<1>2. CASE s.lead.status # "LOST" /\ SettledInFull(c)
  <2>1. r = CloseWon(s)
    BY <1>2 DEF Reconcile
  <2>2. SameBooks(s, r)
    BY <2>1, WinningBooks
  <2>3. c.completed /\ c.balance = 0
    BY <1>2 DEF SettledInFull
  <2>4. Ledgered(s.payments)
    BY DEF Shaped
  <2> HIDE DEF c, r
  <2>5. ASSUME NEW w, WorkOf(s) = {w}
        PROVE  StatusIn(s, w) = "COMPLETED" /\ CollectedIn(s.payments, w.type, w.id) = Price[w.id]
    <3>1. /\ c.completed <=> StatusIn(s, w) = "COMPLETED"
          /\ c.completed => c.balance = Balance(s, w.type, w.id)
          /\ w.type \in PaidTypes /\ w.id \in PaidIds
      BY <2>5, SoleIsCurrent DEF c
    <3> QED
      BY <2>3, <2>4, <3>1, NothingOwed
  <2>6. Finished(s) /\ PaidFor(s)
    BY <2>5 DEF Finished, PaidFor
  <2> QED
    BY <2>2, <2>6, BooksDecide DEF Earned, Done, r
<1>3. CASE s.lead.status # "LOST" /\ ~SettledInFull(c)
  <2>1. r = FollowAction(moved, action)
    BY <1>3 DEF Reconcile, FollowJourney
  <2>2. s.conversation.stage \in Stages /\ s.conversation.mode \in {"AI_ACTIVE", "HUMAN_ACTIVE", "CLOSED"}
    BY DEF Shaped, Parts, Conversations
  <2>3. stage \in Stages /\ action \in NextOf(c) \cup {NoAction}
    BY <2>2, JourneyStages, JourneyActions
  <2>4. c.completed /\ s.conversation.mode # "HUMAN_ACTIVE" => stage = "AWAITING_BALANCE"
    BY <1>3, DoneAwaitsBalance
  <2> HIDE DEF c, stage
  <2>5. /\ Shaped(moved) /\ SameBooks(s, moved)
        /\ Won(moved) => Won(s) /\ ~ReopensAfterRefund(s, stage)
        /\ WonAndClosed(moved) => WonAndClosed(s)
    BY <2>3, Moved, MovingBooks
  <2> HIDE DEF action, moved
  <2>6. SameBooks(moved, r) /\ (Won(r) => Won(moved)) /\ (WonAndClosed(r) => WonAndClosed(moved))
    <3>1. CASE action = NoAction
      BY <2>1, <3>1 DEF FollowAction, SameBooks
    <3>2. CASE action # NoAction
      <4>1. action.type \in ActionTypes
        BY <2>3, <3>2 DEF NextOf
      <4>2. r = ReplaceAction(moved, action.type, action.due)
        BY <2>1, <3>2 DEF FollowAction
      <4> QED
        BY <2>5, <4>1, <4>2, ActionCarried DEF Carries
    <3> QED
      BY <3>1, <3>2
  <2> HIDE DEF r
  <2>7. SameBooks(s, r)
    BY <2>5, <2>6 DEF SameBooks
  <2>8. Done(r)
    BY <2>5, <2>6, <2>7, BooksDecide DEF Done
  <2>9. ASSUME WonAndClosed(r) PROVE PaidFor(r)
    <3>1. WonAndClosed(s) /\ ~ReopensAfterRefund(s, stage) /\ Finished(s)
      BY <2>5, <2>6, <2>9 DEF Done, WonAndClosed
    <3>2. stage # "AWAITING_BALANCE" /\ s.conversation.mode # "HUMAN_ACTIVE"
      BY <3>1 DEF ReopensAfterRefund, Won, WonAndClosed
    <3>3. ASSUME NEW w, WorkOf(s) = {w} PROVE FALSE
      <4>1. StatusIn(s, w) = "COMPLETED"
        BY <3>1, <3>3 DEF Finished
      <4>2. c.completed
        BY <3>3, <4>1, SoleIsCurrent DEF c
      <4> QED
        BY <2>4, <3>2, <4>2
    <3>4. PaidFor(s)
      BY <3>3 DEF PaidFor
    <3> QED
      BY <2>7, <3>4, BooksDecide
  <2> QED
    BY <2>7, <2>8, <2>9, BooksDecide DEF Earned, r
<1> QED
  BY <1>1, <1>2, <1>3

-----------------------------------------------------------------------------
\* Saving a row of the work.

\* The row of w was saved with a status; the opportunity and the money were left alone.
Saving(s, r, w, status) ==
  /\ r.lead = s.lead /\ r.conversation = s.conversation
  /\ WorkOf(r) = WorkOf(s) \cup {w}
  /\ StatusIn(r, w) = status

LEMMA AppointmentWritten ==
  ASSUME NEW s, Sound(s), Booked(s), NEW a \in Appointments,
         NEW status \in WorkStatuses \ {"NONE"}, NEW slot \in Slots \cup {"none"}
  PROVE  LET r == SaveAppointment(s, a, status, slot)
         IN  Booked(r) /\ Saving(s, r, AppointmentWork(a), status)
<1> DEFINE row == [status |-> status, slot |-> slot]
           rows == [s.appointments EXCEPT ![a] = row]
           order == Touched(s.recent.appointments, a)
           recent == [s.recent EXCEPT !.appointments = order]
           r == [s EXCEPT !.appointments = rows, !.recent = recent]
<1>1. s \in Parts(s)
  BY DEF Sound, Shaped
<1>2. SaveAppointment(s, a, status, slot) = r
  BY DEF SaveAppointment
<1>3. /\ s.appointments \in [Appointments -> WorkRows] /\ s.jobs \in [Quotes -> WorkRows]
      /\ s.recent \in Recents /\ s.recent.appointments \in Seq(Appointments)
  BY DEF Booked, Recents
<1>4. order \in Seq(Appointments) /\ Range(order) = Range(s.recent.appointments) \cup {a}
  BY <1>3, TouchedRows
<1>5. row \in WorkRows /\ row.status = status
  BY DEF WorkRows
<1> HIDE DEF row, order
<1>6. /\ rows \in [Appointments -> WorkRows]
      /\ \A b \in Appointments : rows[b] = IF b = a THEN row ELSE s.appointments[b]
  BY <1>3, <1>5
<1>7. recent \in Recents /\ recent.appointments = order /\ recent.jobs = s.recent.jobs
  BY <1>3, <1>4 DEF Recents
<1> HIDE DEF rows, recent
<1>8. /\ r.appointments = rows /\ r.jobs = s.jobs /\ r.recent = recent
      /\ r.lead = s.lead /\ r.conversation = s.conversation
  BY <1>1 DEF Parts
<1> HIDE DEF r
<1>9. {b \in Appointments : rows[b].status # "NONE"}
        = {b \in Appointments : s.appointments[b].status # "NONE"} \cup {a}
  BY <1>5, <1>6
<1>10. Booked(r)
  BY <1>3, <1>4, <1>6, <1>7, <1>8, <1>9 DEF Booked
<1>11. WorkOf(r) = WorkOf(s) \cup {AppointmentWork(a)}
  BY <1>8, <1>9 DEF WorkOf
<1>12. StatusIn(r, AppointmentWork(a)) = status
  BY <1>5, <1>6, <1>8 DEF StatusIn, AppointmentWork
<1> QED
  BY <1>2, <1>8, <1>10, <1>11, <1>12 DEF Saving

LEMMA JobWritten ==
  ASSUME NEW s, Sound(s), Booked(s), NEW q \in Quotes,
         NEW status \in WorkStatuses \ {"NONE"}, NEW slot \in Slots \cup {"none"}
  PROVE  LET r == SaveJob(s, q, status, slot)
         IN  Booked(r) /\ Saving(s, r, JobWork(q), status)
<1> DEFINE row == [status |-> status, slot |-> slot]
           rows == [s.jobs EXCEPT ![q] = row]
           order == Touched(s.recent.jobs, q)
           recent == [s.recent EXCEPT !.jobs = order]
           r == [s EXCEPT !.jobs = rows, !.recent = recent]
<1>1. s \in Parts(s)
  BY DEF Sound, Shaped
<1>2. SaveJob(s, q, status, slot) = r
  BY DEF SaveJob
<1>3. /\ s.appointments \in [Appointments -> WorkRows] /\ s.jobs \in [Quotes -> WorkRows]
      /\ s.recent \in Recents /\ s.recent.jobs \in Seq(Quotes)
  BY DEF Booked, Recents
<1>4. order \in Seq(Quotes) /\ Range(order) = Range(s.recent.jobs) \cup {q}
  BY <1>3, TouchedRows
<1>5. row \in WorkRows /\ row.status = status
  BY DEF WorkRows
<1> HIDE DEF row, order
<1>6. rows \in [Quotes -> WorkRows] /\ \A p \in Quotes : rows[p] = IF p = q THEN row ELSE s.jobs[p]
  BY <1>3, <1>5
<1>7. recent \in Recents /\ recent.jobs = order /\ recent.appointments = s.recent.appointments
  BY <1>3, <1>4 DEF Recents
<1> HIDE DEF rows, recent
<1>8. /\ r.jobs = rows /\ r.appointments = s.appointments /\ r.recent = recent
      /\ r.lead = s.lead /\ r.conversation = s.conversation
  BY <1>1 DEF Parts
<1> HIDE DEF r
<1>9. {p \in Quotes : rows[p].status # "NONE"} = {p \in Quotes : s.jobs[p].status # "NONE"} \cup {q}
  BY <1>5, <1>6
<1>10. Booked(r)
  BY <1>3, <1>4, <1>6, <1>7, <1>8, <1>9 DEF Booked
<1>11. WorkOf(r) = WorkOf(s) \cup {JobWork(q)}
  BY <1>8, <1>9 DEF WorkOf
<1>12. StatusIn(r, JobWork(q)) = status
  BY <1>5, <1>6, <1>8 DEF StatusIn, JobWork
<1> QED
  BY <1>2, <1>8, <1>10, <1>11, <1>12 DEF Saving

\* An opportunity that is not won awaits no work.
LEMMA FreeToBook ==
  ASSUME NEW s, ~Won(s)
  PROVE  Earned(s) /\ Done(s)
BY DEF Earned, Done, WonAndClosed

\* What is open keeps a win from being earned: with it as its only work there is no win.
LEMMA Rebooked ==
  ASSUME NEW s, Done(s), NEW w \in WorkOf(s), StatusIn(s, w) # "COMPLETED",
         NEW r, NEW status, Saving(s, r, w, status)
  PROVE  Earned(r) /\ Done(r)
<1>1. WorkOf(r) = WorkOf(s) /\ (Won(r) => Won(s))
  BY DEF Saving, Won
<1>2. ASSUME Won(r), NEW v \in WorkOf(r), WorkOf(r) = {v} PROVE FALSE
  BY <1>1, <1>2 DEF Done, Finished
<1> QED
  BY <1>2 DEF Earned, Done, Finished, PaidFor, WonAndClosed

\* What is completed is the only work, or not the only one.
LEMMA FinishedByCompleting ==
  ASSUME NEW s, NEW r, NEW w, Saving(s, r, w, "COMPLETED")
  PROVE  Finished(r)
BY DEF Saving, Finished

LEMMA QuoteCarried ==
  ASSUME NEW s, Sound(s), Booked(s), NEW q \in Quotes, NEW status
  PROVE  /\ Carries(s, SaveQuote(s, q, status))
         /\ SaveQuote(s, q, status).lead = s.lead
         /\ SaveQuote(s, q, status).conversation = s.conversation
<1> DEFINE rows == [s.quotes EXCEPT ![q].status = status]
           order == Touched(s.recent.quotes, q)
           recent == [s.recent EXCEPT !.quotes = order]
           r == [s EXCEPT !.quotes = rows, !.recent = recent]
<1>1. s \in Parts(s)
  BY DEF Sound, Shaped
<1>2. SaveQuote(s, q, status) = r
  BY DEF SaveQuote
<1>3. s.recent \in Recents /\ s.recent.quotes \in Seq(Quotes)
  BY DEF Booked, Recents
<1>4. order \in Seq(Quotes)
  BY <1>3, TouchedRows
<1> HIDE DEF rows, order
<1>5. /\ recent \in Recents /\ recent.appointments = s.recent.appointments
      /\ recent.jobs = s.recent.jobs
  BY <1>3, <1>4 DEF Recents
<1> HIDE DEF recent
<1>6. /\ r.appointments = s.appointments /\ r.jobs = s.jobs /\ r.recent = recent
      /\ r.payments = s.payments /\ r.lead = s.lead /\ r.conversation = s.conversation
  BY <1>1 DEF Parts
<1> HIDE DEF r
<1>7. Booked(r)
  BY <1>5, <1>6 DEF Booked
<1>8. WorkOf(r) = WorkOf(s) /\ \A w : StatusIn(r, w) = StatusIn(s, w)
  BY <1>6 DEF WorkOf, StatusIn
<1>9. Carries(s, r)
  BY <1>6, <1>7, <1>8 DEF Carries, Finished, PaidFor, Won, WonAndClosed
<1> QED
  BY <1>2, <1>6, <1>9

-----------------------------------------------------------------------------
\* What the other operators do to a win.

LEMMA CompletenessCarried ==
  ASSUME NEW s, Shaped(s), NEW value
  PROVE  Carries(s, [s EXCEPT !.conversation.complete = value])
<1> DEFINE r == [s EXCEPT !.conversation.complete = value]
<1>1. s \in Parts(s)
  BY DEF Shaped
<1>2. SameBooks(s, r) /\ r.lead = s.lead /\ r.conversation.mode = s.conversation.mode
  BY <1>1 DEF SameBooks, Parts, Conversations
<1> HIDE DEF r
<1>3. Carries(s, r)
  BY <1>2, SameBooksCarry DEF Won, WonAndClosed
<1> QED
  BY <1>3 DEF r

\* Completed work is won if nothing is owed for it, and not if something is.
LEMMA CompletedEarned ==
  ASSUME NEW s, Sound(s), Booked(s), Finished(s), NEW type, NEW id
  PROVE  Booked(Complete(s, type, id)) /\ Earned(Complete(s, type, id))
<1>1. CASE Balance(s, type, id) = 0
  <2> DEFINE t == CloseWon(s)
  <2>1. Complete(s, type, id) = Reconcile(t)
    BY <1>1 DEF Complete
  <2>2. Sound(t)
    BY ClosedWon DEF Sound
  <2>3. SameBooks(s, t)
    BY WinningBooks DEF Sound
  <2> HIDE DEF t
  <2>4. Booked(t) /\ Done(t)
    BY <2>3, BooksDecide DEF Done
  <2> QED
    BY <2>1, <2>2, <2>4, ReconciledEarned DEF Sound
<1>2. CASE Balance(s, type, id) # 0
  <2> DEFINE t == ReplaceAction(s, "COLLECT_BALANCE", "now")
             u == [t EXCEPT !.conversation.complete = FALSE]
             v == TryFollowUp(u, "AWAITING_BALANCE")
  <2>1. Complete(s, type, id) = Reconcile(v)
    BY <1>2 DEF Complete
  <2>2. "COLLECT_BALANCE" \in ActionTypes
    BY DEF ActionTypes
  <2>3. Sound(t) /\ Carries(s, t)
    BY <2>2, ActionReplacedSoundly, ActionCarried DEF Sound
  <2> HIDE DEF t
  <2>4. Sound(u) /\ Carries(t, u)
    BY <2>3, CompletenessWritten, CompletenessCarried DEF Sound
  <2> HIDE DEF u
  <2>5. Sound(v) /\ Carries(u, v)
    BY <2>4, FollowUpTriedSoundly, TryingCarried DEF Sound
  <2> HIDE DEF v
  <2>6. Booked(v) /\ Done(v)
    BY <2>3, <2>4, <2>5 DEF Carries, Done
  <2> QED
    BY <2>1, <2>5, <2>6, ReconciledEarned DEF Sound
<1> QED
  BY <1>1, <1>2

\* A payment is not work, and changes none.
LEMMA PaymentBooked ==
  ASSUME NEW s, Sound(s), Booked(s), Done(s), NEW type, NEW id, NEW kindOf, NEW amount, NEW original
  PROVE  LET r == Saved(s, type, id, kindOf, amount, original)
         IN  Booked(r) /\ Done(r) /\ r.jobs = s.jobs
<1> DEFINE rows == Append(s.payments, [type |-> type, id |-> id, kind |-> kindOf,
                                       amount |-> amount, original |-> original])
           r == [s EXCEPT !.payments = rows]
<1>1. s \in Parts(s)
  BY DEF Sound, Shaped
<1>2. Saved(s, type, id, kindOf, amount, original) = r
  BY DEF Saved
<1> HIDE DEF rows
<1>3. /\ r.appointments = s.appointments /\ r.jobs = s.jobs /\ r.recent = s.recent
      /\ r.lead = s.lead /\ r.conversation = s.conversation
  BY <1>1 DEF Parts
<1> HIDE DEF r
<1>4. Booked(r)
  BY <1>3 DEF Booked
<1>5. WorkOf(r) = WorkOf(s) /\ \A w : StatusIn(r, w) = StatusIn(s, w)
  BY <1>3 DEF WorkOf, StatusIn
<1>6. Done(r)
  BY <1>3, <1>5 DEF Done, Finished, Won
<1> QED
  BY <1>2, <1>3, <1>4, <1>6

LEMMA ReleasedBooked ==
  ASSUME NEW s, Sound(s), Booked(s), Done(s), NEW type, NEW id, type = "JOB" => id \in Quotes
  PROVE  Booked(ReleaseJob(s, type, id)) /\ Done(ReleaseJob(s, type, id))
<1> DEFINE released == /\ type = "JOB" /\ StatusOf(s.jobs, id) = "PENDING_DEPOSIT"
                       /\ Collected(s, "JOB", id) >= Deposit[id]
<1>1. CASE ~released
  BY <1>1 DEF ReleaseJob
<1>2. CASE released
  <2> DEFINE slot == s.jobs[id].slot
             t == SaveJob(s, id, "READY_TO_SCHEDULE", slot)
             u == ReplaceAction(t, "SCHEDULE_JOB", "now")
  <2>1. ReleaseJob(s, type, id) = u
    BY <1>2 DEF ReleaseJob
  <2>2. id \in Quotes /\ id # "none"
    BY <1>2, NamesAssumption
  <2>3. s.jobs[id].status = "PENDING_DEPOSIT" /\ slot \in Slots \cup {"none"}
    BY <1>2, <2>2 DEF StatusOf, Booked, WorkRows
  <2>4. "READY_TO_SCHEDULE" \in WorkStatuses \ {"NONE"} /\ "SCHEDULE_JOB" \in ActionTypes
    BY DEF WorkStatuses, ActionTypes
  <2> HIDE DEF slot
  <2>5. Booked(t) /\ Saving(s, t, JobWork(id), "READY_TO_SCHEDULE")
    BY <2>2, <2>3, <2>4, JobWritten
  <2>6. Sound(t)
    BY JobSaved
  <2> HIDE DEF t
  <2>7. JobWork(id) \in WorkOf(s) /\ StatusIn(s, JobWork(id)) # "COMPLETED"
    BY <2>2, <2>3 DEF WorkOf, StatusIn, JobWork
  <2>8. Done(t)
    BY <2>5, <2>7, Rebooked
  <2>9. Carries(t, u)
    BY <2>4, <2>6, ActionCarried DEF Sound
  <2> HIDE DEF u
  <2> QED
    BY <2>1, <2>5, <2>8, <2>9, CarriedEarned
<1> QED
  BY <1>1, <1>2

\* What is reopened, or followed up again, is not won.
LEMMA ReopenedEarned ==
  ASSUME NEW s, Sound(s), Booked(s), Earned(s)
  PROVE  Booked(Reopen(s)) /\ Earned(Reopen(s))
<1>1. CASE s.lead.status # "LOST"
  BY <1>1 DEF Reopen
<1>2. CASE s.lead.status = "LOST"
  <2> DEFINE r == Reopened(s)
  <2>1. s \in Parts(s)
    BY DEF Sound, Shaped
  <2>2. /\ r \in Parts(r) /\ r.lead.action = s.lead.action /\ r.lead.status = "ACTIVE"
        /\ r.conversation.mode = "AI_ACTIVE"
        /\ r.conversation.handoff = s.conversation.handoff
        /\ r.followUps = s.followUps /\ r.handoffs = s.handoffs /\ r.openHandoff = s.openHandoff
        /\ SameBooks(s, r)
    BY <2>1 DEF Reopened, Parts, Leads, Conversations, Stages, Statuses, SameBooks
  <2>3. Reopen(s) = Reconcile(r)
    BY <1>2 DEF Reopen
  <2> HIDE DEF r
  <2>4. Shaped(r) /\ Silent(r)
    BY <2>2 DEF Sound, Shaped, Silent, SameBooks
  <2>5. Booked(r) /\ Done(r)
    BY <2>2, BooksDecide DEF Done, Won
  <2> QED
    BY <2>3, <2>4, <2>5, ReconciledEarned
<1> QED
  BY <1>1, <1>2

LEMMA ReactivationCarried ==
  ASSUME NEW s, Sound(s)
  PROVE  Carries(s, Reactivated(s))
<1>1. CASE MaySchedule(s, "REACTIVATION")
  <2> DEFINE t == Schedule(s, "REACTIVATION")
             r == ReplaceAction(t, "FUTURE_REACTIVATION", "now")
  <2>1. Reactivated(s) = r
    BY <1>1 DEF Reactivated
  <2>2. "REACTIVATION" \in Scenarios /\ "FUTURE_REACTIVATION" \in ActionTypes
    BY DEF Scenarios, ActionTypes
  <2>3. Shaped(t) /\ Carries(s, t)
    BY <2>2, Scheduled, SchedulingCarried DEF Sound
  <2> HIDE DEF t
  <2>4. Carries(t, r)
    BY <2>2, <2>3, ActionCarried
  <2> HIDE DEF r
  <2> QED
    BY <2>1, <2>3, <2>4, CarriedOn
<1>2. CASE ~MaySchedule(s, "REACTIVATION")
  BY <1>2 DEF Reactivated, Carries
<1> QED
  BY <1>1, <1>2

LEMMA TakeoverCarried ==
  ASSUME NEW s, Shaped(s)
  PROVE  Carries(s, TakeOver(s))
<1>1. s \in Parts(s) /\ s.handoffs \in Nat
  BY DEF Shaped, Parts
<1>2. CASE s.openHandoff # 0
  BY <1>2 DEF TakeOver, Carries
<1>3. CASE s.openHandoff = 0
  <2> DEFINE next == s.handoffs + 1
             t == [s EXCEPT !.handoffs = next, !.openHandoff = next,
                            !.conversation.mode = "HUMAN_ACTIVE", !.conversation.stage = "HUMAN_REVIEW",
                            !.conversation.handoff = next]
             u == ReplaceAction(t, "HUMAN_REVIEW", "now")
             r == StopFollowUps(u)
  <2>1. TakeOver(s) = r
    BY <1>3 DEF TakeOver
  <2> next \in Nat /\ next > s.handoffs
    BY <1>1
  <2> HIDE DEF next
  <2>2. /\ t \in Parts(t) /\ t.lead = s.lead
        /\ t.conversation.mode = "HUMAN_ACTIVE" /\ t.conversation.handoff = next
        /\ t.followUps = s.followUps /\ t.handoffs = next /\ t.openHandoff = next
        /\ SameBooks(s, t)
    BY <1>1 DEF Parts, Leads, Conversations, Stages, SameBooks
  <2> HIDE DEF t
  <2>3. Shaped(t) /\ Carries(s, t)
    BY <1>1, <2>2, SameBooksCarry DEF Shaped, SameBooks, Won, WonAndClosed
  <2>4. "HUMAN_REVIEW" \in ActionTypes
    BY DEF ActionTypes
  <2>5. Shaped(u) /\ Carries(t, u)
    BY <2>3, <2>4, ActionReplaced, ActionCarried
  <2> HIDE DEF u
  <2>6. Carries(u, r)
    BY <2>5, StoppingCarried
  <2> HIDE DEF r
  <2> QED
    BY <2>1, <2>3, <2>5, <2>6, CarriedOn
<1> QED
  BY <1>2, <1>3

LEMMA EarnedIsDone == ASSUME NEW s, Earned(s) PROVE Done(s)
BY DEF Earned

LEMMA ResumedEarned ==
  ASSUME NEW s, Sound(s), Booked(s), Earned(s)
  PROVE  Booked(Resume(s)) /\ Earned(Resume(s))
<1> DEFINE open == IF s.openHandoff = s.conversation.handoff THEN 0 ELSE s.openHandoff
           stage == InferredStage(Resumed(s))
           t == [s EXCEPT !.openHandoff = open, !.conversation.mode = "AI_ACTIVE",
                          !.conversation.handoff = 0, !.conversation.stage = stage]
           type == ActionForStage(stage)
           u == ReplaceAction(t, type, "now")
<1>1. s \in Parts(s) /\ s.handoffs \in Nat /\ s.openHandoff \in Nat
  BY DEF Sound, Shaped, Parts
<1>2. open \in Nat /\ open <= s.handoffs
  BY <1>1 DEF Sound, Shaped
<1>3. stage \in Stages /\ type \in ActionTypes
  BY InferredStages, ActionForStageIsAction
<1>4. Resume(s) = Reconcile(u)
  <2>1. t = [Resumed(s) EXCEPT !.conversation.stage = stage]
    <3> HIDE DEF stage
    <3> QED
      BY <1>1 DEF Resumed, Parts, Conversations
  <2> QED
    BY <2>1 DEF Resume
<1> HIDE DEF open, stage
<1>5. /\ t \in Parts(t) /\ t.lead = s.lead /\ t.conversation.mode = "AI_ACTIVE"
      /\ t.conversation.handoff = 0 /\ t.followUps = s.followUps
      /\ t.handoffs = s.handoffs /\ t.openHandoff = open
      /\ SameBooks(s, t)
  BY <1>1, <1>2, <1>3 DEF Parts, Leads, Conversations, Stages, SameBooks
<1> HIDE DEF t
<1>6. Shaped(t) /\ Silent(t)
  BY <1>1, <1>2, <1>5 DEF Sound, Shaped, Silent, SameBooks
<1> HIDE DEF type
<1>7. Shaped(u) /\ Silent(u) /\ u.conversation.mode = "AI_ACTIVE" /\ Carries(t, u)
  BY <1>3, <1>5, <1>6, ActionReplaced, ActionCarried DEF Silent
<1> HIDE DEF u
<1>8. Booked(u) /\ Done(u)
  <2>1. Booked(t) /\ Done(t)
    BY <1>5, BooksDecide, EarnedIsDone DEF Done, Won
  <2> QED
    BY <1>7, <2>1 DEF Carries, Done
<1> QED
  BY <1>4, <1>7, <1>8, ReconciledEarned

LEMMA WritesCarried ==
  ASSUME NEW s, Shaped(s), NEW value, NEW fact
  PROVE  /\ Carries(s, [s EXCEPT !.marketing = value])
         /\ Carries(s, [s EXCEPT !.verified = value])
         /\ Carries(s, [s EXCEPT !.followUps = value])
         /\ Carries(s, [s EXCEPT !.lead.service = value])
         /\ Carries(s, [s EXCEPT !.conversation.stage = value])
         /\ Carries(s, Remember(s, fact, value))
<1>1. s \in Parts(s)
  BY DEF Shaped
<1>2. ASSUME NEW r, SameBooks(s, r), r.lead.status = s.lead.status,
             r.conversation.mode = s.conversation.mode
      PROVE  Carries(s, r)
  BY <1>2, SameBooksCarry DEF Won, WonAndClosed
<1>3. Carries(s, [s EXCEPT !.marketing = value])
  <2> DEFINE r == [s EXCEPT !.marketing = value]
  <2>1. SameBooks(s, r) /\ r.lead = s.lead /\ r.conversation = s.conversation
    BY <1>1 DEF Parts, SameBooks
  <2> QED
    BY <1>2, <2>1
<1>4. Carries(s, [s EXCEPT !.verified = value])
  <2> DEFINE r == [s EXCEPT !.verified = value]
  <2>1. SameBooks(s, r) /\ r.lead = s.lead /\ r.conversation = s.conversation
    BY <1>1 DEF Parts, SameBooks
  <2> QED
    BY <1>2, <2>1
<1>5. Carries(s, [s EXCEPT !.followUps = value])
  <2> DEFINE r == [s EXCEPT !.followUps = value]
  <2>1. SameBooks(s, r) /\ r.lead = s.lead /\ r.conversation = s.conversation
    BY <1>1 DEF Parts, SameBooks
  <2> QED
    BY <1>2, <2>1
<1>6. Carries(s, [s EXCEPT !.lead.service = value])
  <2> DEFINE r == [s EXCEPT !.lead.service = value]
  <2>1. SameBooks(s, r) /\ r.lead.status = s.lead.status /\ r.conversation = s.conversation
    BY <1>1 DEF Parts, Leads, SameBooks
  <2> QED
    BY <1>2, <2>1
<1>7. Carries(s, [s EXCEPT !.conversation.stage = value])
  <2> DEFINE r == [s EXCEPT !.conversation.stage = value]
  <2>1. SameBooks(s, r) /\ r.lead = s.lead /\ r.conversation.mode = s.conversation.mode
    BY <1>1 DEF Parts, Conversations, SameBooks
  <2> QED
    BY <1>2, <2>1
<1>8. Carries(s, Remember(s, fact, value))
  <2> DEFINE memory == [s.memory EXCEPT ![fact] = value]
             r == [s EXCEPT !.memory = memory]
  <2>1. Remember(s, fact, value) = r
    BY DEF Remember
  <2> HIDE DEF memory
  <2>2. SameBooks(s, r) /\ r.lead = s.lead /\ r.conversation = s.conversation
    BY <1>1 DEF Parts, SameBooks
  <2> QED
    BY <1>2, <2>1, <2>2
<1> QED
  BY <1>3, <1>4, <1>5, <1>6, <1>7, <1>8

-----------------------------------------------------------------------------
\* The owner's operations keep the work booked and the wins earned.

SoundWins == Sound(demo) /\ WonInv
EarnedBy(r) == Booked(r) /\ Earned(r)

LEMMA CarriedIsEarned ==
  ASSUME SoundWins, NEW r, Carries(demo, r)
  PROVE  EarnedBy(r)
BY CarriedEarned DEF SoundWins, WonInv, EarnedBy

\* A row of open work is saved and the opportunity reconciled or lost; or the work is completed.
LEMMA BookedAgain ==
  ASSUME SoundWins, NEW w \in WorkOf(demo), StatusIn(demo, w) # "COMPLETED",
         NEW r, NEW status, Sound(r), Booked(r), Saving(demo, r, w, status)
  PROVE  /\ EarnedBy(Reconcile(r))
         /\ \A reason : EarnedBy(CloseLost(r, reason))
<1>1. Earned(r) /\ Done(r)
  BY Rebooked, EarnedIsDone DEF SoundWins, WonInv
<1>2. EarnedBy(Reconcile(r))
  BY <1>1, ReconciledEarned DEF EarnedBy, Sound
<1>3. ASSUME NEW reason PROVE EarnedBy(CloseLost(r, reason))
  BY <1>1, LosingCarried, CarriedEarned DEF EarnedBy, Sound
<1> QED
  BY <1>2, <1>3

\* An opportunity that is not won takes new work.
LEMMA BookedNew ==
  ASSUME OpenLead, NEW r, r.lead = demo.lead
  PROVE  Done(r)
BY FreeToBook DEF OpenLead, Won

LEMMA OpportunityEarned ==
  ASSUME SoundWins, NextOpportunity
  PROVE  EarnedBy(demo')
<1>1. ASSUME NEW reason \in CloseReasons, CloseOpportunityLost(reason) PROVE EarnedBy(demo')
  BY <1>1, LosingCarried, CarriedIsEarned DEF CloseOpportunityLost, SoundWins, Sound
<1>2. EarnedBy(Reopen(demo)) /\ Sound(Reopen(demo))
  BY ReopenedEarned, ReopenedSoundly DEF EarnedBy, SoundWins, WonInv
<1>3. ASSUME PrepareReactivation PROVE EarnedBy(demo')
  <2>1. demo' = Reactivated(Reopen(demo))
    BY <1>3 DEF PrepareReactivation
  <2>2. Carries(Reopen(demo), Reactivated(Reopen(demo)))
    BY <1>2, ReactivationCarried
  <2> QED
    BY <1>2, <2>1, <2>2, CarriedEarned DEF EarnedBy
<1> QED
  BY <1>1, <1>2, <1>3 DEF NextOpportunity, ReopenOpportunity

LEMMA TakeoverEarned ==
  ASSUME SoundWins, NextTakeover
  PROVE  EarnedBy(demo')
<1>1. ASSUME StartHumanTakeover PROVE EarnedBy(demo')
  BY <1>1, TakeoverCarried, CarriedIsEarned DEF StartHumanTakeover, SoundWins, Sound
<1>2. ASSUME ResumeAssistant PROVE EarnedBy(demo')
  BY <1>2, ResumedEarned DEF ResumeAssistant, SoundWins, WonInv, EarnedBy
<1> QED
  BY <1>1, <1>2 DEF NextTakeover

LEMMA CustomerEarned ==
  ASSUME SoundWins, NextCustomer
  PROVE  EarnedBy(demo')
<1> USE DEF SoundWins
<1>1. ASSUME OptOutMarketing PROVE EarnedBy(demo')
  BY <1>1, WritesCarried, CarriedIsEarned DEF OptOutMarketing, Sound
<1>2. ASSUME NEW r, Sound(r), Carries(demo, r) PROVE EarnedBy(Reconcile(r))
  BY <1>2, CarriedIsEarned, EarnedIsDone, ReconciledEarned DEF EarnedBy, Sound
<1>3. ASSUME SelectServiceForLead PROVE EarnedBy(demo')
  <2> DEFINE r == Remember(demo, "service", 1)
             t == [r EXCEPT !.lead.service = TRUE]
  <2>1. "service" \in Facts /\ 1 \in 0 .. 2
    BY DEF Facts
  <2>2. Sound(r) /\ Carries(demo, r)
    BY <2>1, MemoryWritten, WritesCarried DEF Sound
  <2> HIDE DEF r
  <2>3. Sound(t) /\ Carries(r, t)
    BY <2>2, ServiceWritten, WritesCarried DEF Sound
  <2>4. demo' = Reconcile(t)
    BY <1>3 DEF SelectServiceForLead, r
  <2> HIDE DEF t
  <2> QED
    BY <1>2, <2>2, <2>3, <2>4, CarriedOn
<1>4. ASSUME NEW fact \in OwnerFacts, NEW value \in 1 .. 2, RememberCustomerFact(fact, value)
      PROVE  EarnedBy(demo')
  <2> DEFINE r == Remember(demo, fact, value)
  <2>1. fact \in Facts /\ value \in 0 .. 2
    BY OwnerAssumption
  <2>2. Sound(r) /\ Carries(demo, r)
    BY <2>1, MemoryWritten, WritesCarried DEF Sound
  <2>3. demo' = r \/ demo' = Reconcile(r)
    BY <1>4 DEF RememberCustomerFact
  <2> HIDE DEF r
  <2> QED
    BY <1>2, <2>2, <2>3, CarriedIsEarned
<1> QED
  BY <1>1, <1>3, <1>4 DEF NextCustomer

LEMMA FollowUpsEarned ==
  ASSUME SoundWins, NextFollowUps
  PROVE  EarnedBy(demo')
<1>1. Shaped(demo)
  BY DEF SoundWins, Sound
<1>2. ASSUME ScheduleFollowUpForConversation PROVE EarnedBy(demo')
  <2> DEFINE x == ScenarioOf(InferredStage(demo))
  <2>1. x \in Scenarios /\ demo' = Schedule(demo, x)
    BY <1>2, ScenarioOfStage DEF ScheduleFollowUpForConversation, Unblocked
  <2> HIDE DEF x
  <2> QED
    BY <1>1, <2>1, SchedulingCarried, CarriedIsEarned
<1>3. ASSUME NEW x \in Scenarios, RecordFollowUpAttempt(x) PROVE EarnedBy(demo')
  <2> DEFINE more == [demo.followUps EXCEPT ![x] = NextStep(@, x)]
  <2>1. demo' = [demo EXCEPT !.followUps = more]
    BY <1>3 DEF RecordFollowUpAttempt
  <2> HIDE DEF more
  <2> QED
    BY <1>1, <2>1, WritesCarried, CarriedIsEarned
<1>4. ASSUME CancelFollowUpsManually PROVE EarnedBy(demo')
  BY <1>1, <1>4, StoppingCarried, CarriedIsEarned DEF CancelFollowUpsManually
<1> QED
  BY <1>2, <1>3, <1>4 DEF NextFollowUps

LEMMA AppointmentsEarned ==
  ASSUME SoundWins, NextAppointments
  PROVE  EarnedBy(demo')
<1> USE DEF SoundWins
<1> SUFFICES ASSUME NEW a \in Appointments,
                    \/ \E slot \in Slots : CreateAppointment(a, slot) \/ RescheduleAppointment(a, slot)
                    \/ ConfirmAppointment(a)
                    \/ CompleteAppointment(a)
                    \/ CancelAppointment(a)
             PROVE  EarnedBy(demo')
  BY DEF NextAppointments
<1> DEFINE was == demo.appointments[a].status
           held == demo.appointments[a].slot
<1>1. was \in WorkStatuses /\ held \in Slots \cup {"none"}
  BY DEF WonInv, Booked, WorkRows
<1>2. {"TENTATIVE", "CONFIRMED", "CANCELLED", "COMPLETED"} \subseteq WorkStatuses \ {"NONE"}
  BY DEF WorkStatuses
<1>3. ASSUME NEW status \in WorkStatuses \ {"NONE"}, NEW slot \in Slots \cup {"none"},
             NEW r, r = SaveAppointment(demo, a, status, slot)
      PROVE  Sound(r) /\ Booked(r) /\ Saving(demo, r, AppointmentWork(a), status)
  BY <1>3, AppointmentSaved, AppointmentWritten DEF WonInv
<1>4. was # "NONE" => AppointmentWork(a) \in WorkOf(demo)
  BY DEF WorkOf
<1>5. StatusIn(demo, AppointmentWork(a)) = was
  BY DEF StatusIn, AppointmentWork
<1>6. ASSUME NEW slot \in Slots, CreateAppointment(a, slot) PROVE EarnedBy(demo')
  <2> DEFINE r == SaveAppointment(demo, a, "TENTATIVE", slot)
             stage == IF Deposit[a] > 0 THEN "AWAITING_DEPOSIT" ELSE "AWAITING_CONFIRMATION"
             t == TryFollowUp(r, stage)
  <2>1. demo' = Reconcile(t) /\ OpenLead
    BY <1>6 DEF CreateAppointment
  <2>2. Sound(r) /\ Booked(r) /\ Saving(demo, r, AppointmentWork(a), "TENTATIVE")
    BY <1>2, <1>3
  <2> HIDE DEF r, stage
  <2>3. Done(r)
    BY <2>1, <2>2, BookedNew DEF Saving
  <2>4. Sound(t) /\ Carries(r, t)
    BY <2>2, FollowUpTriedSoundly, TryingCarried DEF Sound
  <2> HIDE DEF t
  <2> QED
    BY <2>1, <2>2, <2>3, <2>4, CarriedEarned, ReconciledEarned DEF EarnedBy, Sound
<1>7. ASSUME NEW slot \in Slots, RescheduleAppointment(a, slot) PROVE EarnedBy(demo')
  <2> DEFINE r == SaveAppointment(demo, a, was, slot)
  <2>1. demo' = Reconcile(r) /\ was \in {"TENTATIVE", "CONFIRMED"}
    BY <1>7 DEF RescheduleAppointment
  <2>2. Sound(r) /\ Booked(r) /\ Saving(demo, r, AppointmentWork(a), was)
    BY <1>2, <1>3, <2>1
  <2> HIDE DEF r, was
  <2> QED
    BY <1>4, <1>5, <2>1, <2>2, BookedAgain
<1>8. ASSUME ConfirmAppointment(a) PROVE EarnedBy(demo')
  <2> DEFINE r == SaveAppointment(demo, a, "CONFIRMED", held)
  <2>1. demo' = Reconcile(r) /\ was = "TENTATIVE"
    BY <1>8 DEF ConfirmAppointment
  <2>2. Sound(r) /\ Booked(r) /\ Saving(demo, r, AppointmentWork(a), "CONFIRMED")
    BY <1>1, <1>2, <1>3
  <2> HIDE DEF r, was
  <2> QED
    BY <1>4, <1>5, <2>1, <2>2, BookedAgain
<1>9. ASSUME CompleteAppointment(a) PROVE EarnedBy(demo')
  <2> DEFINE r == SaveAppointment(demo, a, "COMPLETED", held)
  <2>1. demo' = Complete(r, "APPOINTMENT", a)
    BY <1>9 DEF CompleteAppointment
  <2>2. Sound(r) /\ Booked(r) /\ Saving(demo, r, AppointmentWork(a), "COMPLETED")
    BY <1>1, <1>2, <1>3
  <2> HIDE DEF r
  <2> QED
    BY <2>1, <2>2, FinishedByCompleting, CompletedEarned DEF EarnedBy
<1>10. ASSUME CancelAppointment(a) PROVE EarnedBy(demo')
  <2> DEFINE r == SaveAppointment(demo, a, "CANCELLED", held)
  <2>1. demo' = CloseLost(r, "CANCELLED") /\ was \notin {"NONE", "COMPLETED"}
    BY <1>10 DEF CancelAppointment
  <2>2. Sound(r) /\ Booked(r) /\ Saving(demo, r, AppointmentWork(a), "CANCELLED")
    BY <1>1, <1>2, <1>3
  <2> HIDE DEF r, was
  <2> QED
    BY <1>4, <1>5, <2>1, <2>2, BookedAgain
<1> QED
  BY <1>6, <1>7, <1>8, <1>9, <1>10

LEMMA QuotesEarned ==
  ASSUME SoundWins, NextQuotes
  PROVE  EarnedBy(demo')
<1> USE DEF SoundWins
<1> SUFFICES ASSUME NEW q \in Quotes,
                    \/ CreateQuoteDraft(q)
                    \/ SendQuote(q)
                    \/ DeclineQuote(q)
                    \/ ExpireQuote(q)
                    \/ AcceptQuote(q)
                    \/ \E slot \in Slots : ScheduleJob(q, slot) \/ RescheduleJob(q, slot)
                    \/ CancelJob(q)
                    \/ CompleteJob(q)
             PROVE  EarnedBy(demo')
  BY DEF NextQuotes
<1> DEFINE was == demo.jobs[q].status
           held == demo.jobs[q].slot
<1>1. was \in WorkStatuses /\ held \in Slots \cup {"none"}
  BY DEF WonInv, Booked, WorkRows
<1>2. {"PENDING_DEPOSIT", "READY_TO_SCHEDULE", "SCHEDULED", "CANCELLED", "COMPLETED"}
        \subseteq WorkStatuses \ {"NONE"}
  BY DEF WorkStatuses
<1>3. ASSUME NEW status \in WorkStatuses \ {"NONE"}, NEW slot \in Slots \cup {"none"},
             NEW s, Sound(s), Booked(s)
      PROVE  /\ Sound(SaveJob(s, q, status, slot)) /\ Booked(SaveJob(s, q, status, slot))
             /\ Saving(s, SaveJob(s, q, status, slot), JobWork(q), status)
  BY <1>3, JobSaved, JobWritten
<1>4. was # "NONE" => JobWork(q) \in WorkOf(demo)
  BY DEF WorkOf
<1>5. StatusIn(demo, JobWork(q)) = was
  BY DEF StatusIn, JobWork
<1>6. Sound(demo) /\ Booked(demo)
  BY DEF WonInv
<1>7. ASSUME NEW status
      PROVE  /\ Sound(SaveQuote(demo, q, status)) /\ Carries(demo, SaveQuote(demo, q, status))
             /\ SaveQuote(demo, q, status).lead = demo.lead
             /\ Booked(SaveQuote(demo, q, status)) /\ Earned(SaveQuote(demo, q, status))
  BY <1>6, QuoteSaved, QuoteCarried, CarriedIsEarned DEF EarnedBy
<1>8. ASSUME CreateQuoteDraft(q) PROVE EarnedBy(demo')
  <2> DEFINE r == SaveQuote(demo, q, "DRAFT")
  <2>1. demo' = Reconcile(r)
    BY <1>8 DEF CreateQuoteDraft
  <2>2. Sound(r) /\ Booked(r) /\ Earned(r)
    BY <1>7
  <2> HIDE DEF r
  <2> QED
    BY <2>1, <2>2, EarnedIsDone, ReconciledEarned DEF EarnedBy, Sound
<1>9. ASSUME SendQuote(q) PROVE EarnedBy(demo')
  <2> DEFINE r == SaveQuote(demo, q, "SENT")
             t == [r EXCEPT !.conversation.complete = FALSE]
             u == ReplaceAction(t, "FOLLOW_UP_QUOTE", "now")
             v == TryFollowUp(u, "QUOTE_SENT")
  <2>1. demo' = Reconcile(v)
    BY <1>9 DEF SendQuote
  <2>2. Sound(r) /\ Booked(r) /\ Earned(r)
    BY <1>7
  <2> HIDE DEF r
  <2>3. Sound(t) /\ Carries(r, t)
    BY <2>2, CompletenessWritten, CompletenessCarried DEF Sound
  <2> HIDE DEF t
  <2>4. "FOLLOW_UP_QUOTE" \in ActionTypes
    BY DEF ActionTypes
  <2>5. Sound(u) /\ Carries(t, u)
    BY <2>3, <2>4, ActionReplacedSoundly, ActionCarried DEF Sound
  <2> HIDE DEF u
  <2>6. Sound(v) /\ Carries(u, v)
    BY <2>5, FollowUpTriedSoundly, TryingCarried DEF Sound
  <2> HIDE DEF v
  <2>7. Booked(v) /\ Done(v)
    BY <2>2, <2>3, <2>5, <2>6, EarnedIsDone DEF Carries, Done
  <2> QED
    BY <2>1, <2>6, <2>7, ReconciledEarned DEF EarnedBy, Sound
<1>10. ASSUME NEW status, NEW reason, demo' = CloseLost(SaveQuote(demo, q, status), reason)
       PROVE  EarnedBy(demo')
  BY <1>7, <1>10, LosingCarried, CarriedEarned DEF EarnedBy, Sound
<1>11. ASSUME AcceptQuote(q) PROVE EarnedBy(demo')
  <2> DEFINE r == SaveQuote(demo, q, "ACCEPTED")
             status == IF Deposit[q] > 0 THEN "PENDING_DEPOSIT" ELSE "READY_TO_SCHEDULE"
             t == SaveJob(r, q, status, "none")
             type == IF Deposit[q] > 0 THEN "REQUEST_DEPOSIT" ELSE "SCHEDULE_JOB"
             u == ReplaceAction(t, type, "now")
             v == TryFollowUp(u, "AWAITING_DEPOSIT")
  <2>1. (demo' = Reconcile(v) \/ demo' = Reconcile(u)) /\ OpenLead
    BY <1>11 DEF AcceptQuote
  <2>2. Sound(r) /\ Booked(r) /\ r.lead = demo.lead
    BY <1>7
  <2>3. status \in WorkStatuses \ {"NONE"}
    BY <1>2
  <2> HIDE DEF r, status
  <2>4. Sound(t) /\ Booked(t) /\ t.lead = demo.lead
    BY <1>3, <2>2, <2>3 DEF Saving
  <2> HIDE DEF t
  <2>5. Done(t)
    BY <2>1, <2>4, BookedNew
  <2>6. type \in ActionTypes
    BY DEF ActionTypes
  <2> HIDE DEF type
  <2>7. Sound(u) /\ Carries(t, u)
    BY <2>4, <2>6, ActionReplacedSoundly, ActionCarried DEF Sound
  <2> HIDE DEF u
  <2>8. Sound(v) /\ Carries(u, v)
    BY <2>7, FollowUpTriedSoundly, TryingCarried DEF Sound
  <2> HIDE DEF v
  <2>9. Booked(u) /\ Done(u) /\ Booked(v) /\ Done(v)
    BY <2>4, <2>5, <2>7, <2>8 DEF Carries, Done
  <2> QED
    BY <2>1, <2>7, <2>8, <2>9, ReconciledEarned DEF EarnedBy, Sound
<1>12. ASSUME NEW slot \in Slots, ScheduleJob(q, slot) \/ RescheduleJob(q, slot) PROVE EarnedBy(demo')
  <2> DEFINE r == SaveJob(demo, q, "SCHEDULED", slot)
  <2>1. demo' = Reconcile(r) /\ was \in {"READY_TO_SCHEDULE", "SCHEDULED"}
    BY <1>12 DEF ScheduleJob, RescheduleJob
  <2>2. Sound(r) /\ Booked(r) /\ Saving(demo, r, JobWork(q), "SCHEDULED")
    BY <1>2, <1>3, <1>6
  <2> HIDE DEF r, was
  <2> QED
    BY <1>4, <1>5, <2>1, <2>2, BookedAgain
<1>13. ASSUME CancelJob(q) PROVE EarnedBy(demo')
  <2> DEFINE r == SaveJob(demo, q, "CANCELLED", held)
  <2>1. demo' = CloseLost(r, "CANCELLED") /\ was \notin {"NONE", "COMPLETED"}
    BY <1>13 DEF CancelJob
  <2>2. Sound(r) /\ Booked(r) /\ Saving(demo, r, JobWork(q), "CANCELLED")
    BY <1>1, <1>2, <1>3, <1>6
  <2> HIDE DEF r, was
  <2> QED
    BY <1>4, <1>5, <2>1, <2>2, BookedAgain
<1>14. ASSUME CompleteJob(q) PROVE EarnedBy(demo')
  <2> DEFINE r == SaveJob(demo, q, "COMPLETED", held)
  <2>1. demo' = Complete(r, "JOB", q)
    BY <1>14 DEF CompleteJob
  <2>2. Sound(r) /\ Booked(r) /\ Saving(demo, r, JobWork(q), "COMPLETED")
    BY <1>1, <1>2, <1>3, <1>6
  <2> HIDE DEF r
  <2> QED
    BY <2>1, <2>2, FinishedByCompleting, CompletedEarned DEF EarnedBy
<1> QED
  BY <1>8, <1>9, <1>10, <1>11, <1>12, <1>13, <1>14 DEF DeclineQuote, ExpireQuote

\* A payment or a refund is sound by the ledger; what it does to the stage is reconciled.
LEMMA PaymentsEarned ==
  ASSUME SoundWins, NextPayments
  PROVE  EarnedBy(demo')
<1> USE DEF SoundWins
<1> DEFINE p == demo.payments
<1>1. Booked(demo) /\ Done(demo)
  BY EarnedIsDone DEF WonInv
<1>2. ASSUME NEW reference \in Payable, NEW amount \in 1 .. Price[reference.id],
             RecordPayment(reference, amount)
      PROVE  EarnedBy(demo')
  <2> DEFINE r == Saved(demo, reference.type, reference.id, "PAYMENT", amount, 0)
             t == ReleaseJob(r, reference.type, reference.id)
  <2>1. demo' = Reconcile(t)
    BY <1>2 DEF RecordPayment
  <2>2. Sound(r)
    BY <1>2, PaymentIsSound
  <2>3. Booked(r) /\ Done(r)
    BY <1>1, PaymentBooked
  <2>4. reference.type = "JOB" => reference.id \in Quotes
    BY DEF Payable
  <2> HIDE DEF r
  <2>5. Sound(t) /\ Booked(t) /\ Done(t)
    BY <2>2, <2>3, <2>4, JobReleased, ReleasedBooked
  <2> HIDE DEF t
  <2> QED
    BY <2>1, <2>5, ReconciledEarned DEF EarnedBy, Sound
<1>3. ASSUME NEW i \in DOMAIN p, NEW amount \in 1 .. p[i].amount, RecordRefund(i, amount)
      PROVE  EarnedBy(demo')
  <2> DEFINE r == Saved(demo, demo.payments[i].type, demo.payments[i].id, "REFUND", amount, i)
  <2>1. demo' = Reconcile(r)
    BY <1>3 DEF RecordRefund
  <2>2. Sound(r)
    BY <1>3, RefundIsSound
  <2>3. Booked(r) /\ Done(r)
    BY <1>1, PaymentBooked
  <2> HIDE DEF r
  <2> QED
    BY <2>1, <2>2, <2>3, ReconciledEarned DEF EarnedBy, Sound
<1>4. ASSUME NEW i, VerifyRevenueAttribution(i) PROVE EarnedBy(demo')
  BY <1>4, WritesCarried, CarriedIsEarned DEF VerifyRevenueAttribution, Sound
<1> QED
  BY <1>2, <1>3, <1>4 DEF NextPayments

-----------------------------------------------------------------------------
\* So do the calls: what they save after an await is a conversation that was open before it.

LEMMA HeardCarried ==
  ASSUME NEW s, Shaped(s), NEW m
  PROVE  Carries(s, Heard(s, m))
<1> DEFINE u == StopFollowUps(s)
           marketing == u.marketing /\ ~m.stop
           t == [u EXCEPT !.conversation.heard = TRUE, !.marketing = marketing]
<1>1. Heard(s, m) = Capture(t, m)
  BY DEF Heard
<1>2. Shaped(u) /\ Carries(s, u)
  BY FollowUpsStopped, StoppingCarried
<1> HIDE DEF u
<1>3. u \in Parts(u)
  BY <1>2 DEF Shaped
<1> HIDE DEF marketing
<1>4. SameBooks(u, t) /\ t.lead = u.lead /\ t.conversation.mode = u.conversation.mode
  BY <1>3 DEF Parts, Conversations, SameBooks
<1>5. /\ t.lead \in Leads(t.lead.action)
      /\ t = [u EXCEPT !.conversation = t.conversation, !.marketing = t.marketing]
  BY <1>3 DEF Parts, Conversations
<1>6. Carries(s, t)
  <2> HIDE DEF t
  <2> QED
    BY <1>2, <1>4, SameBooksCarry, CarriedOn DEF Won, WonAndClosed
<1>7. CASE m.fact = "none" \/ Conflicts(t, m)
  BY <1>1, <1>6, <1>7 DEF Capture
<1>8. CASE ~(m.fact = "none" \/ Conflicts(t, m))
  <2> DEFINE memory == [t.memory EXCEPT ![m.fact] = m.value]
             service == t.lead.service \/ (m.fact = "service" /\ m.value = 1)
             r == [t EXCEPT !.memory = memory, !.lead.service = service]
  <2>1. Capture(t, m) = r
    BY <1>8 DEF Capture
  <2> HIDE DEF memory, service
  <2>2. SameBooks(t, r) /\ r.lead.status = t.lead.status /\ r.conversation = t.conversation
    BY <1>3, <1>5 DEF Parts, Leads, SameBooks
  <2> HIDE DEF r, t
  <2>3. Carries(t, r)
    BY <2>2, SameBooksCarry DEF Won, WonAndClosed
  <2> QED
    BY <1>1, <1>6, <2>1, <2>3, CarriedOn
<1> QED
  BY <1>7, <1>8

LEMMA SuggestedCarried ==
  ASSUME Shaped(demo), NEW c
  PROVE  Carries(demo, Suggested(c))
BY WritesCarried DEF Suggested

LEMMA ActedCarried ==
  ASSUME Sound(demo), NEW c, FinalDecision(c) \in Decisions
  PROVE  Carries(demo, Acted(c))
<1> DEFINE d == FinalDecision(c)
           r == Suggested(c)
           t == ReplaceAction(r, d.action, "now")
           x == ScenarioForDecision(d)
           u == Schedule(t, x)
<1>1. Acted(c) = IF calls[c].before = "HUMAN_ACTIVE" THEN r
                 ELSE IF d.handoff THEN TakeOver(r)
                 ELSE IF d.followUp /\ MaySchedule(t, x) THEN u ELSE t
  BY DEF Acted
<1>2. d.action \in ActionTypes /\ x \in Scenarios \cup {"none"}
  BY ScenarioOfDecision DEF Decisions
<1>3. Shaped(r) /\ Carries(demo, r)
  BY SuggestedSoundly, SuggestedCarried DEF Sound
<1> HIDE DEF r
<1>4. Carries(r, TakeOver(r))
  BY <1>3, TakeoverCarried
<1>5. Shaped(t) /\ Carries(r, t)
  BY <1>2, <1>3, ActionReplaced, ActionCarried
<1> HIDE DEF t
<1>6. MaySchedule(t, x) => Carries(t, u)
  BY <1>2, <1>5, SchedulingCarried DEF MaySchedule, Unblocked
<1> HIDE DEF u, x, d
<1>7. \/ Acted(c) = r
      \/ Acted(c) = TakeOver(r)
      \/ Acted(c) = t
      \/ Acted(c) = u /\ MaySchedule(t, x)
  BY <1>1
<1>8. Carries(demo, TakeOver(r)) /\ Carries(demo, t)
  BY <1>3, <1>4, <1>5, CarriedOn
<1>9. MaySchedule(t, x) => Carries(demo, u)
  BY <1>6, <1>8, CarriedOn
<1> QED
  BY <1>3, <1>7, <1>8, <1>9

LEMMA CallsEarned ==
  ASSUME DemoInv, WonInv, NextCalls
  PROVE  EarnedBy(demo')
<1>1. SoundWins /\ Sound(demo) /\ Shaped(demo)
  BY DEF SoundWins, DemoInv, Sound
<1>2. ASSUME NEW c \in Calls, NEW m \in Messages, ReceiveCustomerMessage(c, m) PROVE EarnedBy(demo')
  BY <1>1, <1>2, HeardCarried, CarriedIsEarned DEF ReceiveCustomerMessage, Accept
<1>3. ASSUME NEW c \in Calls, NEW m \in Messages, IngestReturn(c, m) PROVE EarnedBy(demo')
  <2>1. Booked(Reopen(demo)) /\ Earned(Reopen(demo)) /\ Shaped(Reopen(demo))
    BY <1>1, ReopenedEarned, ReopenedSoundly DEF WonInv, Sound
  <2>2. demo' = Reopen(demo) \/ demo' = Heard(Reopen(demo), m)
    BY <1>3 DEF IngestReturn, Accept
  <2> QED
    BY <2>1, <2>2, HeardCarried, CarriedEarned DEF EarnedBy
<1>4. ASSUME demo' = demo PROVE EarnedBy(demo')
  BY <1>4 DEF WonInv, EarnedBy
<1>5. ASSUME NEW c \in Calls, Sent(c) PROVE EarnedBy(demo')
  <2> DEFINE v == calls[c].conversation
             r == [demo EXCEPT !.conversation = v]
  <2>1. demo' = r
    BY <1>5 DEF Sent
  <2>2. v.mode # "CLOSED"
    <3>1. calls[c] \in Outgoing(demo.handoffs)
      BY <1>5, RowsOfCalls DEF DemoInv, Sent
    <3> QED
      BY <3>1 DEF Outgoing, Readable
  <2>3. demo \in Parts(demo)
    BY <1>1 DEF Shaped
  <2> HIDE DEF v
  <2>4. SameBooks(demo, r) /\ r.conversation = v /\ r.lead = demo.lead
    BY <2>3 DEF Parts, SameBooks
  <2> HIDE DEF r
  <2>5. Carries(demo, r)
    BY <2>2, <2>4, SameBooksCarry DEF Won, WonAndClosed
  <2> QED
    BY <1>1, <2>1, <2>5, CarriedIsEarned
<1>6. ASSUME NEW c \in Calls, Decide(c) \/ DecideThrows(c) PROVE EarnedBy(demo')
  <2>1. FinalDecision(c) \in Decisions
    BY <1>6, DecidingCall DEF Decide, DecideThrows
  <2>2. demo' = Acted(c) \/ demo' = Suggested(c)
    BY <1>6 DEF Decide, DecideThrows
  <2> QED
    BY <1>1, <2>1, <2>2, ActedCarried, SuggestedCarried, CarriedIsEarned
<1> QED
  BY <1>2, <1>3, <1>4, <1>5, <1>6 DEF NextCalls, SendBusinessMessage, CallLost

LEMMA WonInvInit == InitConversation => WonInv
<1> SUFFICES ASSUME InitConversation PROVE WonInv
  OBVIOUS
<1>1. /\ demo.appointments = [a \in Appointments |-> [status |-> "NONE", slot |-> "none"]]
      /\ demo.jobs = [q \in Quotes |-> [status |-> "NONE", slot |-> "none"]]
      /\ demo.recent = [appointments |-> <<>>, quotes |-> <<>>, jobs |-> <<>>]
      /\ demo.lead.status = "NEW"
  BY DEF InitConversation, InitDemo
<1>2. demo.appointments \in [Appointments -> WorkRows] /\ demo.jobs \in [Quotes -> WorkRows]
  BY <1>1 DEF WorkRows, WorkStatuses
<1>3. demo.recent \in Recents /\ Range(demo.recent.appointments) = {} /\ Range(demo.recent.jobs) = {}
  BY <1>1 DEF Recents, Range
<1>4. Booked(demo)
  BY <1>1, <1>2, <1>3 DEF Booked
<1>5. Earned(demo)
  BY <1>1 DEF Earned, Done, Won, WonAndClosed
<1> QED
  BY <1>4, <1>5 DEF WonInv

LEMMA WonInvStep ==
  ASSUME DemoInv, WonInv, [NextDemo]_conversationVars
  PROVE  WonInv'
<1>1. SoundWins
  BY DEF SoundWins, DemoInv
<1>2. EarnedBy(demo')
  <2>1. CASE OwnerOperation
    BY <1>1, <2>1, OpportunityEarned, TakeoverEarned, CustomerEarned, FollowUpsEarned,
       AppointmentsEarned, QuotesEarned, PaymentsEarned DEF OwnerOperation
  <2>2. CASE NextCalls
    BY <2>2, CallsEarned
  <2>3. CASE UNCHANGED conversationVars
    BY <2>3 DEF conversationVars, WonInv, EarnedBy
  <2> QED
    BY <2>1, <2>2, <2>3 DEF NextDemo
<1> QED
  BY <1>2 DEF EarnedBy, WonInv, Booked, Earned, Done, Won, WonAndClosed, Finished, PaidFor, WorkOf, StatusIn, CollectedIn

LEMMA WonInvHolds == DemoSpec => []WonInv
<1>1. DemoInv /\ WonInv /\ [NextDemo]_conversationVars => WonInv'
  BY WonInvStep
<1> QED
  BY <1>1, WonInvInit, DemoInvHolds, PTL DEF DemoSpec

LEMMA ImageIsFinite ==
  ASSUME NEW S, IsFiniteSet(S), NEW T, NEW f \in [S -> T], \A t \in T : \E s \in S : f[s] = t
  PROVE  IsFiniteSet(T)
<1>1. f \in Surjection(S, T)
  BY DEF Surjection
<1> QED
  BY <1>1, FS_Surjection

LEMMA WorkIsFinite == Booked(demo) => IsFiniteSet(Work)
<1> SUFFICES ASSUME Booked(demo) PROVE IsFiniteSet(Work)
  OBVIOUS
<1> DEFINE booked == Range(demo.recent.appointments)
           accepted == Range(demo.recent.jobs)
           ofAppointment ==
             [a \in booked |-> [type |-> "APPOINTMENT", id |-> a, status |-> demo.appointments[a].status]]
           ofJob == [q \in accepted |-> [type |-> "JOB", id |-> q, status |-> demo.jobs[q].status]]
<1>1. /\ demo.recent.appointments \in Seq(Appointments) /\ demo.recent.jobs \in Seq(Quotes)
      /\ booked = {a \in Appointments : demo.appointments[a].status # "NONE"}
      /\ accepted = {q \in Quotes : demo.jobs[q].status # "NONE"}
  BY DEF Booked, Recents
<1>2. ASSUME NEW S, NEW order \in Seq(S) PROVE IsFiniteSet(Range(order))
  <2>1. IsFiniteSet(1 .. Len(order))
    BY <1>2, FS_Interval
  <2>2. /\ order \in [1 .. Len(order) -> Range(order)]
        /\ \A w \in Range(order) : \E i \in 1 .. Len(order) : order[i] = w
    BY DEF Range
  <2> QED
    BY <2>1, <2>2, ImageIsFinite
<1>3. IsFiniteSet(booked) /\ IsFiniteSet(accepted)
  BY <1>1, <1>2
<1>4. Work = Range(ofAppointment) \cup Range(ofJob)
  BY <1>1 DEF Work, Range
<1>5. ofAppointment \in [booked -> Range(ofAppointment)] /\ ofJob \in [accepted -> Range(ofJob)]
  BY DEF Range
<1> HIDE DEF ofAppointment, ofJob, booked, accepted
<1>6. /\ \A w \in Range(ofAppointment) : \E a \in booked : ofAppointment[a] = w
      /\ \A w \in Range(ofJob) : \E q \in accepted : ofJob[q] = w
  BY <1>5 DEF Range
<1>7. IsFiniteSet(Range(ofAppointment)) /\ IsFiniteSet(Range(ofJob))
  BY <1>3, <1>5, <1>6, ImageIsFinite
<1> QED
  BY <1>4, <1>7, FS_Union

\* An opportunity with one piece of work is won only if that work is completed; and it is paid in full
\* as long as the win keeps the conversation closed. A send that was waiting may end that.
THEOREM WinsAreEarned == DemoSpec => []WonMeansDoneAndPaid
<1>1. DemoInv /\ WonInv => WonMeansDoneAndPaid
  <2> SUFFICES ASSUME DemoInv, WonInv, demo.lead.status = "WON", Cardinality(Work) = 1, NEW w \in Work
               PROVE  /\ w.status = "COMPLETED"
                      /\ demo.conversation.mode = "CLOSED" =>
                           Collected(demo, w.type, w.id) = Price[w.id]
    BY DEF WonMeansDoneAndPaid
  <2>1. Finished(demo) /\ (demo.conversation.mode = "CLOSED" => PaidFor(demo))
    BY DEF WonInv, Earned, Done, Won, WonAndClosed
  <2>2. Work = {w}
    BY WorkIsFinite, FS_Singleton DEF WonInv
  <2> DEFINE v == [type |-> w.type, id |-> w.id]
  <2>3. v \in WorkOf(demo) /\ w.status = StatusIn(demo, v)
    BY DEF Work, WorkOf, StatusIn, AppointmentWork, JobWork
  <2>4. WorkOf(demo) = {v}
    <3>1. ASSUME NEW u \in WorkOf(demo) PROVE u = v
      <4>1. [type |-> u.type, id |-> u.id, status |-> StatusIn(demo, u)] \in Work
            /\ u = [type |-> u.type, id |-> u.id]
        BY DEF Work, WorkOf, StatusIn, AppointmentWork, JobWork
      <4> QED
        BY <2>2, <4>1
    <3> QED
      BY <2>3, <3>1
  <2>5. Collected(demo, w.type, w.id) = CollectedIn(demo.payments, w.type, w.id)
    BY LedgerIsTyped, CollectedIsSum DEF DemoInv
  <2> QED
    BY <2>1, <2>3, <2>4, <2>5 DEF Finished, PaidFor
<1> QED
  BY <1>1, DemoInvHolds, WonInvHolds, PTL
=============================================================================
