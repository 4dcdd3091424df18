-------------------------- MODULE StoreTransactions --------------------------
(***************************************************************************)
(* Concurrent HTTP requests on the PostgreSQL store. Every request is one  *)
(* READ COMMITTED transaction: it claims its idempotency key, runs the     *)
(* statements of one store operation, completes the claim and commits;     *)
(* anything thrown on the way rolls all of it back.                        *)
(*                                                                         *)
(* PostgreSQL itself is modelled from how the store uses it: row locks in  *)
(* three modes, waits for the uncommitted writer of a unique key, one      *)
(* snapshot per statement (a statement that had to wait sees the rows it   *)
(* locks as they are now and every other row as it was when it started),   *)
(* deadlock detection, and the refusal of every statement after a failed   *)
(* one until ROLLBACK.                                                     *)
(*                                                                         *)
(* The data: one customer with one conversation, opportunity 1, a payment  *)
(* and an earlier refund of one unit of it; a second customer's            *)
(* opportunity 2 wants the same slot of the same staff member.             *)
(***************************************************************************)
EXTENDS RecoveryPolicy, FiniteSets, Sequences

CONSTANTS
  Requests,       \* concurrent HTTP requests, every one sent once
  Keys,           \* idempotency keys that clients choose
  PaymentAmount,  \* units collected by the payment that refunds refer to
  OfferedSets     \* sets of <<operation, key>>; the clients of one behaviour send one of them

Operations == {"evaluate", "approve", "optOut", "respond", "takeover", "resume",
               "followUp", "book1", "book2", "refund", "collected", "refunded"}

ASSUME OfferedAssumption == OfferedSets \subseteq SUBSET (Operations \X Keys)
ASSUME PaymentAmountAssumption == PaymentAmount \in Nat \ {0}
\* A request has an identity of its own, and there are as many as clients have sent.
ASSUME RequestsAssumption == IsFiniteSet(Requests) /\ {"ABSENT", "FIRST"} \cap Requests = {}

\* The scope of an operation's idempotency key; the operation stands for its request's hash.
Scope(op) == IF op \in {"book1", "book2"} THEN "book"
             ELSE IF op \in {"collected", "refunded"} THEN "revenue" ELSE op

VARIABLES
  offered,  \* the operations and keys of this behaviour
  db,       \* what is committed: the value of every row
  txn,      \* per request: operation, key, place in its plan, what it saw and wrote, its answer
  locks     \* row locks and unique keys held by the transactions in progress

txnVars == <<offered, db, txn, locks>>

-----------------------------------------------------------------------------
(* Rows. Absent is a row that has not been inserted. *)

Absent == "ABSENT"
First == "FIRST"  \* the follow-up, the action and the refund that exist from the start


The(name) == <<name, "row">>
Job(j) == <<"job", j>>
Action(a) == <<"action", a>>
Refund(p) == <<"repaid", p>>
Key(op, k) == <<Scope(op), k>>

RowIds == Requests \cup {First}

Tables == {The(n) : n \in {"conversation", "customer", "opp1", "opp2", "payment", "slot",
                           "collected", "refunded"}}
JobRows == {Job(j) : j \in RowIds}
ActionRows == {Action(a) : a \in RowIds}
Rows == Tables \cup JobRows \cup ActionRows
        \cup {Refund(p) : p \in RowIds} \cup {Key(op, k) : op \in Operations, k \in Keys}

Opportunity(status) == [status |-> status, recovery |-> "AT_RISK", attributed |-> 0]

InitialRow(row) ==
  CASE row = The("conversation") -> "AI_ACTIVE"
    [] row = The("customer") -> "CONTACTABLE"
    [] row \in {The("opp1"), The("opp2")} -> Opportunity("CONTACTING")
    [] row = The("payment") -> PaymentAmount
    [] row = Job(First) -> "scheduled"
    [] row = Action(First) -> "WAITING_APPROVAL"
    [] row = Refund(First) -> "COLLECTED"
    [] OTHER -> Absent

\* Rows as a transaction sees them: what it wrote over what is there.
Over(wrote, rows) ==
  [row \in DOMAIN wrote \cup DOMAIN rows |-> IF row \in DOMAIN wrote THEN wrote[row] ELSE rows[row]]

NoRows == [row \in {} |-> Absent]

-----------------------------------------------------------------------------
(* Statements. A plan is the sequence of statements of an operation, each  *)
(* with the rows it names and the strength of their locks: WHOLE for       *)
(* SELECT FOR UPDATE and for a unique key being inserted, UPDATE, and      *)
(* SHARE for the row that a foreign key of an inserted row points to.      *)

Lock(does, names, mode) == [does |-> does, rows |-> {The(n) : n \in names}, mode |-> mode]
Read(does) == Lock(does, {}, "SHARE")
Update(does) == Lock(does, {}, "UPDATE")  \* of the rows its WHERE clause finds

\* Plausible error: the opportunity is read without FOR UPDATE.
UnlockedEvaluatePlan == <<Read("context"), Lock("evaluate", {}, "WHOLE")>>

EvaluatePlan == <<Lock("context", {"opp1"}, "WHOLE"), Lock("evaluate", {}, "WHOLE")>>
ApprovePlan == <<Lock("approvable", {}, "WHOLE"), Lock("approve", {"opp1"}, "UPDATE")>>
\* Plausible error: actions are cancelled before the opportunity is stopped.
RetireFirstOptOutPlan == <<Lock("blockContact", {"customer"}, "UPDATE"), Update("retireAutomated"),
                           Lock("stop", {"opp1"}, "UPDATE"), Update("cancelJobs")>>

OptOutPlan == <<Lock("blockContact", {"customer"}, "UPDATE"), Lock("stop", {"opp1"}, "UPDATE"),
                Update("retireStopped"), Update("cancelJobs")>>
RespondPlan == <<Lock("contactable", {"opp1"}, "WHOLE"), Lock("message", {"conversation"}, "UPDATE"),
                 Update("cancelJobs"), Update("retireAutomated")>>
\* Plausible error: the actions are cancelled before the opportunity is locked.
RetireFirstTakeoverPlan == <<Lock("takeOver", {"conversation"}, "WHOLE"), Update("cancelJobs"),
                             Update("retireAutomated"), Lock("requireHuman", {"opp1"}, "UPDATE")>>

TakeoverPlan == <<Lock("takeOver", {"conversation"}, "WHOLE"), Update("cancelJobs"),
                  Lock("requireHuman", {"opp1"}, "UPDATE"), Update("retireAutomated")>>
ResumePlan == <<Lock("resume", {"conversation"}, "WHOLE"), Lock("atRisk", {"opp1"}, "UPDATE"),
                Update("retireHandoff")>>
FollowUpPlan == <<Read("automationAllowed"), Lock("insertJob", {"conversation", "customer"}, "SHARE")>>
BookingPlan(opp) == <<Lock("bookable", {opp}, "WHOLE"), Read("slotFree"), Lock("insertSlot", {"slot"}, "WHOLE")>>
\* Plausible error: the payment is read without FOR UPDATE.
UnlockedRefundPlan == <<Read("original"), Read("refundable"), Read("insertRefund")>>

RefundPlan == <<Lock("original", {"payment"}, "WHOLE"), Read("refundable"), Read("insertRefund")>>
LedgerPlan(stage) == <<Read("stageFree"), Lock("insertStage", {stage}, "WHOLE"),
                       Lock("reference", {"conversation", "opp1", "payment"}, "SHARE"),
                       Lock("attribute", {"opp1"}, "UPDATE")>>

Plan(op) ==
  CASE op = "evaluate" -> EvaluatePlan
    [] op = "approve"  -> ApprovePlan
    [] op = "optOut"   -> OptOutPlan
    [] op = "respond"  -> RespondPlan
    [] op = "takeover" -> TakeoverPlan
    [] op = "resume"   -> ResumePlan
    [] op = "followUp" -> FollowUpPlan
    [] op = "book1"    -> BookingPlan("opp1")
    [] op = "book2"    -> BookingPlan("opp2")
    [] op = "refund"   -> RefundPlan
    [] OTHER           -> LedgerPlan(op)

Live == {"WAITING_APPROVAL", "READY", "PENDING", "EXECUTING", "WAITING_CUSTOMER", "HUMAN_REQUIRED"}

\* A row as transaction r has it: what it wrote, else what its statement's snapshot has (Then)
\* or what is committed by now (Now), which is what it sees of a row it has locked.
Then(r, row) == IF row \in DOMAIN txn[r].wrote THEN txn[r].wrote[row]
                ELSE IF txn[r].view = NoRows THEN db[row] ELSE txn[r].view[row]
Now(r, row) == IF row \in DOMAIN txn[r].wrote THEN txn[r].wrote[row] ELSE db[row]

Statement(r) == Plan(txn[r].op)[txn[r].at]

\* The statuses that a statement retires.
Retired(does) == CASE does = "retireAutomated" -> Live \ {"HUMAN_REQUIRED"}
                   [] does = "retireHandoff" -> {"HUMAN_REQUIRED"}
                   [] OTHER -> Live

\* The WHERE clause of an UPDATE of the opportunity.
Matches(does, opp) ==
  /\ opp.status \notin {"WON", "DO_NOT_CONTACT"}
  /\ does = "atRisk" => opp.recovery = "HUMAN_REQUIRED"

\* The rows that r's statement locks: those it finds in the snapshot it started from.
Found(r) ==
  LET st == Statement(r)
  IN  CASE st.does = "cancelJobs" -> {row \in JobRows : Then(r, row) = "scheduled"}
        [] st.does \in {"retireStopped", "retireAutomated", "retireHandoff", "evaluate"}
             -> {row \in ActionRows : Then(r, row) \in Retired(st.does)}
        [] st.does = "approvable" -> {Action(First)}
        [] st.does \in {"approve", "stop", "requireHuman", "atRisk"}
             -> {row \in st.rows : Matches(st.does, Then(r, row))}
        [] OTHER -> st.rows

\* Plausible error: the claim looks for the key and inserts it without a unique index.
UnclaimedWanted(r) == IF txn[r].pc = "run" THEN Found(r) ELSE {}

Wanted(r) == CASE txn[r].pc = "claim" -> {Key(txn[r].op, txn[r].key)}
               [] txn[r].pc = "run" -> Found(r)
               [] OTHER -> {}
WantedMode(r) == IF txn[r].pc = "claim" THEN "WHOLE" ELSE Statement(r).mode

Conflicting(m, n) == {m, n} \notin {{"SHARE"}, {"SHARE", "UPDATE"}}

\* The transactions that r waits for.
WaitsFor(r) ==
  LET wanted == Wanted(r)
  IN  {l.by : l \in {l \in locks : l.by # r /\ l.row \in wanted
                                  /\ Conflicting(l.mode, WantedMode(r))}}

-----------------------------------------------------------------------------
(* What a statement does.                                                  *)

\* Of the two ledger events: GREATEST(0, collected - refunded).
NetCollected(collected, refunded) ==
  LET net == (IF collected = Absent THEN 0 ELSE PaymentAmount)
             - (IF refunded = Absent THEN 0 ELSE 1)
  IN  IF net > 0 THEN net ELSE 0

Refunded(rows) == Cardinality({p \in RowIds : rows[Refund(p)] # Absent})

\* The observation of an opportunity, at a time and with a score that make it eligible.
Observation(context, opportunity) ==
  [optedOut |-> context.customer = "BLOCKED", operational |-> context.customer # "BLOCKED",
   status |-> opportunity.status, recovery |-> opportunity.recovery,
   handoff |-> context.mode = "HUMAN_ACTIVE", rejected |-> FALSE, inWindow |-> TRUE,
   missedCall |-> FALSE, estimate |-> FALSE, serviceIntent |-> TRUE, replied |-> TRUE,
   recentReply |-> TRUE, businessWindow |-> TRUE, manyAttempts |-> FALSE,
   autonomy |-> "APPROVE_TO_SEND", highValue |-> FALSE]

Bookable == {"NEW", "CONTACTING", "ENGAGED", "QUALIFIED"}

\* The opportunity that an operation is about.
Mine(op) == The(IF op = "book2" THEN "opp2" ELSE "opp1")

\* ApiErrors of the statement's operation.
Refuses(r, late) ==
  LET does == Statement(r).does
  IN  \/ does = "approvable" /\ \/ Now(r, Action(First)) \notin {"READY", "WAITING_APPROVAL"}
                                \/ Now(r, Action(First)) = "WAITING_APPROVAL" /\ late
      \/ does = "contactable" /\ Now(r, Mine(txn[r].op)).status = "DO_NOT_CONTACT"
      \/ does = "resume" /\ Now(r, The("conversation")) # "HUMAN_ACTIVE"
      \/ does = "automationAllowed" /\ \/ Then(r, The("customer")) = "BLOCKED"
                                       \/ Then(r, The("conversation")) # "AI_ACTIVE"
      \/ does = "bookable" /\ Now(r, Mine(txn[r].op)).status \notin Bookable
      \/ does = "slotFree" /\ Then(r, The("slot")) # Absent
      \/ does = "refundable" /\ Refunded(db) + 1 > Now(r, The("payment"))
      \/ does = "stageFree" /\ Then(r, The(txn[r].op)) # Absent

\* Plausible error: no exclusion constraint on bookings.
StageViolates(r) ==
  Statement(r).does = "insertStage" /\ Now(r, The(txn[r].op)) # Absent

\* A constraint of the schema refuses the statement.
Violates(r) ==
  \/ Statement(r).does = "insertSlot" /\ Now(r, The("slot")) # Absent
  \/ Statement(r).does = "insertStage" /\ Now(r, The(txn[r].op)) # Absent

\* The operation returns without its remaining statements.
Returns(r, late) ==
  \/ Statement(r).does = "approvable" /\ Now(r, Action(First)) = "READY"
  \/ Statement(r).does = "evaluate" /\ ~late /\ \E row \in Found(r) : Now(r, row) \in Live

Put(rows, value) == [row \in rows |-> value]

MovedBy(does, opp) ==
  CASE does = "approve" -> [opp EXCEPT !.recovery = "RECOVERY_ACTIVE"]
    [] does = "stop" -> [opp EXCEPT !.status = "DO_NOT_CONTACT", !.recovery = "STOPPED"]
    [] does = "requireHuman" -> [opp EXCEPT !.recovery = "HUMAN_REQUIRED"]
    [] does = "atRisk" -> [opp EXCEPT !.recovery = "AT_RISK"]
    [] does = "message" -> [opp EXCEPT !.status = IF @ \in {"NEW", "CONTACTING"} THEN "ENGAGED" ELSE @,
                                       !.recovery = IF @ = "HUMAN_REQUIRED" THEN @ ELSE "NOT_AT_RISK"]
    [] OTHER -> [opp EXCEPT !.status = "BOOKED",
                            !.recovery = IF @ \in {"AT_RISK", "RECOVERY_ACTIVE", "WAITING_FOR_CUSTOMER"}
                                         THEN "RECOVERED" ELSE "NOT_AT_RISK"]

\* The rows that the statement writes.
Writes(r) ==
  LET does == Statement(r).does
      found == Found(r)
      mine == Mine(txn[r].op)
      opp == Now(r, mine)
      observed == Observation(txn[r].context, opp)
  IN  CASE does = "evaluate" ->
             Over(Put({Action(r)}, RecoveryActionStatus(observed)),
               Over(Put({mine}, [opp EXCEPT !.recovery = RecoveryStateAfterDecision(observed)]),
                 Put({row \in found : Now(r, row) \in Live}, "CANCELLED")))
        [] does = "approvable" -> Put({Action(First)}, "READY")
        [] does \in {"approve", "stop", "requireHuman", "atRisk"} ->
             [row \in {row \in found : Matches(does, Now(r, row))} |-> MovedBy(does, Now(r, row))]
        [] does = "message" -> Put({mine}, MovedBy(does, opp))
        [] does = "blockContact" -> Put(found, "BLOCKED")
        [] does = "takeOver" -> Put(found, "HUMAN_ACTIVE")
        [] does = "resume" -> Put(found, "AI_ACTIVE")
        [] does = "cancelJobs" -> Put({row \in found : Now(r, row) = "scheduled"}, "cancelled")
        [] does \in {"retireAutomated", "retireHandoff"} ->
             Put({row \in found : Now(r, row) \in Retired(does)}, "CANCELLED")
        [] does = "retireStopped" ->
             Put({row \in found : mine \in DOMAIN txn[r].wrote /\ Now(r, row) \in Live}, "CANCELLED")
        [] does = "insertJob" -> Put({Job(r)}, "scheduled")
        [] does = "insertSlot" -> Over(Put({mine}, MovedBy(does, opp)), Put(found, r))
        [] does = "insertRefund" -> Put({Refund(r)}, "COLLECTED")
        [] does = "insertStage" -> Put(found, "RECORDED")
        [] does = "attribute" -> Put(found, [opp EXCEPT !.attributed = NetCollected(Then(r, The("collected")), Then(r, The("refunded")))])
        [] OTHER -> NoRows

-----------------------------------------------------------------------------
(* The transactions.                                                       *)

NoContext == [customer |-> Absent, mode |-> Absent]

InitTransactions ==
  /\ offered \in OfferedSets
  /\ db = [row \in Rows |-> InitialRow(row)]
  /\ txn = [r \in Requests |->
             [op |-> "none", key |-> Absent, pc |-> "new", at |-> 1, view |-> NoRows,
              context |-> NoContext, wrote |-> NoRows, answer |-> "none"]]
  /\ locks = {}

InProgress(r) == txn[r].pc \in {"claim", "run", "finish"}

\* A client sends a request (again): BEGIN.
Arrive(r) ==
  /\ txn[r].pc = "new"
  /\ \E o \in offered : txn' = [txn EXCEPT ![r].op = o[1], ![r].key = o[2], ![r].pc = "claim"]
  /\ UNCHANGED <<offered, db, locks>>

\* Plausible error: the connection goes back to the pool with its transaction open.
LeakyEnded(r, pc, answer) ==
  /\ txn' = [txn EXCEPT ![r].pc = pc, ![r].answer = answer, ![r].view = NoRows,
                        ![r].context = NoContext, ![r].wrote = NoRows]
  /\ UNCHANGED <<offered, locks>>

\* COMMIT or ROLLBACK: the transaction's locks are gone, and nothing of it can be undone.
Ended(r, pc, answer) ==
  /\ txn' = [txn EXCEPT ![r].pc = pc, ![r].answer = answer, ![r].view = NoRows,
                        ![r].context = NoContext, ![r].wrote = NoRows]
  /\ locks' = {l \in locks : l.by # r}
  /\ UNCHANGED offered

RolledBack(r, answer) == Ended(r, "rolledBack", answer) /\ UNCHANGED db

\* Plausible error: the driver's error reaches the client.
RawFailureAnswer(aborted) == IF aborted THEN "23P01" ELSE "REFUSED"

\* The answer to an operation that threw. The catch block of IdempotencyService deletes the claim
\* first: in a transaction that a constraint has aborted, the DELETE throws and hides the error.
FailureAnswer(aborted) == IF aborted THEN "INTERNAL_ERROR" ELSE "REFUSED"

\* The answer to a key that a committed request has claimed: to the same facts, its result.
KeyAnswer(op, claim) == CASE claim = "started" -> "IN_PROGRESS"
                          [] claim = op -> "REPLAY"
                          [] OTHER -> "CONFLICT"

\* beginIdempotency: INSERT ON CONFLICT DO NOTHING waits for an uncommitted claim of the key.
Claim(r) ==
  LET row == Key(txn[r].op, txn[r].key) IN
  /\ txn[r].pc = "claim"
  /\ WaitsFor(r) = {}
  /\ \/ /\ db[row] = Absent
        /\ txn' = [txn EXCEPT ![r].pc = "run", ![r].wrote = Put({row}, "started")]
        /\ locks' = locks \cup {[by |-> r, row |-> row, mode |-> "WHOLE"]}
        /\ UNCHANGED <<offered, db>>
     \/ /\ db[row] # Absent
        /\ RolledBack(r, KeyAnswer(txn[r].op, db[row]))

\* A statement that meets a lock waits, with the snapshot it has taken.
Wait(r) ==
  /\ txn[r].pc = "run"
  /\ txn[r].view = NoRows
  /\ WaitsFor(r) # {}
  /\ txn' = [txn EXCEPT ![r].view = db]
  /\ UNCHANGED <<offered, db, locks>>

Execute(r, done) ==
  LET st == Statement(r)
      last == done \/ txn[r].at = Len(Plan(txn[r].op))
  IN  /\ txn' = [txn EXCEPT
           ![r].pc = IF last THEN "finish" ELSE "run",
           ![r].at = IF last THEN @ ELSE @ + 1,
           ![r].view = NoRows,
           ![r].context = IF st.does # "context" THEN @
                          ELSE [customer |-> Then(r, The("customer")), mode |-> Then(r, The("conversation"))],
           ![r].wrote = IF done THEN @ ELSE Over(Writes(r), @)]
      /\ locks' = locks \cup [by : {r}, row : Wanted(r), mode : {st.mode}]
      /\ UNCHANGED <<offered, db>>

Run(r) ==
  /\ txn[r].pc = "run"
  /\ WaitsFor(r) = {}
  /\ \E late \in BOOLEAN :
       \/ Refuses(r, late) /\ RolledBack(r, FailureAnswer(FALSE))
       \/ Violates(r) /\ RolledBack(r, FailureAnswer(TRUE))
       \/ ~Refuses(r, late) /\ ~Violates(r) /\ Execute(r, Returns(r, late))

\* completeIdempotency and COMMIT. Whether the client gets the answer changes nothing here: it may
\* send the same key again in any case.
Commit(r) ==
  LET row == Key(txn[r].op, txn[r].key) IN
  /\ txn[r].pc = "finish"
  /\ db' = Over(Put({row}, txn[r].op), Over(txn[r].wrote, db))
  /\ Ended(r, "committed", "OK")

\* A set of transactions that wait for each other, and only them.
Cycle(D) ==
  LET Stuck(S) == S # {} /\ \A r \in S : WaitsFor(r) \cap S # {}
  IN  Stuck(D) /\ \A r \in D : ~Stuck(D \ {r})

\* PostgreSQL ends a deadlock by failing a statement of one transaction in it.
Victim(r) ==
  /\ \E D \in SUBSET {s \in Requests : InProgress(s)} : r \in D /\ Cycle(D)
  /\ RolledBack(r, FailureAnswer(TRUE))

\* The server process or the connection dies.
Lose(r) == InProgress(r) /\ RolledBack(r, "LOST")

NextTransactions ==
  \E r \in Requests : Arrive(r) \/ Claim(r) \/ Wait(r) \/ Run(r) \/ Commit(r) \/ Victim(r) \/ Lose(r)

\* As long as some transaction can take a step or is to be failed, one of them does; clients and
\* crashes promise nothing.
TransactionFairness ==
  WF_txnVars(\E r \in Requests : Claim(r) \/ Run(r) \/ Commit(r) \/ Victim(r))

TransactionSpec == InitTransactions /\ [][NextTransactions]_txnVars /\ TransactionFairness

-----------------------------------------------------------------------------
(* Properties.                                                             *)

ActionsThatAre(statuses) == {row \in ActionRows : db[row] \in statuses}

Committed(r) == txn[r].pc = "committed"

TransactionTypeOK ==
  /\ offered \in OfferedSets
  /\ DOMAIN db = Rows
  /\ DOMAIN txn = Requests
  /\ \A r \in Requests :
       /\ txn[r].pc \in {"new", "claim", "run", "finish", "committed", "rolledBack"}
       /\ txn[r].answer \in {"none", "OK", "LOST", "REFUSED", "INTERNAL_ERROR",
                             "IN_PROGRESS", "REPLAY", "CONFLICT"}
       /\ DOMAIN txn[r].wrote \subseteq Rows
       /\ txn[r].pc # "new" => txn[r].op \in Operations /\ txn[r].key \in Keys
  /\ locks \subseteq [by : Requests, row : Rows, mode : {"WHOLE", "UPDATE", "SHARE"}]

\* An idempotency key is claimed by at most one committed operation, whatever was retried, lost,
\* failed or sent twice at once; the claim outlives exactly the commits, so that a failed
\* operation may be retried; a replay is the answer to the facts of the committed operation.
\* (idempotency.ts execute, beginIdempotency)
OneEffectPerKey ==
  /\ \A r, s \in Requests :
       Committed(r) /\ Committed(s) /\ Key(txn[r].op, txn[r].key) = Key(txn[s].op, txn[s].key) => r = s
  /\ \A op \in Operations, k \in Keys :
       db[Key(op, k)] # Absent =>
         \E r \in Requests : Committed(r) /\ Key(txn[r].op, txn[r].key) = Key(op, k)
                             /\ db[Key(op, k)] = txn[r].op
  /\ \A r \in Requests : txn[r].answer = "REPLAY" =>
       \E s \in Requests : Committed(s) /\ txn[s].op = txn[r].op /\ txn[s].key = txn[r].key

\* Two bookings that overlap are never both committed, and the slot is the committed one's.
\* (createBooking, the exclusion constraint of migration 0001)
SlotIsBookedOnce ==
  \A r \in Requests :
    Committed(r) /\ txn[r].op \in {"book1", "book2"} <=> db[The("slot")] = r

\* All refunds of a payment together never exceed it, however they are interleaved.
\* (createPayment locks the payment before it sums its refunds)
RefundsWithinPayment == Refunded(db) <= PaymentAmount

\* Concurrent evaluations, approvals, replies and takeovers leave at most one live action.
LiveActionIsUnique == Cardinality(ActionsThatAre(Live)) <= 1

\* Once an opt-out has committed nothing that raced with it is left to contact the customer.
\* (recordCustomerOptOut against evaluateOpportunityRecovery and approveRecoveryAction)
OptOutOutrunsRecovery ==
  db[The("customer")] = "BLOCKED" => ActionsThatAre(Live) = {}

\* While a human has the conversation no automated action is live, whatever an evaluation saw
\* before it waited for the takeover.
TakeoverOutrunsRecovery ==
  db[The("conversation")] = "HUMAN_ACTIVE" => ActionsThatAre(Live \ {"HUMAN_REQUIRED"}) = {}

\* Transactions take their locks in different orders and may wait for each other: every request
\* that is sent ends all the same, because a deadlock costs one of them and a rollback frees all.
EveryRequestEnds == <>[](\A r \in Requests : ~InProgress(r))

\* With no request in progress the revenue attributed to the opportunity is what its ledger says:
\* collected less refunded.
AttributedIsNet ==
  (\A r \in Requests : ~InProgress(r)) => db[The("opp1")].attributed = NetCollected(db[The("collected")], db[The("refunded")])
=============================================================================
