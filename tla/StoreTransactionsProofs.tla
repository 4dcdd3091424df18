----------------------- MODULE StoreTransactionsProofs -----------------------
(***************************************************************************)
(* Proofs about StoreTransactions, for any number of requests, keys and    *)
(* units, and any operations of them: one inductive invariant, TInv, and   *)
(* the seven invariants of the module that follow from it.                 *)
(*                                                                         *)
(* TInv says of the committed rows what must hold between transactions,    *)
(* and of every transaction in progress what makes its commit keep that:   *)
(* the rows it wrote are locked or its own, what it wrote is lawful over   *)
(* what is committed, and the statements behind it have established what   *)
(* the plan needs (Place). Rows that somebody holds change only by their   *)
(* holder, so another commit cannot take any of this away.                 *)
(***************************************************************************)
EXTENDS StoreTransactions, FiniteSetTheorems, TLAPS

-----------------------------------------------------------------------------
(* The inductive invariant.                                                *)

RefundRows == {Refund(p) : p \in RowIds}
KeyRows == {Key(op, k) : op \in Operations, k \in Keys}
Automated == Live \ {"HUMAN_REQUIRED"}

OppStatuses == {"CONTACTING", "ENGAGED", "BOOKED", "DO_NOT_CONTACT"}
OppType == [status : OppStatuses, recovery : RecoveryStates, attributed : Nat]

\* The values a row may have.
Fits(row, v) ==
  /\ row = The("conversation") => v \in {"AI_ACTIVE", "HUMAN_ACTIVE"}
  /\ row = The("customer") => v \in {"CONTACTABLE", "BLOCKED"}
  /\ row \in {The("opp1"), The("opp2")} => v \in OppType
  /\ row = The("payment") => v = PaymentAmount
  /\ row \in ActionRows => v \in ActionStatuses \cup {Absent}

\* The rows r has locked against other writers, and the rows that only r inserts.
HeldBy(r) == {row \in Rows : \E l \in locks : l.by = r /\ l.row = row /\ l.mode # "SHARE"}

Own(r) == {Job(r), Action(r), Refund(r)}

\* The row as transaction t has it over the committed rows d.
Has(t, d, row) == IF row \in DOMAIN t.wrote THEN t.wrote[row] ELSE d[row]

\* Transaction t has the statements before place i behind it.
AtOrPast(t, i) == t.pc = "finish" \/ (t.pc = "run" /\ t.at >= i)
\* No evaluation automates this opportunity.
Retaken(opp) == opp.recovery = "HUMAN_REQUIRED" \/ opp.status \in {"BOOKED", "DO_NOT_CONTACT"}

\* The record of a transaction that holds h, by its place.
Shape(t, h) ==
  /\ t = [op |-> t.op, key |-> t.key, pc |-> t.pc, at |-> t.at, view |-> t.view,
          context |-> t.context, wrote |-> t.wrote, answer |-> t.answer]
  /\ t.pc \in {"new", "claim", "run", "finish", "committed", "rolledBack"}
  /\ t.answer \in {"none", "OK", "LOST", "REFUSED", "INTERNAL_ERROR",
                             "IN_PROGRESS", "REPLAY", "CONFLICT"}
  /\ t.pc \notin {"committed", "rolledBack"} => t.answer = "none"
  /\ t.pc # "new" => t.op \in Operations /\ t.key \in Keys
  /\ t.pc \in {"new", "claim"} => t.at = 1
  /\ t.pc = "run" => t.at \in 1 .. Len(Plan(t.op))
  /\ t.pc \notin {"run", "finish"} => (t.wrote = NoRows /\ h = {})
  /\ t.pc # "run" => t.view = NoRows
  /\ t.pc = "run" /\ t.at = 1 => DOMAIN t.wrote = {Key(t.op, t.key)}
  /\ t.context = [customer |-> t.context.customer, mode |-> t.context.mode]

\* Every row that is written is locked, or is r's own; the key is held and not committed.
Holding(r, t, d, h) ==
  /\ DOMAIN t.wrote \subseteq Rows
  /\ \A row \in DOMAIN t.wrote : row \in h \cup Own(r)
  /\ t.pc \in {"run", "finish"} => /\ Key(t.op, t.key) \in h
                                   /\ d[Key(t.op, t.key)] = Absent
  /\ t.op \in {"evaluate", "respond", "book1"} /\ AtOrPast(t, 2) => The("opp1") \in h
  /\ t.op = "book2" /\ AtOrPast(t, 2) => The("opp2") \in h
  /\ t.op = "refund" /\ AtOrPast(t, 2) => The("payment") \in h

\* What the writes w of an operation may be.
WroteTable(r, op, key, w, d) ==
  /\ \A row \in DOMAIN w : Fits(row, w[row])
  /\ The("payment") \notin DOMAIN w
  /\ The("customer") \in DOMAIN w => op = "optOut" /\ w[The("customer")] = "BLOCKED"
  /\ The("conversation") \in DOMAIN w =>
       \/ op = "takeover" /\ w[The("conversation")] = "HUMAN_ACTIVE"
       \/ op = "resume" /\ w[The("conversation")] = "AI_ACTIVE"
  /\ The("slot") \in DOMAIN w =>
       op \in {"book1", "book2"} /\ w[The("slot")] = r /\ d[The("slot")] = Absent
  /\ \A row \in KeyRows \cap DOMAIN w : row = Key(op, key)
  /\ \A row \in RefundRows \cap DOMAIN w : op = "refund" /\ row = Refund(r)

\* Only an opt-out stops the opportunity, nothing restarts it, and a takeover retakes it.
WroteOpportunity(t, d) ==
  The("opp1") \in DOMAIN t.wrote =>
    LET opp == t.wrote[The("opp1")]
    IN  /\ d[The("opp1")].status = "DO_NOT_CONTACT" => opp.status = "DO_NOT_CONTACT"
        /\ opp.status = "DO_NOT_CONTACT" =>
             d[The("opp1")].status = "DO_NOT_CONTACT" \/ t.op = "optOut"
        /\ Has(t, d, The("conversation")) = "HUMAN_ACTIVE" => Retaken(opp)

\* An action that exists is cancelled, or approved as long as it is committed live.
WroteActions(r, op, w, d) ==
  \A row \in ActionRows \cap DOMAIN w :
    \/ row = Action(r)
    \/ /\ d[row] # Absent
       /\ \/ w[row] = "CANCELLED"
          \/ op = "approve" /\ w[row] = "READY" /\ d[row] \in Automated

\* An evaluation that creates a live action cancels every other and is neither stopped nor retaken.
Created(r, t, d) ==
  LET w == t.wrote
  IN  Action(r) \in DOMAIN w =>
        /\ t.op = "evaluate" /\ t.pc = "finish"
        /\ w[Action(r)] \in Live =>
             /\ d[The("opp1")].status # "DO_NOT_CONTACT"
             /\ \A row \in ActionRows : d[row] \in Live => row \in DOMAIN w /\ w[row] = "CANCELLED"
             /\ w[Action(r)] \in Automated => d[The("conversation")] # "HUMAN_ACTIVE"

\* What the statements behind a transaction have established.
Place(t, d) ==
  /\ t.op = "evaluate" /\ AtOrPast(t, 2) /\ t.context.customer = "BLOCKED" =>
       d[The("opp1")].status = "DO_NOT_CONTACT"
  /\ t.op \in {"respond", "book1"} /\ AtOrPast(t, 2) => d[The("opp1")].status # "DO_NOT_CONTACT"
  /\ t.op = "approve" /\ t.pc = "run" /\ t.at = 2 => Action(First) \in DOMAIN t.wrote /\ t.wrote[Action(First)] = "READY"
  /\ t.op = "optOut" /\ AtOrPast(t, 3) => Has(t, d, The("opp1")).status = "DO_NOT_CONTACT"
  /\ t.op = "optOut" /\ AtOrPast(t, 4) => \A row \in ActionRows : Has(t, d, row) \notin Live
  /\ t.op = "takeover" /\ AtOrPast(t, 4) =>
       The("opp1") \in DOMAIN t.wrote \/ d[The("opp1")].status = "DO_NOT_CONTACT"
  /\ t.op \in {"takeover", "resume"} /\ AtOrPast(t, 2) => The("conversation") \in DOMAIN t.wrote
  /\ t.op = "takeover" /\ t.pc = "finish" =>
       \A row \in ActionRows : Has(t, d, row) \notin Automated
  /\ t.op = "refund" /\ AtOrPast(t, 3) => Refunded(d) + 1 <= PaymentAmount
  /\ t.op \in {"book1", "book2"} /\ t.pc = "finish" => The("slot") \in DOMAIN t.wrote

\* The snapshot of a waiting statement, against what is committed since.
Saw(t, d, h) ==
  t.view # NoRows =>
    /\ DOMAIN t.view = Rows
    /\ \A row \in Rows : Fits(row, t.view[row])
    /\ t.view[The("opp1")].status = "DO_NOT_CONTACT" => d[The("opp1")].status = "DO_NOT_CONTACT"
    /\ t.view[The("customer")] = "BLOCKED" => d[The("customer")] = "BLOCKED"
    /\ \A row \in ActionRows : t.view[row] # Absent => d[row] # Absent
    /\ The("opp1") \in h =>
         \A row \in ActionRows :
           /\ d[row] \in Live => t.view[row] \in Live
           /\ d[row] \in Automated => t.view[row] \in Automated

\* Transaction t of request r, over the committed rows d, with the locks h.
Sound(r, t, d, h) ==
  /\ Shape(t, h)
  /\ Holding(r, t, d, h)
  /\ WroteTable(r, t.op, t.key, t.wrote, d)
  /\ WroteOpportunity(t, d)
  /\ WroteActions(r, t.op, t.wrote, d)
  /\ Created(r, t, d)
  /\ Place(t, d)
  /\ Saw(t, d, h)

\* What holds of the rows between transactions.
CommittedRows(d) ==
  /\ \A row \in Rows : Fits(row, d[row])
  /\ d[The("customer")] = "BLOCKED" => d[The("opp1")].status = "DO_NOT_CONTACT"
  /\ d[The("opp1")].status = "DO_NOT_CONTACT" => \A row \in ActionRows : d[row] \notin Live
  /\ d[The("conversation")] = "HUMAN_ACTIVE" => Retaken(d[The("opp1")])
  /\ d[The("conversation")] = "HUMAN_ACTIVE" => \A row \in ActionRows : d[row] \notin Automated
  /\ \A row, other \in ActionRows : d[row] \in Live /\ d[other] \in Live => row = other
  /\ Refunded(d) <= PaymentAmount

\* Committed requests and the rows that tell of them.
Effects ==
  /\ SlotIsBookedOnce
  /\ \A r \in Requests : Committed(r) => db[Key(txn[r].op, txn[r].key)] = txn[r].op
  /\ OneEffectPerKey
  /\ \A r \in Requests : db[Action(r)] # Absent => Committed(r)

\* Nobody holds a lock that conflicts with another's.
LocksExclude ==
  /\ locks \subseteq [by : Requests, row : Rows, mode : {"WHOLE", "UPDATE", "SHARE"}]
  /\ \A l \in locks : txn[l.by].pc \in {"run", "finish"}
  /\ \A l, m \in locks : l.by # m.by /\ l.row = m.row => ~Conflicting(l.mode, m.mode)

TInv ==
  /\ offered \in OfferedSets
  /\ db = [row \in Rows |-> db[row]]
  /\ txn = [r \in Requests |-> txn[r]]
  /\ LocksExclude
  /\ CommittedRows(db)
  /\ Effects
  /\ \A r \in Requests : Sound(r, txn[r], db, HeldBy(r))
-----------------------------------------------------------------------------

\* Tables, jobs, actions, refunds and keys are different rows, and all of them rows.
LEMMA RowsApart ==
  /\ \A n \in {"conversation", "customer", "opp1", "opp2", "payment", "slot", "collected", "refunded"} :
       /\ The(n) \in Rows
       /\ The(n) \notin JobRows \cup ActionRows \cup RefundRows \cup KeyRows
       /\ \A a : The(n) # Job(a) /\ The(n) # Action(a) /\ The(n) # Refund(a)
       /\ \A m : The(n) = The(m) => n = m
  /\ ActionRows \cap (JobRows \cup RefundRows \cup KeyRows) = {}
  /\ JobRows \cap (RefundRows \cup KeyRows) = {}
  /\ RefundRows \cap KeyRows = {}
  /\ JobRows \cup ActionRows \cup RefundRows \cup KeyRows \subseteq Rows
  /\ \A a, b : (Action(a) = Action(b) => a = b) /\ (Refund(a) = Refund(b) => a = b)
               /\ Action(a) # Job(b) /\ Action(a) # Refund(b) /\ Job(a) # Refund(b)
<1> DEFINE Names == {"conversation", "customer", "opp1", "opp2", "payment", "slot", "collected", "refunded"}
<1>1. \A n \in Names : The(n) \in Rows
  BY DEF Rows, Tables
<1>2. \A op \in Operations : Scope(op) \notin Names \cup {"job", "action", "repaid"}
  BY DEF Operations, Scope
<1>3. \A n \in Names : The(n) \notin JobRows \cup ActionRows \cup RefundRows \cup KeyRows
  BY <1>2 DEF The, JobRows, ActionRows, RefundRows, KeyRows, Job, Action, Refund, Key
<1>4. \A n \in Names : /\ \A a : The(n) # Job(a) /\ The(n) # Action(a) /\ The(n) # Refund(a)
                       /\ \A m : The(n) = The(m) => n = m
  BY DEF The, Job, Action, Refund
<1>5. ActionRows \cap (JobRows \cup RefundRows \cup KeyRows) = {}
  BY <1>2 DEF JobRows, ActionRows, RefundRows, KeyRows, Job, Action, Refund, Key
<1>6. JobRows \cap (RefundRows \cup KeyRows) = {}
  BY <1>2 DEF JobRows, ActionRows, RefundRows, KeyRows, Job, Action, Refund, Key
<1>7. RefundRows \cap KeyRows = {}
  BY <1>2 DEF JobRows, ActionRows, RefundRows, KeyRows, Job, Action, Refund, Key
<1>8. JobRows \cup ActionRows \cup RefundRows \cup KeyRows \subseteq Rows
  BY DEF Rows, RefundRows, KeyRows
<1>9. \A a, b : /\ Action(a) = Action(b) => a = b
                /\ Refund(a) = Refund(b) => a = b
                /\ Action(a) # Job(b) /\ Action(a) # Refund(b) /\ Job(a) # Refund(b)
  BY DEF Action, Job, Refund
<1>10. QED
  BY <1>1, <1>3, <1>4, <1>5, <1>6, <1>7, <1>8, <1>9

\* A transaction sees what it wrote, and under it what is there.
LEMMA OverRows ==
  ASSUME NEW f, NEW g
  PROVE  /\ DOMAIN Over(f, g) = DOMAIN f \cup DOMAIN g
         /\ \A x \in DOMAIN f : Over(f, g)[x] = f[x]
         /\ \A x \in DOMAIN g : x \notin DOMAIN f => Over(f, g)[x] = g[x]
  BY DEF Over

\* A row that was written is read as it was written.
LEMMA OverLeft ==
  ASSUME NEW f, NEW g, NEW x \in DOMAIN f
  PROVE  x \in DOMAIN Over(f, g) /\ Over(f, g)[x] = f[x]
  BY DEF Over

\* A row that was not written is read as it is there.
LEMMA OverRight ==
  ASSUME NEW f, NEW g, NEW x \in DOMAIN g, x \notin DOMAIN f
  PROVE  x \in DOMAIN Over(f, g) /\ Over(f, g)[x] = g[x]
  BY DEF Over

\* One value for a set of rows.
LEMMA PutRows ==
  ASSUME NEW S, NEW v
  PROVE  DOMAIN Put(S, v) = S /\ \A x \in S : Put(S, v)[x] = v
  BY DEF Put

\* No rows are none.
LEMMA NoRowsEmpty == DOMAIN NoRows = {}
  BY DEF NoRows

\* Statements by operation.
LEMMA Plans ==
  /\ Plan("evaluate") = EvaluatePlan /\ Plan("approve") = ApprovePlan
  /\ Plan("optOut") = OptOutPlan /\ Plan("respond") = RespondPlan
  /\ Plan("takeover") = TakeoverPlan /\ Plan("resume") = ResumePlan
  /\ Plan("followUp") = FollowUpPlan /\ Plan("book1") = BookingPlan("opp1")
  /\ Plan("book2") = BookingPlan("opp2") /\ Plan("refund") = RefundPlan
  /\ Plan("collected") = LedgerPlan("collected") /\ Plan("refunded") = LedgerPlan("refunded")
  BY Zenon DEF Plan

\* How many statements an operation has.
LEMMA PlanLengths ==
  \A op \in Operations :
    Len(Plan(op)) = IF op \in {"evaluate", "approve", "followUp"} THEN 2
                    ELSE IF op \in {"resume", "book1", "book2", "refund"} THEN 3 ELSE 4
  BY Plans DEF Operations, EvaluatePlan, ApprovePlan, OptOutPlan, RespondPlan, TakeoverPlan, ResumePlan, FollowUpPlan, BookingPlan,
     RefundPlan, LedgerPlan

\* The statement at each place of each operation.
LEMMA Statements ==
  ASSUME NEW r, txn[r].op \in Operations, txn[r].at \in 1 .. Len(Plan(txn[r].op))
  PROVE  LET op == txn[r].op
             at == txn[r].at
             st == Statement(r)
         IN  \/ op = "evaluate" /\ at = 1 /\ st = Lock("context", {"opp1"}, "WHOLE")
             \/ op = "evaluate" /\ at = 2 /\ st = Lock("evaluate", {}, "WHOLE")
             \/ op = "approve" /\ at = 1 /\ st = Lock("approvable", {}, "WHOLE")
             \/ op = "approve" /\ at = 2 /\ st = Lock("approve", {"opp1"}, "UPDATE")
             \/ op = "optOut" /\ at = 1 /\ st = Lock("blockContact", {"customer"}, "UPDATE")
             \/ op = "optOut" /\ at = 2 /\ st = Lock("stop", {"opp1"}, "UPDATE")
             \/ op = "optOut" /\ at = 3 /\ st = Update("retireStopped")
             \/ op = "optOut" /\ at = 4 /\ st = Update("cancelJobs")
             \/ op = "respond" /\ at = 1 /\ st = Lock("contactable", {"opp1"}, "WHOLE")
             \/ op = "respond" /\ at = 2 /\ st = Lock("message", {"conversation"}, "UPDATE")
             \/ op = "respond" /\ at = 3 /\ st = Update("cancelJobs")
             \/ op = "respond" /\ at = 4 /\ st = Update("retireAutomated")
             \/ op = "takeover" /\ at = 1 /\ st = Lock("takeOver", {"conversation"}, "WHOLE")
             \/ op = "takeover" /\ at = 2 /\ st = Update("cancelJobs")
             \/ op = "takeover" /\ at = 3 /\ st = Lock("requireHuman", {"opp1"}, "UPDATE")
             \/ op = "takeover" /\ at = 4 /\ st = Update("retireAutomated")
             \/ op = "resume" /\ at = 1 /\ st = Lock("resume", {"conversation"}, "WHOLE")
             \/ op = "resume" /\ at = 2 /\ st = Lock("atRisk", {"opp1"}, "UPDATE")
             \/ op = "resume" /\ at = 3 /\ st = Update("retireHandoff")
             \/ op = "followUp" /\ at = 1 /\ st = Read("automationAllowed")
             \/ op = "followUp" /\ at = 2 /\ st = Lock("insertJob", {"conversation", "customer"}, "SHARE")
             \/ op = "book1" /\ at = 1 /\ st = Lock("bookable", {"opp1"}, "WHOLE")
             \/ op = "book2" /\ at = 1 /\ st = Lock("bookable", {"opp2"}, "WHOLE")
             \/ op \in {"book1", "book2"} /\ at = 2 /\ st = Read("slotFree")
             \/ op \in {"book1", "book2"} /\ at = 3 /\ st = Lock("insertSlot", {"slot"}, "WHOLE")
             \/ op = "refund" /\ at = 1 /\ st = Lock("original", {"payment"}, "WHOLE")
             \/ op = "refund" /\ at = 2 /\ st = Read("refundable")
             \/ op = "refund" /\ at = 3 /\ st = Read("insertRefund")
             \/ op \in {"collected", "refunded"} /\ at = 1 /\ st = Read("stageFree")
             \/ op \in {"collected", "refunded"} /\ at = 2 /\ st = Lock("insertStage", {op}, "WHOLE")
             \/ op \in {"collected", "refunded"} /\ at = 3
                /\ st = Lock("reference", {"conversation", "opp1", "payment"}, "SHARE")
             \/ op \in {"collected", "refunded"} /\ at = 4 /\ st = Lock("attribute", {"opp1"}, "UPDATE")
<1> DEFINE op == txn[r].op
           at == txn[r].at
<1>1. at \in 1 .. Len(Plan(op)) /\ Statement(r) = Plan(op)[at]
  BY DEF Statement
<1>2. CASE op = "evaluate"
  BY <1>1, <1>2, Plans, PlanLengths DEF EvaluatePlan
<1>3. CASE op = "approve"
  BY <1>1, <1>3, Plans DEF ApprovePlan
<1>4. CASE op = "optOut"
  BY <1>1, <1>4, Plans DEF OptOutPlan
<1>5. CASE op = "respond"
  BY <1>1, <1>5, Plans DEF RespondPlan
<1>6. CASE op = "takeover"
  BY <1>1, <1>6, Plans DEF TakeoverPlan
<1>7. CASE op = "resume"
  BY <1>1, <1>7, Plans DEF ResumePlan
<1>8. CASE op = "followUp"
  BY <1>1, <1>8, Plans DEF FollowUpPlan
<1>9. CASE op = "book1"
  BY <1>1, <1>9, Plans DEF BookingPlan
<1>10. CASE op = "book2"
  BY <1>1, <1>10, Plans DEF BookingPlan
<1>11. CASE op = "refund"
  BY <1>1, <1>11, Plans DEF RefundPlan
<1>12. CASE op = "collected"
  BY <1>1, <1>12, Plans DEF LedgerPlan
<1>13. CASE op = "refunded"
  BY <1>1, <1>13, Plans DEF LedgerPlan
<1>14. QED
  BY <1>2, <1>3, <1>4, <1>5, <1>6, <1>7, <1>8, <1>9, <1>10, <1>11, <1>12, <1>13 DEF Operations

\* The rows a statement locks, by what it does.
LEMMA FoundIs ==
  ASSUME NEW r
  PROVE  LET does == Statement(r).does IN
    /\ does = "cancelJobs" => Found(r) = {row \in JobRows : Then(r, row) = "scheduled"}
    /\ does \in {"retireStopped", "evaluate"} =>
         Found(r) = {row \in ActionRows : Then(r, row) \in Live}
    /\ does = "retireAutomated" => Found(r) = {row \in ActionRows : Then(r, row) \in Automated}
    /\ does = "retireHandoff" => Found(r) = {row \in ActionRows : Then(r, row) \in {"HUMAN_REQUIRED"}}
    /\ does = "approvable" => Found(r) = {Action(First)}
    /\ does \in {"approve", "stop", "requireHuman", "atRisk"} =>
         Found(r) = {row \in Statement(r).rows : Matches(does, Then(r, row))}
    /\ does \notin {"cancelJobs", "retireStopped", "evaluate", "retireAutomated", "retireHandoff",
                    "approvable", "approve", "stop", "requireHuman", "atRisk"} =>
         Found(r) = Statement(r).rows
<1>1. ASSUME Statement(r).does \in {"retireStopped", "retireAutomated", "retireHandoff", "evaluate"}
      PROVE  Found(r) = {row \in ActionRows : Then(r, row) \in Retired(Statement(r).does)}
  BY <1>1, Zenon DEF Found
<1>2. Retired("retireStopped") = Live /\ Retired("evaluate") = Live
      /\ Retired("retireAutomated") = Automated /\ Retired("retireHandoff") = {"HUMAN_REQUIRED"}
  BY Zenon DEF Retired, Automated
<1>3. ASSUME Statement(r).does = "cancelJobs"
      PROVE  Found(r) = {row \in JobRows : Then(r, row) = "scheduled"}
  BY <1>3, Zenon DEF Found
<1>4. ASSUME Statement(r).does = "approvable"
      PROVE  Found(r) = {Action(First)}
  BY <1>4, Zenon DEF Found
<1>5. ASSUME Statement(r).does \in {"approve", "stop", "requireHuman", "atRisk"}
      PROVE  Found(r) = {row \in Statement(r).rows : Matches(Statement(r).does, Then(r, row))}
  BY <1>5, Zenon DEF Found
<1>6. ASSUME Statement(r).does \notin {"cancelJobs", "retireStopped", "evaluate", "retireAutomated", "retireHandoff",
                    "approvable", "approve", "stop", "requireHuman", "atRisk"}
      PROVE  Found(r) = Statement(r).rows
  BY <1>6, Zenon DEF Found
<1>7. ASSUME Statement(r).does \in {"retireStopped", "evaluate"}
      PROVE  Found(r) = {row \in ActionRows : Then(r, row) \in Live}
  BY <1>1, <1>2, <1>7
<1>8. ASSUME Statement(r).does = "retireAutomated"
      PROVE  Found(r) = {row \in ActionRows : Then(r, row) \in Automated}
  BY <1>1, <1>2, <1>8
<1>9. ASSUME Statement(r).does = "retireHandoff"
      PROVE  Found(r) = {row \in ActionRows : Then(r, row) \in {"HUMAN_REQUIRED"}}
  BY <1>1, <1>2, <1>9
<1>10. QED
  BY <1>3, <1>4, <1>5, <1>6, <1>7, <1>8, <1>9

\* What the opportunity becomes.
LEMMA MovedByIs ==
  ASSUME NEW opp
  PROVE  /\ MovedBy("approve", opp) = [opp EXCEPT !.recovery = "RECOVERY_ACTIVE"]
         /\ MovedBy("stop", opp) = [opp EXCEPT !.status = "DO_NOT_CONTACT", !.recovery = "STOPPED"]
         /\ MovedBy("requireHuman", opp) = [opp EXCEPT !.recovery = "HUMAN_REQUIRED"]
         /\ MovedBy("atRisk", opp) = [opp EXCEPT !.recovery = "AT_RISK"]
         /\ MovedBy("message", opp) =
              [opp EXCEPT !.status = IF @ \in {"NEW", "CONTACTING"} THEN "ENGAGED" ELSE @,
                          !.recovery = IF @ = "HUMAN_REQUIRED" THEN @ ELSE "NOT_AT_RISK"]
         /\ MovedBy("insertSlot", opp) =
              [opp EXCEPT !.status = "BOOKED",
                          !.recovery = IF @ \in {"AT_RISK", "RECOVERY_ACTIVE", "WAITING_FOR_CUSTOMER"}
                                       THEN "RECOVERED" ELSE "NOT_AT_RISK"]
  BY Zenon DEF MovedBy

\* The rows a statement writes, by what it does.
LEMMA WritesIs ==
  ASSUME NEW r
  PROVE  LET does == Statement(r).does
             found == Found(r)
             mine == Mine(txn[r].op)
             opp == Now(r, mine)
             observed == Observation(txn[r].context, opp)
         IN
    /\ does = "evaluate" =>
         Writes(r) = Over(Put({Action(r)}, RecoveryActionStatus(observed)),
                       Over(Put({mine}, [opp EXCEPT !.recovery = RecoveryStateAfterDecision(observed)]),
                         Put({row \in found : Now(r, row) \in Live}, "CANCELLED")))
    /\ does = "approvable" => Writes(r) = Put({Action(First)}, "READY")
    /\ does \in {"approve", "stop", "requireHuman", "atRisk"} =>
         Writes(r) = [row \in {row \in found : Matches(does, Now(r, row))} |-> MovedBy(does, Now(r, row))]
    /\ does = "message" => Writes(r) = Put({mine}, MovedBy(does, opp))
    /\ does = "blockContact" => Writes(r) = Put(found, "BLOCKED")
    /\ does = "takeOver" => Writes(r) = Put(found, "HUMAN_ACTIVE")
    /\ does = "resume" => Writes(r) = Put(found, "AI_ACTIVE")
    /\ does = "cancelJobs" => Writes(r) = Put({row \in found : Now(r, row) = "scheduled"}, "cancelled")
    /\ does = "retireAutomated" => Writes(r) = Put({row \in found : Now(r, row) \in Automated}, "CANCELLED")
    /\ does = "retireHandoff" => Writes(r) = Put({row \in found : Now(r, row) \in {"HUMAN_REQUIRED"}}, "CANCELLED")
    /\ does = "retireStopped" =>
         Writes(r) = Put({row \in found : mine \in DOMAIN txn[r].wrote /\ Now(r, row) \in Live}, "CANCELLED")
    /\ does = "insertJob" => Writes(r) = Put({Job(r)}, "scheduled")
    /\ does = "insertSlot" => Writes(r) = Over(Put({mine}, MovedBy(does, opp)), Put(found, r))
    /\ does = "insertRefund" => Writes(r) = Put({Refund(r)}, "COLLECTED")
    /\ does = "insertStage" => Writes(r) = Put(found, "RECORDED")
    /\ does = "attribute" =>
         Writes(r) = Put(found, [opp EXCEPT !.attributed = NetCollected(Then(r, The("collected")), Then(r, The("refunded")))])
    /\ does \in {"context", "contactable", "automationAllowed", "bookable", "slotFree", "original",
                 "refundable", "stageFree", "reference"} => Writes(r) = NoRows
<1>1. Retired("retireAutomated") = Automated /\ Retired("retireHandoff") = {"HUMAN_REQUIRED"}
  BY Zenon DEF Retired, Automated
<1> DEFINE does == Statement(r).does
<1>2. CASE does = "evaluate"
  BY <1>2, Zenon DEF Writes
<1>3. CASE does = "approvable"
  BY <1>3, Zenon DEF Writes
<1>4. CASE does \in {"approve", "stop", "requireHuman", "atRisk"}
  BY <1>4, Zenon DEF Writes
<1>5. CASE does = "message"
  BY <1>5, Zenon DEF Writes
<1>6. CASE does = "blockContact"
  BY <1>6, Zenon DEF Writes
<1>7. CASE does = "takeOver"
  BY <1>7, Zenon DEF Writes
<1>8. CASE does = "resume"
  BY <1>8, Zenon DEF Writes
<1>9. CASE does = "cancelJobs"
  BY <1>9, Zenon DEF Writes
<1>10. CASE does = "retireAutomated"
  BY <1>1, <1>10, Zenon DEF Writes
<1>11. CASE does = "retireHandoff"
  BY <1>1, <1>11, Zenon DEF Writes
<1>12. CASE does = "retireStopped"
  BY <1>12, Zenon DEF Writes
<1>13. CASE does = "insertJob"
  BY <1>13, Zenon DEF Writes
<1>14. CASE does = "insertSlot"
  BY <1>14, Zenon DEF Writes
<1>15. CASE does = "insertRefund"
  BY <1>15, Zenon DEF Writes
<1>16. CASE does = "insertStage"
  BY <1>16, Zenon DEF Writes
<1>17. CASE does = "attribute"
  BY <1>17, Zenon DEF Writes
<1>18. CASE does \in {"context", "contactable", "automationAllowed", "bookable", "slotFree", "original",
                      "refundable", "stageFree", "reference"}
  BY <1>18, Zenon DEF Writes
<1>19. QED
  BY <1>2, <1>3, <1>4, <1>5, <1>6, <1>7, <1>8, <1>9, <1>10, <1>11, <1>12, <1>13, <1>14, <1>15, <1>16,
     <1>17, <1>18, Zenon

-----------------------------------------------------------------------------
(* What a step leaves.                                                     *)

\* The other requests and the locks that are theirs.
OthersKeep(r) ==
  /\ txn' = [s \in Requests |-> txn'[s]]
  /\ \A s \in Requests \ {r} : txn'[s] = txn[s] /\ HeldBy(s)' = HeldBy(s)

\* After BEGIN.
LEMMA ArriveLeaves ==
  ASSUME TInv, NEW r \in Requests, Arrive(r), OfferedSets \subseteq SUBSET (Operations \X Keys)
  PROVE  /\ OthersKeep(r)
         /\ UNCHANGED <<offered, db, locks>>
         /\ \E op \in Operations, k \in Keys :
              txn'[r] = [txn[r] EXCEPT !.op = op, !.key = k, !.pc = "claim"]
<1>1. Shape(txn[r], HeldBy(r)) /\ txn = [s \in Requests |-> txn[s]] /\ offered \subseteq Operations \X Keys
  BY DEF TInv, Sound
<1>2. PICK o \in offered : txn' = [txn EXCEPT ![r].op = o[1], ![r].key = o[2], ![r].pc = "claim"]
  BY DEF Arrive
<1>3. o[1] \in Operations /\ o[2] \in Keys
  BY <1>1
<1>4. /\ txn' = [s \in Requests |-> txn'[s]]
      /\ \A s \in Requests \ {r} : txn'[s] = txn[s]
      /\ txn'[r] = [txn[r] EXCEPT !.op = o[1], !.key = o[2], !.pc = "claim"]
  BY <1>1, <1>2
<1>5. UNCHANGED <<offered, db, locks>>
  BY DEF Arrive
<1>6. QED
  BY <1>3, <1>4, <1>5 DEF OthersKeep, HeldBy

\* The transaction t after COMMIT or ROLLBACK.
EndOf(t, pc, answer) ==
  [op |-> t.op, key |-> t.key, pc |-> pc, at |-> t.at, view |-> NoRows,
   context |-> NoContext, wrote |-> NoRows, answer |-> answer]

\* After COMMIT or ROLLBACK.
LEMMA EndedLeaves ==
  ASSUME TInv, NEW r \in Requests, NEW pc, NEW answer, Ended(r, pc, answer)
  PROVE  /\ OthersKeep(r)
         /\ UNCHANGED offered
         /\ HeldBy(r)' = {}
         /\ locks' = {l \in locks : l.by # r}
         /\ txn'[r] = EndOf(txn[r], pc, answer)
<1>1. Shape(txn[r], HeldBy(r)) /\ txn = [s \in Requests |-> txn[s]]
  BY DEF TInv, Sound
<1>2. /\ txn' = [s \in Requests |-> txn'[s]]
      /\ \A s \in Requests \ {r} : txn'[s] = txn[s]
      /\ txn'[r] = EndOf(txn[r], pc, answer)
  BY <1>1 DEF Ended, Shape, EndOf
<1>3. locks' = {l \in locks : l.by # r}
  BY DEF Ended
<1>4. HeldBy(r)' = {} /\ \A s \in Requests \ {r} : HeldBy(s)' = HeldBy(s)
  BY <1>3 DEF HeldBy
<1>5. QED
  BY <1>2, <1>3, <1>4 DEF OthersKeep, Ended

\* After a claim that got its key.
LEMMA ClaimLeaves ==
  ASSUME TInv, NEW r \in Requests, Claim(r), db[Key(txn[r].op, txn[r].key)] = Absent
  PROVE  LET row == Key(txn[r].op, txn[r].key) IN
         /\ OthersKeep(r)
         /\ UNCHANGED <<offered, db>>
         /\ locks' = locks \cup {[by |-> r, row |-> row, mode |-> "WHOLE"]}
         /\ HeldBy(r)' = HeldBy(r) \cup {row}
         /\ txn'[r] = [txn[r] EXCEPT !.pc = "run", !.wrote = Put({row}, "started")]
<1> DEFINE row == Key(txn[r].op, txn[r].key)
<1>1. Shape(txn[r], HeldBy(r)) /\ txn = [s \in Requests |-> txn[s]]
  BY DEF TInv, Sound
<1>2. /\ txn' = [txn EXCEPT ![r].pc = "run", ![r].wrote = Put({row}, "started")]
      /\ locks' = locks \cup {[by |-> r, row |-> row, mode |-> "WHOLE"]}
      /\ UNCHANGED <<offered, db>>
  BY DEF Claim
<1>3. /\ txn' = [s \in Requests |-> txn'[s]]
      /\ \A s \in Requests \ {r} : txn'[s] = txn[s]
      /\ txn'[r] = [txn[r] EXCEPT !.pc = "run", !.wrote = Put({row}, "started")]
  BY <1>1, <1>2
<1>4. row \in Rows
  BY <1>1 DEF Shape, Rows, Claim
<1>5. PICK new : new = [by |-> r, row |-> row, mode |-> "WHOLE"]
  OBVIOUS
<1>6. new.by = r /\ new.row = row /\ new.mode # "SHARE" /\ locks' = locks \cup {new}
  BY <1>2, <1>5
<1> HIDE DEF row
<1>7. HeldBy(r)' = HeldBy(r) \cup {row}
  BY <1>4, <1>6 DEF HeldBy
<1>8. \A s \in Requests \ {r} : HeldBy(s)' = HeldBy(s)
  BY <1>6 DEF HeldBy
<1>9. QED
  BY <1>2, <1>3, <1>7, <1>8 DEF OthersKeep, row

\* After a statement has met a lock.
LEMMA WaitLeaves ==
  ASSUME TInv, NEW r \in Requests, Wait(r)
  PROVE  /\ OthersKeep(r)
         /\ UNCHANGED <<offered, db, locks>>
         /\ HeldBy(r)' = HeldBy(r)
         /\ txn'[r] = [txn[r] EXCEPT !.view = db]
<1>1. Shape(txn[r], HeldBy(r)) /\ txn = [s \in Requests |-> txn[s]]
  BY DEF TInv, Sound
<1>2. /\ txn' = [s \in Requests |-> txn'[s]]
      /\ \A s \in Requests \ {r} : txn'[s] = txn[s]
      /\ txn'[r] = [txn[r] EXCEPT !.view = db]
  BY <1>1 DEF Wait
<1>3. QED
  BY <1>2 DEF OthersKeep, Wait, HeldBy

\* The transaction of r after its statement.
Ran(r, done) ==
  LET t == txn[r]
      st == Statement(r)
      last == done \/ t.at = Len(Plan(t.op))
  IN  [op |-> t.op, key |-> t.key, pc |-> IF last THEN "finish" ELSE "run",
       at |-> IF last THEN t.at ELSE t.at + 1, view |-> NoRows,
       context |-> IF st.does # "context" THEN t.context
                   ELSE [customer |-> Then(r, The("customer")), mode |-> Then(r, The("conversation"))],
       wrote |-> IF done THEN t.wrote ELSE Over(Writes(r), t.wrote), answer |-> t.answer]

\* Statements lock rows.
LEMMA FoundAreRows ==
  ASSUME NEW r, txn[r].op \in Operations, txn[r].at \in 1 .. Len(Plan(txn[r].op))
  PROVE  Found(r) \subseteq Rows
<1>1. Statement(r).rows \subseteq Rows
  BY Statements, RowsApart DEF Lock, Update, Read
<1>2. JobRows \subseteq Rows /\ ActionRows \subseteq Rows /\ Action(First) \in Rows
  BY RowsApart DEF ActionRows, RowIds
<1>3. Found(r) \subseteq Statement(r).rows \cup JobRows \cup ActionRows \cup {Action(First)}
  BY FoundIs
<1>4. QED
  BY <1>1, <1>2, <1>3

\* After a statement.
LEMMA ExecuteLeaves ==
  ASSUME TInv, NEW r \in Requests, txn[r].pc = "run", NEW done \in BOOLEAN, Execute(r, done)
  PROVE  /\ OthersKeep(r)
         /\ UNCHANGED <<offered, db>>
         /\ locks' = locks \cup [by : {r}, row : Found(r), mode : {Statement(r).mode}]
         /\ HeldBy(r)' = HeldBy(r) \cup (IF Statement(r).mode = "SHARE" THEN {} ELSE Found(r))
         /\ txn'[r] = Ran(r, done)
<1> DEFINE st == Statement(r)
           last == done \/ txn[r].at = Len(Plan(txn[r].op))
           context == IF st.does # "context" THEN txn[r].context
                      ELSE [customer |-> Then(r, The("customer")), mode |-> Then(r, The("conversation"))]
<1>1. Shape(txn[r], HeldBy(r)) /\ txn = [s \in Requests |-> txn[s]]
  BY DEF TInv, Sound
<1>2. txn' = [txn EXCEPT
           ![r].pc = IF last THEN "finish" ELSE "run",
           ![r].at = IF last THEN @ ELSE @ + 1,
           ![r].view = NoRows,
           ![r].context = IF st.does # "context" THEN @
                          ELSE [customer |-> Then(r, The("customer")), mode |-> Then(r, The("conversation"))],
           ![r].wrote = IF done THEN @ ELSE Over(Writes(r), @)]
      /\ locks' = locks \cup [by : {r}, row : Wanted(r), mode : {st.mode}]
      /\ UNCHANGED <<offered, db>>
  BY DEF Execute
<1> HIDE DEF st, last, context
<1>3. Wanted(r) = Found(r)
  BY Zenon DEF Wanted
<1>4. /\ txn' = [s \in Requests |-> txn'[s]]
      /\ \A s \in Requests \ {r} : txn'[s] = txn[s]
      /\ txn'[r] = Ran(r, done)
  BY <1>1, <1>2 DEF st, last, context, Ran, Shape
<1>5. Found(r) \subseteq Rows
  BY <1>1, FoundAreRows DEF Shape
<1>6. locks' = locks \cup [by : {r}, row : Found(r), mode : {st.mode}]
  BY <1>2, <1>3
<1>7. \A l \in [by : {r}, row : Found(r), mode : {st.mode}] : l.by = r /\ l.row \in Found(r) /\ l.mode = st.mode
  OBVIOUS
<1>8. \A row \in Found(r) : [by |-> r, row |-> row, mode |-> st.mode] \in [by : {r}, row : Found(r), mode : {st.mode}]
  OBVIOUS
<1>9. \A s \in Requests \ {r} : HeldBy(s)' = HeldBy(s)
  BY <1>6, <1>7 DEF HeldBy
<1>10. HeldBy(r)' = HeldBy(r) \cup (IF st.mode = "SHARE" THEN {} ELSE Found(r))
  BY <1>5, <1>6, <1>7, <1>8 DEF HeldBy
<1>11. QED
  BY <1>2, <1>4, <1>6, <1>9, <1>10 DEF OthersKeep, st

-----------------------------------------------------------------------------
(* Steps that commit nothing.                                              *)

\* A replay that r answers is that of a committed operation.
Replays(r) ==
  txn'[r].answer = "REPLAY" =>
    \E s \in Requests : Committed(s) /\ txn[s].op = txn'[r].op /\ txn[s].key = txn'[r].key

\* A step that commits nothing keeps the invariant if its own transaction is left sound.
LEMMA QuietStep ==
  ASSUME TInv, NEW r \in Requests, OthersKeep(r), UNCHANGED <<offered, db>>, LocksExclude',
         txn[r].pc # "committed", txn'[r].pc # "committed", Replays(r),
         Sound(r, txn'[r], db, HeldBy(r)')
  PROVE  TInv'
<1>1. \A s \in Requests : Committed(s)' <=> Committed(s)
  BY DEF OthersKeep, Committed
<1>2. \A s \in Requests : Committed(s) => txn'[s] = txn[s]
  BY DEF OthersKeep, Committed
<1>3. SlotIsBookedOnce'
  BY <1>1, <1>2 DEF SlotIsBookedOnce, TInv, Effects
<1>4. \A s \in Requests : Committed(s)' => db'[Key(txn'[s].op, txn'[s].key)] = txn'[s].op
  BY <1>1, <1>2 DEF TInv, Effects
<1>5. OneEffectPerKey'
  <2>1. \A s, u \in Requests :
          Committed(s)' /\ Committed(u)' /\ Key(txn'[s].op, txn'[s].key) = Key(txn'[u].op, txn'[u].key) => s = u
    BY <1>1, <1>2 DEF TInv, Effects, OneEffectPerKey
  <2>2. \A op \in Operations, k \in Keys :
          db'[Key(op, k)] # Absent =>
            \E s \in Requests : Committed(s)' /\ Key(txn'[s].op, txn'[s].key) = Key(op, k)
                                /\ db'[Key(op, k)] = txn'[s].op
    BY <1>1, <1>2 DEF TInv, Effects, OneEffectPerKey
  <2>3. \A s \in Requests : txn'[s].answer = "REPLAY" =>
          \E u \in Requests : Committed(u) /\ txn[u].op = txn'[s].op /\ txn[u].key = txn'[s].key
    BY DEF TInv, Effects, OneEffectPerKey, OthersKeep, Replays
  <2>4. \A s \in Requests : txn'[s].answer = "REPLAY" =>
          \E u \in Requests : Committed(u)' /\ txn'[u].op = txn'[s].op /\ txn'[u].key = txn'[s].key
    BY <1>1, <1>2, <2>3
  <2>5. QED
    BY <2>1, <2>2, <2>4 DEF OneEffectPerKey
<1>6. \A s \in Requests : db'[Action(s)] # Absent => Committed(s)'
  BY <1>1 DEF TInv, Effects
<1>7. \A s \in Requests : Sound(s, txn'[s], db', HeldBy(s)')
  BY DEF TInv, OthersKeep
<1>8. CommittedRows(db') /\ offered' \in OfferedSets /\ db' = [row \in Rows |-> db'[row]]
  BY DEF TInv
<1>9. QED
  BY <1>3, <1>4, <1>5, <1>6, <1>7, <1>8 DEF TInv, Effects, OthersKeep

\* A request that has not begun, or that has ended, claims nothing.
LEMMA IdleIsSound ==
  ASSUME NEW r, NEW t, NEW d, Shape(t, {}), t.pc \notin {"run", "finish"}
  PROVE  Sound(r, t, d, {})
<1>1. DOMAIN t.wrote = {} /\ t.view = NoRows /\ \A i : ~AtOrPast(t, i)
  BY NoRowsEmpty DEF Shape, AtOrPast
<1>2. Holding(r, t, d, {})
  BY <1>1 DEF Holding
<1>3. /\ WroteTable(r, t.op, t.key, t.wrote, d) /\ WroteOpportunity(t, d)
      /\ WroteActions(r, t.op, t.wrote, d) /\ Created(r, t, d)
  BY <1>1 DEF WroteTable, WroteOpportunity, WroteActions, Created
<1>4. Place(t, d)
  BY <1>1 DEF Place
<1>5. Saw(t, d, {})
  BY <1>1 DEF Saw
<1>6. QED
  BY <1>2, <1>3, <1>4, <1>5 DEF Sound

\* Releasing locks conflicts with nothing.
LEMMA LocksShrink ==
  ASSUME TInv, NEW r \in Requests, OthersKeep(r), locks' \subseteq locks,
         \A l \in locks' : l.by # r
  PROVE  LocksExclude'
  BY DEF LocksExclude, TInv, OthersKeep

\* Locks that conflict with nobody else's may be taken.
LEMMA LocksGrow ==
  ASSUME TInv, NEW r \in Requests, OthersKeep(r), txn'[r].pc \in {"run", "finish"},
         NEW L, L \subseteq [by : {r}, row : Rows, mode : {"WHOLE", "UPDATE", "SHARE"}],
         locks' = locks \cup L,
         \A l \in L, m \in locks : m.by # r /\ m.row = l.row => ~Conflicting(m.mode, l.mode)
  PROVE  LocksExclude'
<1>1. \A m, n : Conflicting(m, n) <=> Conflicting(n, m)
  BY DEF Conflicting
<1>2. \A l \in L : l.by = r /\ l \in [by : Requests, row : Rows, mode : {"WHOLE", "UPDATE", "SHARE"}]
  OBVIOUS
<1>3. LocksExclude
  BY DEF TInv
<1>4. \A l \in locks' : txn'[l.by].pc \in {"run", "finish"}
  BY <1>2, <1>3 DEF LocksExclude, OthersKeep
<1>5. \A l, m \in locks' : l.by # m.by /\ l.row = m.row => ~Conflicting(l.mode, m.mode)
  BY <1>1, <1>2, <1>3 DEF LocksExclude
<1>6. QED
  BY <1>2, <1>3, <1>4, <1>5 DEF LocksExclude

\* BEGIN keeps the invariant.
LEMMA ArriveStep ==
  ASSUME TInv, NEW r \in Requests, Arrive(r)
  PROVE  TInv'
<1>1. /\ OthersKeep(r)
      /\ UNCHANGED <<offered, db, locks>>
      /\ \E op \in Operations, k \in Keys :
           txn'[r] = [txn[r] EXCEPT !.op = op, !.key = k, !.pc = "claim"]
  BY ArriveLeaves, OfferedAssumption
<1>2. Shape(txn[r], HeldBy(r)) /\ txn[r].pc = "new"
  BY DEF TInv, Sound, Arrive
<1>3. HeldBy(r) = {} /\ HeldBy(r)' = {}
  BY <1>1, <1>2 DEF Shape, HeldBy
<1>4. Shape(txn'[r], {})
  BY <1>1, <1>2, <1>3 DEF Shape
<1>5. txn'[r].pc = "claim" /\ txn'[r].answer = txn[r].answer
  BY <1>1, <1>2 DEF Shape
<1>6. Sound(r, txn'[r], db, HeldBy(r)')
  BY <1>3, <1>4, <1>5, IdleIsSound
<1>7. \A l \in locks : l.by # r
  BY <1>2 DEF TInv, LocksExclude
<1>8. LocksExclude'
  BY <1>1, <1>7, LocksShrink
<1>9. txn[r].answer # "REPLAY"
  BY <1>2 DEF Shape
<1>10. QED
  BY <1>1, <1>2, <1>5, <1>6, <1>8, <1>9, QuietStep DEF Replays

\* A rollback keeps the invariant.
LEMMA RolledBackStep ==
  ASSUME TInv, NEW r \in Requests, NEW answer, RolledBack(r, answer), InProgress(r),
         answer \in {"LOST", "REFUSED", "INTERNAL_ERROR", "IN_PROGRESS", "REPLAY", "CONFLICT"},
         answer = "REPLAY" =>
           \E s \in Requests : Committed(s) /\ txn[s].op = txn[r].op /\ txn[s].key = txn[r].key
  PROVE  TInv'
<1>0. Ended(r, "rolledBack", answer) /\ db' = db
  BY DEF RolledBack
<1>1. /\ OthersKeep(r) /\ UNCHANGED <<offered, db>> /\ HeldBy(r)' = {}
      /\ locks' = {l \in locks : l.by # r}
      /\ txn'[r] = EndOf(txn[r], "rolledBack", answer)
  BY <1>0, EndedLeaves
<1>2. Shape(txn[r], HeldBy(r)) /\ txn[r].pc \in {"claim", "run", "finish"}
  BY DEF TInv, Sound, InProgress
<1>3. /\ txn'[r].pc = "rolledBack" /\ txn'[r].answer = answer
      /\ txn'[r].op = txn[r].op /\ txn'[r].key = txn[r].key
      /\ Shape(txn'[r], {})
  BY <1>1, <1>2 DEF Shape, NoContext, EndOf
<1>4. Sound(r, txn'[r], db, {})
  BY <1>3, IdleIsSound
<1>5. LocksExclude'
  BY <1>1, LocksShrink
<1>6. QED
  BY <1>1, <1>2, <1>3, <1>4, <1>5, QuietStep DEF Replays

\* A transaction that waits for nobody meets no conflicting lock.
LEMMA NothingToWaitFor ==
  ASSUME NEW r, WaitsFor(r) = {}
  PROVE  \A l \in locks : l.by # r /\ l.row \in Wanted(r) => ~Conflicting(l.mode, WantedMode(r))
  BY DEF WaitsFor

\* Claiming an idempotency key keeps the invariant.
LEMMA ClaimStep ==
  ASSUME TInv, NEW r \in Requests, Claim(r)
  PROVE  TInv'
<1> DEFINE row == Key(txn[r].op, txn[r].key)
<1>1. /\ Shape(txn[r], HeldBy(r)) /\ txn[r].pc = "claim" /\ txn[r].at = 1 /\ HeldBy(r) = {}
      /\ txn[r].op \in Operations /\ txn[r].key \in Keys /\ txn[r].answer = "none"
      /\ txn[r].view = NoRows
  BY DEF TInv, Sound, Claim, Shape
<1>2. CASE db[row] # Absent
  <2>1. RolledBack(r, KeyAnswer(txn[r].op, db[row]))
    BY <1>2 DEF Claim
  <2>2. KeyAnswer(txn[r].op, db[row]) \in {"IN_PROGRESS", "REPLAY", "CONFLICT"}
    BY Zenon DEF KeyAnswer
  <2>3. KeyAnswer(txn[r].op, db[row]) = "REPLAY" => db[row] = txn[r].op
    <3>1. ASSUME db[row] # txn[r].op, db[row] = "started"
          PROVE  KeyAnswer(txn[r].op, db[row]) = "IN_PROGRESS"
      BY <3>1, Zenon DEF KeyAnswer
    <3>2. ASSUME db[row] # txn[r].op, db[row] # "started"
          PROVE  KeyAnswer(txn[r].op, db[row]) = "CONFLICT"
      BY <3>2, Zenon DEF KeyAnswer
    <3>3. QED
      BY <3>1, <3>2
  <2>4. PICK s \in Requests : Committed(s) /\ Key(txn[s].op, txn[s].key) = row /\ db[row] = txn[s].op
    <3>1. \A op \in Operations, k \in Keys : db[Key(op, k)] # Absent =>
            \E s \in Requests : Committed(s) /\ Key(txn[s].op, txn[s].key) = Key(op, k) /\ db[Key(op, k)] = txn[s].op
      BY DEF TInv, Effects, OneEffectPerKey
    <3>2. QED
      BY <1>1, <1>2, <3>1
  <2>5. txn[s].key = txn[r].key
    BY <2>4 DEF Key
  <2>6. InProgress(r)
    BY <1>1 DEF InProgress
  <2>7. QED
    BY <2>1, <2>2, <2>3, <2>4, <2>5, <2>6, RolledBackStep
<1>3. CASE db[row] = Absent
  <2>1. /\ OthersKeep(r)
        /\ UNCHANGED <<offered, db>>
        /\ locks' = locks \cup {[by |-> r, row |-> row, mode |-> "WHOLE"]}
        /\ HeldBy(r)' = {row}
        /\ txn'[r] = [txn[r] EXCEPT !.pc = "run", !.wrote = Put({row}, "started")]
    BY <1>1, <1>3, ClaimLeaves
  <2>2. row \in KeyRows /\ row \in Rows
    BY <1>1, RowsApart DEF KeyRows
  <2> DEFINE t == txn'[r]
  <2>3. /\ t.op = txn[r].op /\ t.key = txn[r].key /\ t.pc = "run" /\ t.at = 1 /\ t.view = NoRows
        /\ t.answer = "none" /\ t.wrote = Put({row}, "started") /\ t.context = txn[r].context
        /\ t = [op |-> t.op, key |-> t.key, pc |-> t.pc, at |-> t.at, view |-> t.view,
                context |-> t.context, wrote |-> t.wrote, answer |-> t.answer]
    BY <1>1, <2>1 DEF Shape
  <2> HIDE DEF t
  <2>4. DOMAIN t.wrote = {row} /\ \A i \in 2 .. 4 : ~AtOrPast(t, i)
    BY <2>3, PutRows DEF AtOrPast
  <2>5. Shape(t, {row})
    <3>1. 1 \in 1 .. Len(Plan(txn[r].op))
      <4> DEFINE op == txn[r].op
      <4>1. op \in Operations
        BY <1>1
      <4> HIDE DEF op
      <4>2. Len(Plan(op)) \in {2, 3, 4}
        BY <4>1, PlanLengths
      <4>3. QED
        BY <4>2 DEF op
    <3>2. QED
      BY <1>1, <2>3, <2>4, <3>1 DEF Shape
  <2>6. Holding(r, t, db, {row})
    BY <1>3, <2>2, <2>3, <2>4 DEF Holding
  <2>7. /\ row \notin ActionRows /\ row \notin RefundRows /\ row \notin {Action(r)}
        /\ \A n \in {"conversation", "customer", "opp1", "opp2", "payment", "slot"} : row # The(n)
    BY <2>2, RowsApart DEF ActionRows, RowIds
  <2>8. WroteTable(r, t.op, t.key, t.wrote, db)
    BY <2>3, <2>4, <2>7 DEF WroteTable, Fits
  <2>9. WroteOpportunity(t, db) /\ WroteActions(r, t.op, t.wrote, db) /\ Created(r, t, db)
    BY <2>4, <2>7 DEF WroteOpportunity, WroteActions, Created
  <2>10. Place(t, db)
    BY <2>3, <2>4 DEF Place
  <2>11. Saw(t, db, {row})
    BY <2>3 DEF Saw
  <2>12. Sound(r, t, db, {row})
    BY <2>5, <2>6, <2>8, <2>9, <2>10, <2>11 DEF Sound
  <2>13. LocksExclude'
    <3> DEFINE L == {[by |-> r, row |-> row, mode |-> "WHOLE"]}
    <3>1. L \subseteq [by : {r}, row : Rows, mode : {"WHOLE", "UPDATE", "SHARE"}]
      BY <2>2
    <3>2. Wanted(r) = {row} /\ WantedMode(r) = "WHOLE"
      BY <1>1, Zenon DEF Wanted, WantedMode
    <3>3. WaitsFor(r) = {}
      BY DEF Claim
    <3>4. \A l \in L, m \in locks : m.by # r /\ m.row = l.row => ~Conflicting(m.mode, l.mode)
      BY <3>2, <3>3, NothingToWaitFor
    <3>5. t.pc \in {"run", "finish"}
      BY <2>3
    <3> HIDE DEF L
    <3>6. locks' = locks \cup L
      BY <2>1 DEF L
    <3>7. QED
      BY <2>1, <3>1, <3>4, <3>5, <3>6, LocksGrow DEF t
  <2>14. QED
    BY <1>1, <2>1, <2>3, <2>12, <2>13, QuietStep DEF t, Replays
<1>4. QED
  BY <1>2, <1>3

\* The snapshot of a waiting statement is the committed rows, which the invariant describes.
LEMMA WaitStep ==
  ASSUME TInv, NEW r \in Requests, Wait(r)
  PROVE  TInv'
<1>1. /\ OthersKeep(r)
      /\ UNCHANGED <<offered, db, locks>>
      /\ HeldBy(r)' = HeldBy(r)
      /\ txn'[r] = [txn[r] EXCEPT !.view = db]
  BY WaitLeaves
<1> DEFINE t == txn'[r]
           h == HeldBy(r)
<1>2. Sound(r, txn[r], db, h) /\ txn[r].pc = "run"
  BY DEF TInv, Wait
<1>3. /\ t.op = txn[r].op /\ t.key = txn[r].key /\ t.pc = "run" /\ t.at = txn[r].at /\ t.view = db
      /\ t.answer = txn[r].answer /\ t.wrote = txn[r].wrote /\ t.context = txn[r].context
      /\ Shape(t, h)
  BY <1>1, <1>2 DEF Sound, Shape
<1>4. \A i : AtOrPast(t, i) <=> AtOrPast(txn[r], i)
  BY <1>2, <1>3 DEF AtOrPast
<1> HIDE DEF t
<1>5. Holding(r, t, db, h)
  BY <1>2, <1>3, <1>4 DEF Sound, Holding
<1>6. WroteTable(r, t.op, t.key, t.wrote, db)
  BY <1>2, <1>3 DEF Sound
<1>7. WroteOpportunity(t, db)
  BY <1>2, <1>3 DEF Sound, WroteOpportunity, Has
<1>8. WroteActions(r, t.op, t.wrote, db) /\ Created(r, t, db)
  BY <1>2, <1>3 DEF Sound, Created
<1>9. Place(t, db)
  BY <1>2, <1>3, <1>4 DEF Sound, Place, Has
<1>10. Saw(t, db, h)
  BY <1>3 DEF Saw, TInv, CommittedRows
<1>11. Sound(r, t, db, h)
  BY <1>3, <1>5, <1>6, <1>7, <1>8, <1>9, <1>10 DEF Sound
<1>12. LocksExclude'
  <2>1. \A l \in locks : txn'[l.by].pc \in {"run", "finish"}
    BY <1>1, <1>3 DEF TInv, LocksExclude, OthersKeep, t
  <2>2. QED
    BY <1>1, <2>1 DEF TInv, LocksExclude
<1>13. txn[r].answer = "none"
  BY <1>2 DEF Sound, Shape
<1>14. QED
  BY <1>1, <1>2, <1>3, <1>11, <1>12, <1>13, QuietStep DEF t, Replays

-----------------------------------------------------------------------------
(* What a statement sees and writes.                                       *)

\* The state in which a statement of r runs.
Running(r) == TInv /\ r \in Requests /\ txn[r].pc = "run"

\* What a statement sees in its snapshot, against what is there now.
LEMMA SeenRows ==
  ASSUME NEW r, Running(r)
  PROVE  /\ \A row : Now(r, row) = Has(txn[r], db, row)
         /\ \A row \in Rows : Fits(row, Then(r, row)) /\ Fits(row, Now(r, row))
         /\ \A row \in DOMAIN txn[r].wrote : Then(r, row) = Now(r, row)
         /\ Then(r, The("opp1")).status = "DO_NOT_CONTACT" => Now(r, The("opp1")).status = "DO_NOT_CONTACT"
         /\ \A row \in ActionRows \ DOMAIN txn[r].wrote : Then(r, row) # Absent => db[row] # Absent
         /\ The("opp1") \in HeldBy(r) =>
              \A row \in ActionRows :
                /\ Now(r, row) \in Live => Then(r, row) \in Live
                /\ Now(r, row) \in Automated => Then(r, row) \in Automated
         /\ The("customer") \notin DOMAIN txn[r].wrote /\ Then(r, The("customer")) = "BLOCKED" =>
              db[The("opp1")].status = "DO_NOT_CONTACT"
<1> DEFINE t == txn[r]
           h == HeldBy(r)
<1>1. Sound(r, t, db, h) /\ CommittedRows(db)
  BY DEF Running, TInv
<1>2. \A row : Now(r, row) = Has(t, db, row)
  BY DEF Now, Has
<1>3. \A row \in DOMAIN t.wrote : Then(r, row) = Now(r, row) /\ Then(r, row) = t.wrote[row]
  BY DEF Then, Now
<1>4. \A row : row \notin DOMAIN t.wrote =>
        Now(r, row) = db[row] /\ Then(r, row) = IF t.view = NoRows THEN db[row] ELSE t.view[row]
  BY DEF Then, Now
<1> HIDE DEF t, h
<1>5. \A row \in Rows : Fits(row, db[row])
  BY <1>1 DEF CommittedRows
<1>6. t.view # NoRows => \A row \in Rows : Fits(row, t.view[row])
  BY <1>1 DEF Sound, Saw
<1>7. \A row \in DOMAIN t.wrote : Fits(row, t.wrote[row])
  BY <1>1 DEF Sound, WroteTable
<1>8. \A row \in Rows : Fits(row, Then(r, row)) /\ Fits(row, Now(r, row))
  BY <1>3, <1>4, <1>5, <1>6, <1>7
<1>9. Then(r, The("opp1")).status = "DO_NOT_CONTACT" => Now(r, The("opp1")).status = "DO_NOT_CONTACT"
  <2>1. CASE The("opp1") \in DOMAIN t.wrote
    BY <1>3, <2>1
  <2>2. CASE The("opp1") \notin DOMAIN t.wrote
    BY <1>1, <1>4, <2>2 DEF Sound, Saw
  <2>3. QED
    BY <2>1, <2>2
<1>10. \A row \in ActionRows \ DOMAIN t.wrote : Then(r, row) # Absent => db[row] # Absent
  BY <1>1, <1>4 DEF Sound, Saw
<1>11. ASSUME The("opp1") \in h, NEW row \in ActionRows
       PROVE  /\ Now(r, row) \in Live => Then(r, row) \in Live
              /\ Now(r, row) \in Automated => Then(r, row) \in Automated
  <2>1. CASE row \in DOMAIN t.wrote
    BY <1>3, <2>1
  <2>2. CASE row \notin DOMAIN t.wrote
    BY <1>1, <1>4, <1>11, <2>2 DEF Sound, Saw
  <2>3. QED
    BY <2>1, <2>2
<1>12. ASSUME The("customer") \notin DOMAIN t.wrote, Then(r, The("customer")) = "BLOCKED"
       PROVE  db[The("opp1")].status = "DO_NOT_CONTACT"
  <2>1. db[The("customer")] = "BLOCKED"
    BY <1>1, <1>4, <1>12 DEF Sound, Saw
  <2>2. QED
    BY <1>1, <2>1 DEF CommittedRows
<1>13. QED
  BY <1>2, <1>3, <1>8, <1>9, <1>10, <1>11, <1>12 DEF t, h

\* A running transaction has a statement left, and no action of its own yet.
LEMMA RunningPlace ==
  ASSUME NEW r, Running(r)
  PROVE  /\ r \in Requests
         /\ txn[r].op \in Operations /\ txn[r].key \in Keys /\ txn[r].at \in 1 .. Len(Plan(txn[r].op))
         /\ txn[r].answer = "none"
         /\ Action(r) \in ActionRows /\ Action(First) \in ActionRows /\ Action(r) # Action(First)
         /\ Action(r) \notin DOMAIN txn[r].wrote /\ db[Action(r)] = Absent
         /\ The("opp1") \in Rows /\ The("opp2") \in Rows
<1>1. Sound(r, txn[r], db, HeldBy(r)) /\ Effects /\ r \in Requests /\ txn[r].pc = "run"
  BY DEF Running, TInv
<1>2. Action(r) \in ActionRows /\ Action(First) \in ActionRows
  BY <1>1 DEF ActionRows, RowIds
<1>3. Action(r) # Action(First)
  BY <1>1, RequestsAssumption DEF Action, First
<1>4. Action(r) \notin DOMAIN txn[r].wrote
  BY <1>1 DEF Sound, Created
<1>5. db[Action(r)] = Absent
  BY <1>1 DEF Effects, Committed
<1>6. QED
  BY <1>1, <1>2, <1>3, <1>4, <1>5, RowsApart DEF Sound, Shape

\* A statement that retires actions finds none of its own.
LEMMA RetireWrites ==
  ASSUME NEW r, Running(r), NEW S, NEW W, S \subseteq ActionRows, W = Put(S, "CANCELLED"),
         \A row \in S : Then(r, row) \in Live
  PROVE  /\ WroteTable(r, txn[r].op, txn[r].key, W, db)
         /\ WroteActions(r, txn[r].op, W, db)
         /\ DOMAIN W = S /\ DOMAIN W \subseteq Rows
         /\ \A row \in S : row # Action(r)
<1>1. DOMAIN W = S /\ \A row \in S : W[row] = "CANCELLED"
  BY PutRows
<1>2. \A row \in S : row \in Rows /\ row \notin KeyRows /\ row \notin RefundRows
                     /\ \A n \in {"conversation", "customer", "opp1", "opp2", "payment", "slot"} : row # The(n)
  BY RowsApart
<1>3. WroteTable(r, txn[r].op, txn[r].key, W, db)
  BY <1>1, <1>2 DEF WroteTable, Fits, ActionStatuses
<1>4. \A row \in S : row \in DOMAIN txn[r].wrote \/ db[row] # Absent
  BY SeenRows DEF Live, Absent
<1>5. WroteActions(r, txn[r].op, txn[r].wrote, db)
  BY DEF Running, TInv, Sound
<1>6. \A row \in S : row # Action(r) /\ db[row] # Absent
  BY <1>4, <1>5, RunningPlace DEF WroteActions
<1>7. WroteActions(r, txn[r].op, W, db)
  BY <1>1, <1>6 DEF WroteActions
<1>8. QED
  BY <1>1, <1>2, <1>3, <1>6, <1>7

\* Of the tables, what a statement may write at all.
LEMMA SingleWrite ==
  ASSUME NEW r, NEW op, NEW key, NEW d, NEW W, NEW row \in Rows, NEW v, W = Put({row}, v),
         row \notin ActionRows, row \notin KeyRows,
         Fits(row, v), row # The("payment"),
         row = The("customer") => op = "optOut" /\ v = "BLOCKED",
         row = The("conversation") => \/ op = "takeover" /\ v = "HUMAN_ACTIVE"
                                      \/ op = "resume" /\ v = "AI_ACTIVE",
         row = The("slot") => op \in {"book1", "book2"} /\ v = r /\ d[The("slot")] = Absent,
         row \in RefundRows => op = "refund" /\ row = Refund(r)
  PROVE  WroteTable(r, op, key, W, d) /\ WroteActions(r, op, W, d) /\ DOMAIN W = {row}
<1>1. DOMAIN W = {row} /\ W[row] = v
  BY PutRows
<1>2. WroteTable(r, op, key, W, d)
  BY <1>1 DEF WroteTable
<1>3. WroteActions(r, op, W, d)
  BY <1>1 DEF WroteActions
<1>4. QED
  BY <1>1, <1>2, <1>3

\* Two lawful sets of writes are lawful together.
LEMMA WritesAdd ==
  ASSUME NEW r, NEW op, NEW key, NEW d, NEW V, NEW w,
         WroteTable(r, op, key, V, d), WroteTable(r, op, key, w, d),
         WroteActions(r, op, V, d), WroteActions(r, op, w, d)
  PROVE  WroteTable(r, op, key, Over(V, w), d) /\ WroteActions(r, op, Over(V, w), d)
<1> DEFINE u == Over(V, w)
<1>1. /\ DOMAIN u = DOMAIN V \cup DOMAIN w
      /\ \A row \in DOMAIN V : u[row] = V[row]
      /\ \A row \in DOMAIN w : row \notin DOMAIN V => u[row] = w[row]
  BY OverRows
<1> HIDE DEF u
<1>2. \A row \in DOMAIN u : \/ row \in DOMAIN V /\ u[row] = V[row]
                            \/ row \in DOMAIN w /\ u[row] = w[row]
  BY <1>1
<1>3. WroteTable(r, op, key, u, d)
  BY <1>2 DEF WroteTable
<1>4. WroteActions(r, op, u, d)
  BY <1>2 DEF WroteActions
<1>5. QED
  BY <1>3, <1>4 DEF u

\* Every update of the opportunity leaves an opportunity.
LEMMA OpportunityTypes ==
  ASSUME NEW opp \in OppType
  PROVE  /\ \A does \in {"approve", "stop", "requireHuman", "atRisk", "message", "insertSlot"} :
              MovedBy(does, opp) \in OppType
         /\ \A collected, refunded : [opp EXCEPT !.attributed = NetCollected(collected, refunded)] \in OppType
         /\ \A state \in RecoveryStates : [opp EXCEPT !.recovery = state] \in OppType
<1>1. /\ opp = [status |-> opp.status, recovery |-> opp.recovery, attributed |-> opp.attributed]
      /\ opp.status \in OppStatuses /\ opp.recovery \in RecoveryStates /\ opp.attributed \in Nat
  BY DEF OppType
<1>2. \A does \in {"approve", "stop", "requireHuman", "atRisk", "message", "insertSlot"} : MovedBy(does, opp) \in OppType
  <2>1. MovedBy("approve", opp) = [opp EXCEPT !.recovery = "RECOVERY_ACTIVE"]
    BY Zenon DEF MovedBy
  <2>2. MovedBy("stop", opp) = [opp EXCEPT !.status = "DO_NOT_CONTACT", !.recovery = "STOPPED"]
    BY Zenon DEF MovedBy
  <2>3. MovedBy("requireHuman", opp) = [opp EXCEPT !.recovery = "HUMAN_REQUIRED"]
    BY Zenon DEF MovedBy
  <2>4. MovedBy("atRisk", opp) = [opp EXCEPT !.recovery = "AT_RISK"]
    BY Zenon DEF MovedBy
  <2>5. MovedBy("message", opp) =
              [opp EXCEPT !.status = IF @ \in {"NEW", "CONTACTING"} THEN "ENGAGED" ELSE @,
                          !.recovery = IF @ = "HUMAN_REQUIRED" THEN @ ELSE "NOT_AT_RISK"]
    BY Zenon DEF MovedBy
  <2>6. MovedBy("insertSlot", opp) =
              [opp EXCEPT !.status = "BOOKED",
                          !.recovery = IF @ \in {"AT_RISK", "RECOVERY_ACTIVE", "WAITING_FOR_CUSTOMER"}
                                       THEN "RECOVERED" ELSE "NOT_AT_RISK"]
    BY Zenon DEF MovedBy
  <2>7. MovedBy("approve", opp) \in OppType /\ MovedBy("stop", opp) \in OppType
    BY <1>1, <2>1, <2>2 DEF OppType, OppStatuses, RecoveryStates
  <2>8. MovedBy("requireHuman", opp) \in OppType /\ MovedBy("atRisk", opp) \in OppType
    BY <1>1, <2>3, <2>4 DEF OppType, OppStatuses, RecoveryStates
  <2>9. MovedBy("message", opp) \in OppType
    BY <1>1, <2>5 DEF OppType, OppStatuses, RecoveryStates
  <2>10. MovedBy("insertSlot", opp) \in OppType
    BY <1>1, <2>6 DEF OppType, OppStatuses, RecoveryStates
  <2>11. QED
    BY <2>7, <2>8, <2>9, <2>10
<1>3. \A collected, refunded : NetCollected(collected, refunded) \in Nat
  BY PaymentAmountAssumption DEF NetCollected
<1>4. QED
  BY <1>2, <1>3 DEF OppType

\* The policy's answer to an observation of StoreTransactions.
LEMMA PolicyAnswers ==
  ASSUME NEW observed, observed.recovery \in RecoveryStates
  PROVE  /\ RecoveryActionStatus(observed) \in ActionStatuses
         /\ RecoveryStateAfterDecision(observed) \in RecoveryStates
<1>1. RecoveryActionStatus(observed) \in ActionStatuses
  BY DEF RecoveryActionStatus, ActionStatuses
<1>2. RecoveryStateAfterDecision(observed) \in RecoveryStates
  BY DEF RecoveryStateAfterDecision, RecoveryStates
<1>3. QED
  BY <1>1, <1>2

\* Whatever a statement writes is lawful, and locked or its own.
LEMMA StatementWrites ==
  ASSUME NEW r, Running(r), NEW late \in BOOLEAN, ~Refuses(r, late), ~Violates(r), ~Returns(r, late)
  PROVE  /\ WroteTable(r, txn[r].op, txn[r].key, Writes(r), db)
         /\ WroteActions(r, txn[r].op, Writes(r), db)
         /\ DOMAIN Writes(r) \subseteq Rows
         /\ \A row \in DOMAIN Writes(r) :
              row \in HeldBy(r) \cup Own(r) \/ (row \in Found(r) /\ Statement(r).mode # "SHARE")
<1> DEFINE op == txn[r].op
           key == txn[r].key
           at == txn[r].at
           st == Statement(r)
           found == Found(r)
           mine == Mine(op)
           opp == Now(r, mine)
           W == Writes(r)
           Tables_ == WroteTable(r, op, key, W, db)
           Acts_ == WroteActions(r, op, W, db)
           Goal == /\ Tables_ /\ Acts_ /\ DOMAIN W \subseteq Rows
                   /\ \A row \in DOMAIN W : row \in HeldBy(r) \cup Own(r) \/ (row \in found /\ st.mode # "SHARE")
<1>1. /\ r \in Requests /\ op \in Operations /\ at \in 1 .. Len(Plan(op)) /\ Action(r) \in ActionRows
      /\ Action(First) \in ActionRows /\ The("opp1") \in Rows /\ The("opp2") \in Rows
  BY RunningPlace
<1>2. mine \in {The("opp1"), The("opp2")} /\ (op # "book2" => mine = The("opp1"))
  BY DEF Mine
<1>3. opp \in OppType
  BY <1>1, <1>2, SeenRows DEF Fits
<1>4. Holding(r, txn[r], db, HeldBy(r)) /\ Shape(txn[r], HeldBy(r))
  BY DEF Running, TInv, Sound
<1>5. \A row \in DOMAIN txn[r].wrote : row \in HeldBy(r) \cup Own(r)
  BY <1>4 DEF Holding
<1>6. \A n \in {"customer", "conversation", "opp1", "opp2", "payment", "slot", "collected", "refunded"} :
        /\ The(n) \in Rows /\ The(n) \notin ActionRows /\ The(n) \notin KeyRows /\ The(n) \notin RefundRows
        /\ \A m : The(n) = The(m) => n = m
  BY RowsApart
<1>7. CASE st.does \in {"context", "contactable", "automationAllowed", "bookable", "slotFree", "original",
                        "refundable", "stageFree", "reference"}
  <2>1. W = NoRows
    BY <1>7, WritesIs
  <2> HIDE DEF W
  <2>2. DOMAIN W = {}
    BY <2>1, NoRowsEmpty
  <2>3. QED
    BY <2>2 DEF WroteTable, WroteActions, W
<1>8. CASE st.does \in {"retireAutomated", "retireHandoff", "retireStopped"}
  <2>1. PICK S \in SUBSET found : W = Put(S, "CANCELLED")
    <3>1. CASE st.does = "retireAutomated"
      BY <3>1, WritesIs
    <3>2. CASE st.does = "retireHandoff"
      BY <3>2, WritesIs
    <3>3. CASE st.does = "retireStopped"
      BY <3>3, WritesIs
    <3>4. QED
      BY <1>8, <3>1, <3>2, <3>3
  <2>2. found \subseteq ActionRows /\ \A row \in found : Then(r, row) \in Live
    BY <1>8, FoundIs DEF Automated, Live
  <2>3. st.mode # "SHARE"
    BY <1>1, <1>8, Statements DEF Lock, Update, Read
  <2> HIDE DEF W, found, st
  <2>4. Tables_ /\ Acts_ /\ DOMAIN W = S /\ DOMAIN W \subseteq Rows
    BY <2>1, <2>2, RetireWrites
  <2>5. QED
    BY <2>1, <2>3, <2>4 DEF W, found, st
<1>9. CASE st.does \in {"cancelJobs", "insertJob"}
  <2>1. PICK S, v : S \in SUBSET JobRows /\ W = Put(S, v) /\ \A row \in S : row \in Own(r) \/ (row \in found /\ st.mode # "SHARE")
    <3>1. CASE st.does = "cancelJobs"
      <4>1. st.mode # "SHARE"
        BY <1>1, <3>1, Statements DEF Lock, Update, Read
      <4>2. W = Put({row \in found : Now(r, row) = "scheduled"}, "cancelled")
        BY <3>1, WritesIs
      <4>3. found \subseteq JobRows
        BY <3>1, FoundIs
      <4> DEFINE S == {row \in found : Now(r, row) = "scheduled"}
      <4>4. S \in SUBSET JobRows /\ S \subseteq found /\ W = Put(S, "cancelled")
        BY <4>2, <4>3
      <4> HIDE DEF S
      <4>5. QED
        BY <4>1, <4>4
    <3>2. CASE st.does = "insertJob"
      <4>1. W = Put({Job(r)}, "scheduled")
        BY <3>2, WritesIs
      <4>2. Job(r) \in JobRows /\ Job(r) \in Own(r)
        BY <1>1 DEF Own, JobRows, RowIds
      <4>3. QED
        BY <4>1, <4>2
    <3>3. QED
      BY <1>9, <3>1, <3>2
  <2>2. \A row \in S : /\ row \in Rows /\ row \notin KeyRows /\ row \notin RefundRows /\ row \notin ActionRows
                       /\ \A n \in {"conversation", "customer", "opp1", "opp2", "payment", "slot"} : row # The(n)
    BY <2>1, RowsApart
  <2> HIDE DEF W
  <2>3. DOMAIN W = S
    BY <2>1, PutRows
  <2>4. Tables_
    BY <2>2, <2>3 DEF WroteTable, Fits
  <2>5. Acts_
    BY <2>2, <2>3 DEF WroteActions
  <2>6. QED
    BY <2>1, <2>2, <2>3, <2>4, <2>5 DEF W
<1>10. CASE st.does \in {"approve", "stop", "requireHuman", "atRisk"}
  <2>1. found \subseteq {The("opp1")} /\ st.mode # "SHARE"
    BY <1>1, <1>10, Statements, FoundIs DEF Lock, Update, Read
  <2>2. W = [row \in {row \in found : Matches(st.does, Now(r, row))} |-> MovedBy(st.does, Now(r, row))]
    BY <1>10, WritesIs
  <2> HIDE DEF W, found, st
  <2>3. DOMAIN W \subseteq found /\ \A row \in DOMAIN W : row = The("opp1") /\ W[row] = MovedBy(st.does, Now(r, The("opp1")))
    BY <2>1, <2>2
  <2>4. Now(r, The("opp1")) \in OppType
    BY <1>1, SeenRows DEF Fits
  <2>5. MovedBy(st.does, Now(r, The("opp1"))) \in OppType
    BY <1>10, <2>4, OpportunityTypes
  <2>6. \A row \in DOMAIN W : Fits(row, W[row])
    BY <1>6, <2>3, <2>5 DEF Fits
  <2>7. Tables_ /\ Acts_
    BY <1>6, <2>3, <2>6 DEF WroteTable, WroteActions
  <2>8. QED
    BY <1>6, <2>1, <2>3, <2>7 DEF W, found, st
<1>11. CASE st.does \in {"blockContact", "takeOver", "resume", "insertStage", "attribute"}
  <2>1. PICK n \in {"customer", "conversation", "collected", "refunded", "opp1"} :
          /\ found = {The(n)} /\ st.mode # "SHARE"
          /\ st.does = "blockContact" => n = "customer" /\ op = "optOut"
          /\ st.does = "takeOver" => n = "conversation" /\ op = "takeover"
          /\ st.does = "resume" => n = "conversation" /\ op = "resume"
          /\ st.does = "insertStage" => n \in {"collected", "refunded"}
          /\ st.does = "attribute" => n = "opp1" /\ op \in {"collected", "refunded"}
    BY <1>1, <1>11, Statements, FoundIs DEF Lock, Update, Read
  <2>2. PICK v : /\ W = Put({The(n)}, v)
                 /\ st.does = "blockContact" => v = "BLOCKED"
                 /\ st.does = "takeOver" => v = "HUMAN_ACTIVE"
                 /\ st.does = "resume" => v = "AI_ACTIVE"
                 /\ st.does = "attribute" => v \in OppType
    <3>1. CASE st.does = "blockContact"
      BY <2>1, <3>1, WritesIs
    <3>2. CASE st.does = "takeOver"
      BY <2>1, <3>2, WritesIs
    <3>3. CASE st.does = "resume"
      BY <2>1, <3>3, WritesIs
    <3>4. CASE st.does = "insertStage"
      BY <2>1, <3>4, WritesIs
    <3>5. CASE st.does = "attribute"
      <4>1. W = Put({The(n)}, [opp EXCEPT !.attributed = NetCollected(Then(r, The("collected")), Then(r, The("refunded")))])
        BY <2>1, <3>5, WritesIs
      <4>2. QED
        BY <1>3, <3>5, <4>1, OpportunityTypes
    <3>6. QED
      BY <1>11, <3>1, <3>2, <3>3, <3>4, <3>5
  <2> HIDE DEF W, found, st, op, key
  <2>3. Fits(The(n), v)
    BY <1>6, <1>11, <2>1, <2>2 DEF Fits
  <2>4. Tables_ /\ Acts_ /\ DOMAIN W = {The(n)}
    BY <1>6, <1>11, <2>1, <2>2, <2>3, SingleWrite
  <2>5. QED
    BY <1>6, <2>1, <2>4 DEF W, found, st, op, key
<1>12. CASE st.does = "message"
  <2>1. op = "respond" /\ at = 2
    BY <1>1, <1>12, Statements DEF Lock, Update, Read
  <2>2. W = Put({The("opp1")}, MovedBy("message", opp)) /\ MovedBy("message", opp) \in OppType
    BY <1>2, <1>3, <1>12, <2>1, WritesIs, OpportunityTypes
  <2>3. The("opp1") \in HeldBy(r)
    BY <1>4, <2>1 DEF Holding, AtOrPast, Running
  <2> HIDE DEF W, op, key, opp, found, st
  <2>4. Fits(The("opp1"), MovedBy("message", opp))
    BY <1>6, <2>2 DEF Fits
  <2>5. Tables_ /\ Acts_ /\ DOMAIN W = {The("opp1")}
    BY <1>6, <2>2, <2>4, SingleWrite
  <2>6. QED
    BY <1>6, <2>3, <2>5 DEF W, op, key, found, st
<1>13. CASE st.does = "insertRefund"
  <2>1. op = "refund"
    BY <1>1, <1>13, Statements DEF Lock, Update, Read
  <2>0. W = Put({Refund(r)}, "COLLECTED")
    BY <1>13, WritesIs
  <2>2. Refund(r) \in RefundRows
    BY <1>1 DEF RefundRows, RowIds
  <2>3. /\ Refund(r) \in Rows /\ Refund(r) \notin ActionRows /\ Refund(r) \notin KeyRows
        /\ \A n \in {"conversation", "customer", "opp1", "opp2", "payment", "slot"} : Refund(r) # The(n)
    BY <2>2, RowsApart
  <2> HIDE DEF W, found, st
  <2>4. Fits(Refund(r), "COLLECTED")
    BY <2>3 DEF Fits
  <2>5. Tables_ /\ Acts_ /\ DOMAIN W = {Refund(r)}
    BY <2>0, <2>1, <2>3, <2>4, SingleWrite
  <2>6. QED
    BY <2>3, <2>5 DEF Own, W, found, st
<1>14. CASE st.does = "insertSlot"
  <2>1. op \in {"book1", "book2"} /\ found = {The("slot")} /\ st.mode = "WHOLE"
    BY <1>1, <1>14, Statements, FoundIs DEF Lock, Update, Read
  <2>2. W = Over(Put({mine}, MovedBy("insertSlot", opp)), Put({The("slot")}, r))
    BY <1>14, <2>1, WritesIs
  <2>3. db[The("slot")] = Absent
    <3>1. Now(r, The("slot")) = Absent
      BY <1>14 DEF Violates
    <3>2. CASE The("slot") \in DOMAIN txn[r].wrote
      BY <3>2 DEF Running, TInv, Sound, WroteTable
    <3>3. CASE The("slot") \notin DOMAIN txn[r].wrote
      BY <3>1, <3>3 DEF Now
    <3>4. QED
      BY <3>2, <3>3
  <2> DEFINE V == Put({mine}, MovedBy("insertSlot", opp))
             U == Put({The("slot")}, r)
  <2>4. MovedBy("insertSlot", opp) \in OppType
    BY <1>3, OpportunityTypes
  <2>5. mine \in HeldBy(r) \cup found \cup Rows /\ mine \in Rows
    BY <1>2, <1>6
  <2>6. WroteTable(r, op, key, V, db) /\ WroteActions(r, op, V, db) /\ DOMAIN V = {mine}
    <3> DEFINE v == MovedBy("insertSlot", opp)
    <3>1. v \in OppType /\ V = Put({mine}, v)
      BY <2>4
    <3> HIDE DEF v, V, opp, mine, op, key
    <3>2. Fits(mine, v)
      BY <1>2, <1>6, <3>1 DEF Fits
    <3>3. QED
      BY <1>2, <1>6, <3>1, <3>2, SingleWrite
  <2>7. WroteTable(r, op, key, U, db) /\ WroteActions(r, op, U, db) /\ DOMAIN U = {The("slot")}
    <3> HIDE DEF op, key
    <3>1. Fits(The("slot"), r)
      BY <1>6 DEF Fits
    <3>2. QED
      BY <1>6, <2>1, <2>3, <3>1, SingleWrite
  <2>12. W = Over(V, U)
    BY <2>2
  <2> HIDE DEF V, U
  <2>8. DOMAIN W = {mine, The("slot")}
    <3>1. DOMAIN Over(V, U) = DOMAIN V \cup DOMAIN U
      BY OverRows
    <3>2. QED
      BY <2>6, <2>7, <2>12, <3>1
  <2>9. Tables_ /\ Acts_
    BY <2>6, <2>7, <2>12, WritesAdd
  <2>10. mine \in HeldBy(r)
    <3>1. at = 3
      BY <1>1, <1>14, Statements DEF Lock, Update, Read
    <3>2. AtOrPast(txn[r], 2)
      BY <3>1 DEF AtOrPast, Running
    <3>3. QED
      BY <1>4, <2>1, <3>2 DEF Holding, Mine
  <2> HIDE DEF W, found, st
  <2>11. QED
    BY <1>6, <2>1, <2>5, <2>8, <2>9, <2>10 DEF W, found, st
<1>15. CASE st.does = "approvable"
  <2>0. op = "approve" /\ at = 1 /\ st.mode = "WHOLE"
    BY <1>1, <1>15, Statements DEF Lock, Update, Read
  <2>1. op = "approve" /\ at = 1 /\ found = {Action(First)} /\ st.mode = "WHOLE" /\ W = Put({Action(First)}, "READY")
    BY <1>15, <2>0, FoundIs, WritesIs
  <2>2. Now(r, Action(First)) = "WAITING_APPROVAL"
    BY <1>15 DEF Refuses, Returns
  <2>3. DOMAIN txn[r].wrote = {Key(op, key)} /\ Key(op, key) \in KeyRows
    BY <1>1, <1>4, <2>1, RunningPlace DEF Shape, Running, KeyRows
  <2>4. db[Action(First)] = "WAITING_APPROVAL"
    <3>1. Action(First) # Key(op, key)
      BY <1>1, <2>3, RowsApart
    <3>2. QED
      BY <2>2, <2>3, <3>1 DEF Now
  <2> HIDE DEF W
  <2>5. DOMAIN W = {Action(First)} /\ W[Action(First)] = "READY"
    BY <2>1, PutRows
  <2>6. /\ Action(First) \in Rows /\ Action(First) \notin KeyRows /\ Action(First) \notin RefundRows
        /\ \A n \in {"conversation", "customer", "opp1", "opp2", "payment", "slot"} : Action(First) # The(n)
    BY <1>1, RowsApart
  <2>7. Tables_
    BY <2>5, <2>6 DEF WroteTable, Fits, ActionStatuses
  <2>8. Acts_
    BY <2>1, <2>4, <2>5 DEF WroteActions, Automated, Live, Absent
  <2>9. QED
    BY <2>1, <2>5, <2>6, <2>7, <2>8 DEF W
<1>16. CASE st.does = "evaluate"
  <2> DEFINE observed == Observation(txn[r].context, opp)
             S == {row \in found : Now(r, row) \in Live}
             X == Put({Action(r)}, RecoveryActionStatus(observed))
             V == Put({mine}, [opp EXCEPT !.recovery = RecoveryStateAfterDecision(observed)])
             U == Put(S, "CANCELLED")
  <2>0. op = "evaluate" /\ at = 2 /\ st.mode = "WHOLE" /\ mine = The("opp1")
    BY <1>1, <1>2, <1>16, Statements DEF Lock, Update, Read
  <2>1. /\ op = "evaluate" /\ at = 2 /\ st.mode = "WHOLE" /\ mine = The("opp1")
        /\ found = {row \in ActionRows : Then(r, row) \in Live}
    BY <1>16, <2>0, FoundIs
  <2>2. W = Over(X, Over(V, U))
    BY <1>16, WritesIs, Zenon
  <2>3. observed.recovery \in RecoveryStates
    <3>1. observed.recovery = opp.recovery
      BY DEF Observation
    <3>2. QED
      BY <1>3, <3>1 DEF OppType
  <2>4. RecoveryActionStatus(observed) \in ActionStatuses /\ RecoveryStateAfterDecision(observed) \in RecoveryStates
    BY <2>3, PolicyAnswers
  <2>5. The("opp1") \in HeldBy(r)
    BY <1>4, <2>1 DEF Holding, AtOrPast, Running
  <2>6. WroteTable(r, op, key, U, db) /\ WroteActions(r, op, U, db) /\ DOMAIN U = S
    BY <2>1, RetireWrites
  <2>7. WroteTable(r, op, key, V, db) /\ WroteActions(r, op, V, db) /\ DOMAIN V = {The("opp1")}
    <3>1. [opp EXCEPT !.recovery = RecoveryStateAfterDecision(observed)] \in OppType
      BY <1>3, <2>4, OpportunityTypes
    <3> DEFINE v == [opp EXCEPT !.recovery = RecoveryStateAfterDecision(observed)]
    <3>2. v \in OppType /\ V = Put({The("opp1")}, v)
      BY <2>1, <3>1
    <3> HIDE DEF v, V, op, key
    <3>3. Fits(The("opp1"), v)
      BY <1>6, <3>2 DEF Fits
    <3>4. QED
      BY <1>6, <3>2, <3>3, SingleWrite
  <2>8. WroteTable(r, op, key, X, db) /\ WroteActions(r, op, X, db) /\ DOMAIN X = {Action(r)}
    <3>1. DOMAIN X = {Action(r)} /\ X[Action(r)] \in ActionStatuses
      BY <2>4, PutRows
    <3>2. /\ Action(r) \in Rows /\ Action(r) \notin KeyRows /\ Action(r) \notin RefundRows
          /\ \A n \in {"conversation", "customer", "opp1", "opp2", "payment", "slot"} : Action(r) # The(n)
      BY <1>1, RowsApart
    <3> HIDE DEF X
    <3>3. WroteTable(r, op, key, X, db)
      BY <3>1, <3>2 DEF WroteTable, Fits
    <3>4. WroteActions(r, op, X, db)
      BY <3>1 DEF WroteActions
    <3>5. QED
      BY <3>1, <3>3, <3>4
  <2>9. S \subseteq found /\ found \subseteq Rows
    BY <2>1, RowsApart
  <2> HIDE DEF X, V, U, S
  <2>10. Tables_ /\ Acts_
    <3>1. WroteTable(r, op, key, Over(V, U), db) /\ WroteActions(r, op, Over(V, U), db)
      BY <2>6, <2>7, WritesAdd
    <3>2. QED
      BY <2>2, <2>8, <3>1, WritesAdd
  <2>11. DOMAIN W = {Action(r)} \cup ({The("opp1")} \cup S)
    <3>1. DOMAIN Over(V, U) = {The("opp1")} \cup S
      BY <2>6, <2>7, OverRows
    <3>2. DOMAIN Over(X, Over(V, U)) = DOMAIN X \cup DOMAIN Over(V, U)
      BY OverRows
    <3>3. QED
      BY <2>2, <2>8, <3>1, <3>2
  <2> HIDE DEF W, found
  <2>12. DOMAIN W \subseteq Rows
    BY <1>1, <1>6, <2>9, <2>11, RowsApart
  <2>13. \A row \in DOMAIN W : row \in HeldBy(r) \cup Own(r) \/ (row \in found /\ st.mode # "SHARE")
    BY <2>1, <2>5, <2>9, <2>11 DEF Own
  <2>14. QED
    BY <2>10, <2>12, <2>13 DEF W, found
<1>17. QED
  <2>1. st.does \in {"context", "contactable", "automationAllowed", "bookable", "slotFree", "original",
                     "refundable", "stageFree", "reference", "retireAutomated", "retireHandoff", "retireStopped",
                     "cancelJobs", "insertJob", "approve", "stop", "requireHuman", "atRisk", "blockContact",
                     "takeOver", "resume", "insertStage", "attribute", "message", "insertRefund", "insertSlot",
                     "approvable", "evaluate"}
    BY <1>1, Statements DEF Lock, Update, Read
  <2>2. QED
    BY <1>7, <1>8, <1>9, <1>10, <1>11, <1>12, <1>13, <1>14, <1>15, <1>16, <2>1

\* The rows a statement may write.
LEMMA WritesDomain ==
  ASSUME NEW r, Running(r)
  PROVE  LET does == Statement(r).does
             rows == DOMAIN Writes(r)
         IN  /\ Action(r) \in rows => does = "evaluate"
             /\ The("conversation") \in rows => does \in {"takeOver", "resume"}
             /\ The("opp1") \in rows =>
                  \/ does \in {"evaluate", "approve", "stop", "requireHuman", "atRisk", "message", "attribute"}
                  \/ does = "insertSlot" /\ txn[r].op = "book1"
             /\ does \in {"cancelJobs", "insertJob"} => rows \subseteq JobRows
             /\ does \in {"retireAutomated", "retireHandoff", "retireStopped"} => rows \subseteq ActionRows
<1> DEFINE does == Statement(r).does
           found == Found(r)
           op == txn[r].op
           W == Writes(r)
           rows == DOMAIN W
<1>1. /\ r \in Requests /\ op \in Operations /\ txn[r].at \in 1 .. Len(Plan(op)) /\ Action(r) \in ActionRows
      /\ Action(r) # Action(First)
  BY RunningPlace
<1>2. /\ Action(r) \notin JobRows \cup RefundRows
      /\ \A n \in {"customer", "conversation", "opp1", "opp2", "payment", "slot", "collected", "refunded"} :
           /\ The(n) \notin ActionRows \cup JobRows /\ The(n) # Action(r)
           /\ \A m : The(n) = The(m) => n = m
           /\ \A a : The(n) # Refund(a) /\ The(n) # Action(a)
  BY <1>1, RowsApart
<1>3. CASE does \in {"context", "contactable", "automationAllowed", "bookable", "slotFree", "original",
                        "refundable", "stageFree", "reference"}
  BY <1>3, WritesIs, NoRowsEmpty
<1>4. CASE does \in {"retireAutomated", "retireHandoff", "retireStopped"}
  <2>1. PICK S \in SUBSET found : W = Put(S, "CANCELLED")
    <3>1. CASE does = "retireAutomated"
      BY <3>1, WritesIs
    <3>2. CASE does = "retireHandoff"
      BY <3>2, WritesIs
    <3>3. CASE does = "retireStopped"
      BY <3>3, WritesIs
    <3>4. QED
      BY <1>4, <3>1, <3>2, <3>3
  <2>2. found \subseteq ActionRows /\ \A row \in found : Then(r, row) \in Live
    BY <1>4, FoundIs DEF Automated, Live
  <2> HIDE DEF W, found
  <2>3. rows = S /\ \A row \in S : row # Action(r)
    BY <2>1, <2>2, RetireWrites
  <2>4. QED
    BY <1>2, <1>4, <2>2, <2>3 DEF W
<1>5. CASE does \in {"cancelJobs", "insertJob"}
  <2>1. PICK S, v : S \in SUBSET JobRows /\ W = Put(S, v)
    <3>1. CASE does = "cancelJobs"
      <4>1. W = Put({row \in found : Now(r, row) = "scheduled"}, "cancelled") /\ found \subseteq JobRows
        BY <3>1, WritesIs, FoundIs
      <4> DEFINE S == {row \in found : Now(r, row) = "scheduled"}
      <4>2. S \in SUBSET JobRows /\ W = Put(S, "cancelled")
        BY <4>1
      <4> HIDE DEF S
      <4>3. QED
        BY <4>2
    <3>2. CASE does = "insertJob"
      <4>1. W = Put({Job(r)}, "scheduled")
        BY <3>2, WritesIs
      <4>2. Job(r) \in JobRows
        BY <1>1 DEF JobRows, RowIds
      <4>3. QED
        BY <4>1, <4>2
    <3>3. QED
      BY <1>5, <3>1, <3>2
  <2> HIDE DEF W
  <2>2. rows \subseteq JobRows
    BY <2>1, PutRows
  <2>3. QED
    BY <1>2, <1>5, <2>2 DEF W
<1>6. CASE does \in {"approve", "stop", "requireHuman", "atRisk"}
  <2>1. found \subseteq {The("opp1")}
    BY <1>1, <1>6, Statements, FoundIs DEF Lock, Update, Read
  <2>2. W = [row \in {row \in found : Matches(does, Now(r, row))} |-> MovedBy(does, Now(r, row))]
    BY <1>6, WritesIs
  <2> HIDE DEF found
  <2>3. rows \subseteq found
    BY <2>2
  <2> HIDE DEF W
  <2>4. QED
    BY <1>2, <1>6, <2>1, <2>3 DEF W
<1>7. CASE does \in {"blockContact", "takeOver", "resume", "insertStage", "attribute"}
  <2>1. PICK n \in {"customer", "conversation", "collected", "refunded", "opp1"} :
          /\ found = {The(n)}
          /\ does = "blockContact" => n = "customer"
          /\ does = "insertStage" => n \in {"collected", "refunded"}
          /\ does = "attribute" => n = "opp1"
          /\ n = "conversation" => does \in {"takeOver", "resume"}
    BY <1>1, <1>7, Statements, FoundIs DEF Lock, Update, Read
  <2>2. \E v : W = Put({The(n)}, v)
    <3>1. CASE does = "blockContact"
      BY <2>1, <3>1, WritesIs
    <3>2. CASE does = "takeOver"
      BY <2>1, <3>2, WritesIs
    <3>3. CASE does = "resume"
      BY <2>1, <3>3, WritesIs
    <3>4. CASE does = "insertStage"
      BY <2>1, <3>4, WritesIs
    <3>5. CASE does = "attribute"
      BY <2>1, <3>5, WritesIs, Zenon
    <3>6. QED
      BY <1>7, <3>1, <3>2, <3>3, <3>4, <3>5
  <2> HIDE DEF W, found
  <2>3. rows = {The(n)}
    BY <2>2, PutRows
  <2>4. n = "opp1" => does = "attribute"
    BY <1>1, <1>2, <1>7, <2>1, Statements, FoundIs DEF Lock, Update, Read, found
  <2> HIDE DEF does
  <2>5. QED
    BY <1>2, <1>7, <2>1, <2>3, <2>4 DEF W, does
<1>8. CASE does = "message"
  <2>1. op = "respond"
    BY <1>1, <1>8, Statements DEF Lock, Update, Read
  <2>2. W = Put({Mine(op)}, MovedBy(does, Now(r, Mine(op))))
    BY <1>8, WritesIs, Zenon
  <2> HIDE DEF W
  <2>3. rows = {The("opp1")}
    BY <2>1, <2>2, PutRows DEF Mine
  <2>4. QED
    BY <1>2, <1>8, <2>3 DEF W
<1>9. CASE does = "insertRefund"
  <2>1. W = Put({Refund(r)}, "COLLECTED")
    BY <1>9, WritesIs
  <2> HIDE DEF W
  <2>2. rows = {Refund(r)}
    BY <2>1, PutRows
  <2>3. Action(r) # Refund(r)
    BY RowsApart
  <2>4. QED
    BY <1>2, <1>9, <2>2, <2>3 DEF W
<1>10. CASE does = "insertSlot"
  <2>1. op \in {"book1", "book2"} /\ found = {The("slot")}
    BY <1>1, <1>10, Statements, FoundIs DEF Lock, Update, Read
  <2>2. W = Over(Put({Mine(op)}, MovedBy(does, Now(r, Mine(op)))), Put(found, r))
    BY <1>10, WritesIs, Zenon
  <2> DEFINE v == MovedBy(does, Now(r, Mine(op)))
  <2>3. W = Over(Put({Mine(op)}, v), Put(found, r))
    BY <2>2
  <2> HIDE DEF W, v
  <2>4. rows = {Mine(op), The("slot")}
    <3>1. DOMAIN Put({Mine(op)}, v) = {Mine(op)} /\ DOMAIN Put(found, r) = found
      BY PutRows
    <3>2. DOMAIN Over(Put({Mine(op)}, v), Put(found, r)) = DOMAIN Put({Mine(op)}, v) \cup DOMAIN Put(found, r)
      BY OverRows
    <3>3. QED
      BY <2>1, <2>3, <3>1, <3>2
  <2>5. Mine(op) = The("opp1") \/ (Mine(op) = The("opp2") /\ op = "book2")
    BY DEF Mine
  <2>6. op # "book1" => Mine(op) = The("opp2")
    BY <2>1 DEF Mine
  <2>7. QED
    BY <1>2, <1>10, <2>1, <2>4, <2>5, <2>6 DEF W
<1>11. CASE does = "approvable"
  <2>1. W = Put({Action(First)}, "READY")
    BY <1>11, WritesIs
  <2> HIDE DEF W
  <2>2. rows = {Action(First)}
    BY <2>1, PutRows
  <2>3. QED
    BY <1>1, <1>2, <1>11, <2>2 DEF W
<1>12. CASE does = "evaluate"
  <2>1. op = "evaluate"
    BY <1>1, <1>12, Statements DEF Lock, Update, Read
  <2> DEFINE observed == Observation(txn[r].context, Now(r, Mine(op)))
             x == RecoveryActionStatus(observed)
             v == [Now(r, Mine(op)) EXCEPT !.recovery = RecoveryStateAfterDecision(observed)]
             S == {row \in found : Now(r, row) \in Live}
  <2>2. W = Over(Put({Action(r)}, x), Over(Put({Mine(op)}, v), Put(S, "CANCELLED")))
    BY <1>12, WritesIs, Zenon
  <2>3. S \subseteq ActionRows
    BY <1>12, FoundIs
  <2> HIDE DEF W, x, v, S
  <2>4. rows = {Action(r)} \cup ({The("opp1")} \cup S)
    <3> DEFINE X == Put({Action(r)}, x)
               V == Put({Mine(op)}, v)
               U == Put(S, "CANCELLED")
    <3>1. Mine(op) = The("opp1")
      BY <2>1 DEF Mine
    <3>2. DOMAIN X = {Action(r)} /\ DOMAIN V = {The("opp1")} /\ DOMAIN U = S
      BY <3>1, PutRows
    <3>3. W = Over(X, Over(V, U))
      BY <2>2
    <3> HIDE DEF X, V, U
    <3>4. DOMAIN Over(V, U) = DOMAIN V \cup DOMAIN U
      BY OverRows
    <3>5. DOMAIN Over(X, Over(V, U)) = DOMAIN X \cup DOMAIN Over(V, U)
      BY OverRows
    <3>6. QED
      BY <3>2, <3>3, <3>4, <3>5
  <2>5. QED
    BY <1>2, <1>12, <2>3, <2>4 DEF W
<1>13. QED
  <2>1. does \in {"context", "contactable", "automationAllowed", "bookable", "slotFree", "original",
                     "refundable", "stageFree", "reference", "retireAutomated", "retireHandoff", "retireStopped",
                     "cancelJobs", "insertJob", "approve", "stop", "requireHuman", "atRisk", "blockContact",
                     "takeOver", "resume", "insertStage", "attribute", "message", "insertRefund", "insertSlot",
                     "approvable", "evaluate"}
    BY <1>1, Statements DEF Lock, Update, Read
  <2>2. QED
    BY <1>3, <1>4, <1>5, <1>6, <1>7, <1>8, <1>9, <1>10, <1>11, <1>12, <2>1

\* The policy suppresses a stopped opportunity and automates none that a human has.
LEMMA PolicyOnRetaken ==
  ASSUME NEW context, NEW opp \in OppType
  PROVE  LET observed == Observation(context, opp) IN
    /\ opp.status = "DO_NOT_CONTACT" => RecoveryActionStatus(observed) = "SUPPRESSED"
    /\ Retaken(opp) => RecoveryActionStatus(observed) \notin Automated
    /\ opp.recovery = "HUMAN_REQUIRED" /\ context.customer # "BLOCKED" /\ opp.status # "DO_NOT_CONTACT" =>
         RecoveryStateAfterDecision(observed) = "HUMAN_REQUIRED"
<1> DEFINE observed == Observation(context, opp)
<1>1. /\ observed.status = opp.status /\ observed.recovery = opp.recovery
      /\ observed.handoff = (context.mode = "HUMAN_ACTIVE") /\ observed.rejected = FALSE
      /\ observed.optedOut = (context.customer = "BLOCKED")
      /\ observed.operational = (context.customer # "BLOCKED")
      /\ observed.missedCall = FALSE /\ observed.estimate = FALSE
  BY DEF Observation
<1>2. opp.status \in {"CONTACTING", "ENGAGED", "BOOKED", "DO_NOT_CONTACT"}
  BY DEF OppType, OppStatuses
<1> HIDE DEF observed
<1>3. ASSUME opp.status = "DO_NOT_CONTACT" PROVE RecoveryActionStatus(observed) = "SUPPRESSED"
  <2>1. SuppressionReason(observed) \in {"CONTACT_SUPPRESSED", "DO_NOT_CONTACT"}
    BY <1>1, <1>3 DEF SuppressionReason
  <2>2. QED
    BY <2>1 DEF RecoveryActionStatus, NextActionKind, Eligible, None
<1>4. ASSUME opp.recovery = "HUMAN_REQUIRED", context.customer # "BLOCKED", opp.status # "DO_NOT_CONTACT"
      PROVE  RecoveryActionStatus(observed) = "HUMAN_REQUIRED" /\ RecoveryStateAfterDecision(observed) = "HUMAN_REQUIRED"
  <2>1. SuppressionReason(observed) = "HUMAN_TAKEOVER_ACTIVE"
    BY <1>1, <1>2, <1>4 DEF SuppressionReason, HasRejection, HumanInvolved
  <2>2. QED
    BY <2>1 DEF RecoveryActionStatus, NextActionKind, RecoveryStateAfterDecision
<1>5. ASSUME context.customer = "BLOCKED" PROVE RecoveryActionStatus(observed) = "SUPPRESSED"
  <2>1. SuppressionReason(observed) = "CONTACT_SUPPRESSED"
    BY <1>1, <1>5 DEF SuppressionReason
  <2>2. QED
    BY <2>1 DEF RecoveryActionStatus, NextActionKind, Eligible, None
<1>6. ASSUME opp.status = "BOOKED" PROVE RecoveryActionStatus(observed) \in {"SUPPRESSED", "HUMAN_REQUIRED"}
  <2>1. ~Eligible(observed)
    BY <1>1, <1>6 DEF Eligible, ChoosePlay
  <2>2. QED
    BY <2>1 DEF RecoveryActionStatus
<1>7. Retaken(opp) => RecoveryActionStatus(observed) \notin Automated
  BY <1>3, <1>4, <1>5, <1>6 DEF Retaken, Automated, Live
<1>8. QED
  BY <1>3, <1>4, <1>7 DEF observed

\* The opportunity as a transaction has it.
LEMMA NowOpportunity ==
  ASSUME NEW r, Running(r)
  PROVE  LET opp == Now(r, The("opp1")) IN
    /\ opp \in OppType
    /\ db[The("opp1")].status = "DO_NOT_CONTACT" => opp.status = "DO_NOT_CONTACT"
    /\ opp.status = "DO_NOT_CONTACT" => db[The("opp1")].status = "DO_NOT_CONTACT" \/ txn[r].op = "optOut"
    /\ txn[r].op # "takeover" /\ Has(txn[r], db, The("conversation")) = "HUMAN_ACTIVE" => Retaken(opp)
<1>1. Sound(r, txn[r], db, HeldBy(r)) /\ CommittedRows(db)
  BY DEF Running, TInv
<1>2. Now(r, The("opp1")) \in OppType
  BY RunningPlace, SeenRows DEF Fits
<1>3. CASE The("opp1") \in DOMAIN txn[r].wrote
  <2>1. Now(r, The("opp1")) = txn[r].wrote[The("opp1")]
    BY <1>3 DEF Now
  <2>2. QED
    BY <1>1, <1>2, <1>3, <2>1 DEF Sound, WroteOpportunity
<1>4. CASE The("opp1") \notin DOMAIN txn[r].wrote
  <2>1. Now(r, The("opp1")) = db[The("opp1")]
    BY <1>4 DEF Now
  <2>2. ASSUME txn[r].op # "takeover", Has(txn[r], db, The("conversation")) = "HUMAN_ACTIVE"
        PROVE  Retaken(db[The("opp1")])
    <3>1. The("conversation") \notin DOMAIN txn[r].wrote
      BY <1>1, <2>2 DEF Sound, WroteTable, Has
    <3>2. QED
      BY <1>1, <2>2, <3>1 DEF Has, CommittedRows
  <2>3. QED
    BY <1>2, <2>1, <2>2
<1>5. QED
  BY <1>3, <1>4

\* What a statement makes of the opportunity.
LEMMA OpportunityWrites ==
  ASSUME NEW r, Running(r), NEW late \in BOOLEAN, ~Refuses(r, late), The("opp1") \in DOMAIN Writes(r)
  PROVE  LET opp == Writes(r)[The("opp1")] IN
    /\ db[The("opp1")].status = "DO_NOT_CONTACT" => opp.status = "DO_NOT_CONTACT"
    /\ opp.status = "DO_NOT_CONTACT" => db[The("opp1")].status = "DO_NOT_CONTACT" \/ txn[r].op = "optOut"
    /\ Has(txn[r], db, The("conversation")) = "HUMAN_ACTIVE" => Retaken(opp)
<1> DEFINE t == txn[r]
           does == Statement(r).does
           found == Found(r)
           cur == Now(r, The("opp1"))
           new == Writes(r)[The("opp1")]
           free == db[The("opp1")].status # "DO_NOT_CONTACT"
           taken == Has(t, db, The("conversation")) = "HUMAN_ACTIVE"
<1>1. Sound(r, t, db, HeldBy(r)) /\ CommittedRows(db) /\ t.pc = "run"
  BY DEF Running, TInv
<1>2. t.op \in Operations /\ t.at \in 1 .. Len(Plan(t.op)) /\ Action(First) \in ActionRows /\ Action(First) # Action(r)
  BY RunningPlace
<1>3. /\ cur \in OppType
      /\ ~free => cur.status = "DO_NOT_CONTACT"
      /\ cur.status = "DO_NOT_CONTACT" => ~free \/ t.op = "optOut"
      /\ t.op # "takeover" /\ taken => Retaken(cur)
  BY NowOpportunity
<1>4. /\ cur = [status |-> cur.status, recovery |-> cur.recovery, attributed |-> cur.attributed]
      /\ cur.status \in {"CONTACTING", "ENGAGED", "BOOKED", "DO_NOT_CONTACT"}
  BY <1>3 DEF OppType, OppStatuses
<1>5. CASE does \in {"approve", "stop", "requireHuman", "atRisk"}
  <2>1. found \subseteq {The("opp1")}
    BY <1>2, <1>5, Statements, FoundIs DEF Lock, Update, Read
  <2>2. Writes(r) = [row \in {row \in found : Matches(does, Now(r, row))} |-> MovedBy(does, Now(r, row))]
    BY <1>5, WritesIs
  <2> HIDE DEF found
  <2>3. new = MovedBy(does, cur) /\ Matches(does, cur)
    BY <2>2
  <2>4. cur.status # "DO_NOT_CONTACT"
    BY <2>3 DEF Matches
  <2> HIDE DEF new, cur
  <2>5. CASE does = "approve"
    <3>1. new = [cur EXCEPT !.recovery = "RECOVERY_ACTIVE"]
      BY <2>3, <2>5, Zenon DEF MovedBy
    <3>2. t.op = "approve" /\ t.at = 2
      BY <1>2, <2>5, Statements DEF Lock, Update, Read
    <3>3. Action(First) \in DOMAIN t.wrote /\ t.wrote[Action(First)] = "READY"
      BY <1>1, <3>2 DEF Sound, Place
    <3>4. db[Action(First)] \in Automated
      BY <1>1, <1>2, <3>3 DEF Sound, WroteActions
    <3>5. The("conversation") \notin DOMAIN t.wrote
      BY <1>1, <3>2 DEF Sound, WroteTable
    <3>6. ~taken
      BY <1>1, <1>2, <3>4, <3>5 DEF Has, CommittedRows
    <3> HIDE DEF taken
    <3>7. QED
      BY <1>3, <1>4, <2>4, <3>1, <3>6 DEF taken, new
  <2>6. CASE does = "stop"
    <3>1. new = [cur EXCEPT !.status = "DO_NOT_CONTACT", !.recovery = "STOPPED"]
      BY <2>3, <2>6, Zenon DEF MovedBy
    <3>2. t.op = "optOut"
      BY <1>2, <2>6, Statements DEF Lock, Update, Read
    <3>3. QED
      BY <1>4, <3>1, <3>2 DEF Retaken, new
  <2>7. CASE does = "requireHuman"
    <3>1. new = [cur EXCEPT !.recovery = "HUMAN_REQUIRED"]
      BY <2>3, <2>7, Zenon DEF MovedBy
    <3>2. QED
      BY <1>3, <1>4, <2>4, <3>1 DEF Retaken, new
  <2>8. CASE does = "atRisk"
    <3>1. new = [cur EXCEPT !.recovery = "AT_RISK"]
      BY <2>3, <2>8, Zenon DEF MovedBy
    <3>2. t.op = "resume" /\ t.at = 2
      BY <1>2, <2>8, Statements DEF Lock, Update, Read
    <3>3. The("conversation") \in DOMAIN t.wrote
      BY <1>1, <3>2 DEF Sound, Place, AtOrPast
    <3>4. ~taken
      BY <1>1, <3>2, <3>3 DEF Sound, WroteTable, Has
    <3> HIDE DEF taken
    <3>5. QED
      BY <1>3, <1>4, <2>4, <3>1, <3>4 DEF taken, new
  <2>9. QED
    BY <1>5, <2>5, <2>6, <2>7, <2>8
<1>6. CASE does = "attribute"
  <2>1. found = {The("opp1")} /\ t.op \in {"collected", "refunded"}
    BY <1>2, <1>6, Statements, FoundIs DEF Lock, Update, Read
  <2> DEFINE v == [cur EXCEPT !.attributed = NetCollected(Then(r, The("collected")), Then(r, The("refunded")))]
  <2>2. Mine(t.op) = The("opp1")
    BY <2>1 DEF Mine
  <2>3. Writes(r) = Put(found, v)
    BY <1>6, <2>2, WritesIs, Zenon
  <2> HIDE DEF v
  <2>4. new = v
    BY <2>1, <2>3, PutRows
  <2> HIDE DEF new, cur
  <2>5. new.status = cur.status /\ new.recovery = cur.recovery
    BY <1>4, <2>4 DEF v
  <2> HIDE DEF taken
  <2>6. QED
    BY <1>3, <2>1, <2>5 DEF Retaken, taken, new
<1>7. CASE does = "message"
  <2>1. t.op = "respond" /\ t.at = 2 /\ Mine(t.op) = The("opp1")
    BY <1>2, <1>7, Statements DEF Lock, Update, Read, Mine
  <2> DEFINE v == MovedBy("message", cur)
  <2>2. Writes(r) = Put({The("opp1")}, v)
    BY <1>7, <2>1, WritesIs, Zenon
  <2>3. v = [cur EXCEPT !.status = IF @ \in {"NEW", "CONTACTING"} THEN "ENGAGED" ELSE @,
                        !.recovery = IF @ = "HUMAN_REQUIRED" THEN @ ELSE "NOT_AT_RISK"]
    BY Zenon DEF MovedBy
  <2>4. free
    BY <1>1, <2>1 DEF Sound, Place, AtOrPast
  <2> HIDE DEF v, cur
  <2>5. new = v
    BY <2>2, PutRows
  <2> HIDE DEF new, free, taken
  <2>6. /\ new.status = IF cur.status \in {"NEW", "CONTACTING"} THEN "ENGAGED" ELSE cur.status
        /\ new.recovery = IF cur.recovery = "HUMAN_REQUIRED" THEN "HUMAN_REQUIRED" ELSE "NOT_AT_RISK"
    BY <1>4, <2>3, <2>5
  <2>7. QED
    BY <1>3, <1>4, <2>1, <2>4, <2>6 DEF Retaken, new, free, taken
<1>8. CASE does = "insertSlot" /\ t.op = "book1"
  <2>1. t.at = 3 /\ Mine(t.op) = The("opp1") /\ found = {The("slot")}
    BY <1>2, <1>8, Statements, FoundIs DEF Lock, Update, Read, Mine
  <2> DEFINE v == MovedBy("insertSlot", cur)
             V == Put({The("opp1")}, v)
             U == Put(found, r)
  <2>2. Writes(r) = Over(V, U)
    BY <1>8, <2>1, WritesIs, Zenon
  <2>3. v = [cur EXCEPT !.status = "BOOKED",
                        !.recovery = IF @ \in {"AT_RISK", "RECOVERY_ACTIVE", "WAITING_FOR_CUSTOMER"}
                                     THEN "RECOVERED" ELSE "NOT_AT_RISK"]
    BY Zenon DEF MovedBy
  <2>4. free
    BY <1>1, <1>8, <2>1 DEF Sound, Place, AtOrPast
  <2> HIDE DEF v, cur
  <2>5. The("opp1") \in DOMAIN V /\ V[The("opp1")] = v
    BY PutRows
  <2> HIDE DEF V, U
  <2>6. new = v
    BY <2>2, <2>5, OverLeft
  <2> HIDE DEF new, free, taken
  <2>7. new.status = "BOOKED"
    BY <1>4, <2>3, <2>6
  <2>8. QED
    BY <2>4, <2>7 DEF Retaken, new, free, taken
<1>9. CASE does = "evaluate"
  <2> DEFINE observed == Observation(t.context, cur)
             v == [cur EXCEPT !.recovery = RecoveryStateAfterDecision(observed)]
             X == Put({Action(r)}, RecoveryActionStatus(observed))
             V == Put({The("opp1")}, v)
             U == Put({row \in found : Now(r, row) \in Live}, "CANCELLED")
  <2>1. t.op = "evaluate" /\ t.at = 2 /\ Mine(t.op) = The("opp1")
    BY <1>2, <1>9, Statements DEF Lock, Update, Read, Mine
  <2>2. Writes(r) = Over(X, Over(V, U))
    BY <1>9, <2>1, WritesIs, Zenon
  <2>3. t.context.customer = "BLOCKED" => ~free
    BY <1>1, <2>1 DEF Sound, Place, AtOrPast
  <2>4. cur.recovery = "HUMAN_REQUIRED" /\ t.context.customer # "BLOCKED" /\ cur.status # "DO_NOT_CONTACT" =>
          RecoveryStateAfterDecision(observed) = "HUMAN_REQUIRED"
    BY <1>3, PolicyOnRetaken
  <2>5. new = v
    <3>1. DOMAIN X = {Action(r)} /\ The("opp1") \notin {Action(r)}
      BY PutRows, RowsApart
    <3>2. The("opp1") \in DOMAIN V /\ V[The("opp1")] = v
      BY PutRows
    <3> HIDE DEF X, V, U, v
    <3>3. The("opp1") \in DOMAIN Over(V, U) /\ Over(V, U)[The("opp1")] = v
      BY <3>2, OverLeft
    <3> DEFINE Y == Over(V, U)
    <3>4. The("opp1") \in DOMAIN Y /\ Y[The("opp1")] = v /\ Writes(r) = Over(X, Y)
      BY <2>2, <3>3
    <3> HIDE DEF Y
    <3>5. QED
      BY <3>1, <3>4, OverRight
  <2> HIDE DEF new, cur, observed
  <2>6. new.status = cur.status /\ new.recovery = RecoveryStateAfterDecision(observed)
    BY <1>4, <2>5
  <2> HIDE DEF free, taken
  <2>7. QED
    BY <1>3, <2>1, <2>3, <2>4, <2>6 DEF Retaken, new, free, taken
<1>10. QED
  BY <1>5, <1>6, <1>7, <1>8, <1>9, WritesDomain

\* An action that an evaluation creates live replaces every other, of an opportunity that may be
\* contacted; an automated one, of a conversation that no human has.
LEMMA EvaluateCreates ==
  ASSUME NEW r, Running(r), Statement(r).does = "evaluate",
         NEW w, w = Over(Writes(r), txn[r].wrote), w[Action(r)] \in Live
  PROVE  /\ db[The("opp1")].status # "DO_NOT_CONTACT"
         /\ \A row \in ActionRows : db[row] \in Live => row \in DOMAIN w /\ w[row] = "CANCELLED"
         /\ w[Action(r)] \in Automated => db[The("conversation")] # "HUMAN_ACTIVE"
<1> DEFINE t == txn[r]
           found == Found(r)
           cur == Now(r, The("opp1"))
           observed == Observation(t.context, cur)
           v == [cur EXCEPT !.recovery = RecoveryStateAfterDecision(observed)]
           S == {row \in found : Now(r, row) \in Live}
           X == Put({Action(r)}, RecoveryActionStatus(observed))
           V == Put({The("opp1")}, v)
           U == Put(S, "CANCELLED")
<1>1. Sound(r, t, db, HeldBy(r)) /\ CommittedRows(db) /\ t.pc = "run"
  BY DEF Running, TInv
<1>2. /\ t.op \in Operations /\ t.at \in 1 .. Len(Plan(t.op)) /\ Action(r) \notin DOMAIN t.wrote
      /\ db[Action(r)] = Absent
  BY RunningPlace
<1>3. t.op = "evaluate" /\ t.at = 2 /\ Mine(t.op) = The("opp1")
  BY <1>2, Statements DEF Lock, Update, Read, Mine
<1>4. Writes(r) = Over(X, Over(V, U))
  BY <1>3, WritesIs, Zenon
<1>5. The("opp1") \in HeldBy(r)
  BY <1>1, <1>3 DEF Sound, Holding, AtOrPast
<1>6. found = {row \in ActionRows : Then(r, row) \in Live}
  BY FoundIs
<1>7. w[Action(r)] = RecoveryActionStatus(observed)
  <2>1. Action(r) \in DOMAIN X /\ X[Action(r)] = RecoveryActionStatus(observed)
    BY PutRows
  <2> HIDE DEF X
  <2> DEFINE Y == Over(V, U)
  <2> HIDE DEF Y
  <2>2. Action(r) \in DOMAIN Over(X, Y) /\ Over(X, Y)[Action(r)] = RecoveryActionStatus(observed)
    BY <2>1, OverLeft
  <2>3. QED
    BY <1>4, <2>2, OverLeft DEF Y
<1>8. \A row \in S : row # Action(r) /\ row # The("opp1") => row \in DOMAIN Writes(r) /\ Writes(r)[row] = "CANCELLED"
  <2>1. DOMAIN X = {Action(r)} /\ DOMAIN V = {The("opp1")} /\ \A row \in S : row \in DOMAIN U /\ U[row] = "CANCELLED"
    BY PutRows
  <2> HIDE DEF X, V, U, S
  <2>2. \A row \in S : row # The("opp1") => row \in DOMAIN Over(V, U) /\ Over(V, U)[row] = "CANCELLED"
    BY <2>1, OverRight
  <2> DEFINE Y == Over(V, U)
  <2>3. \A row \in S : row # The("opp1") => row \in DOMAIN Y /\ Y[row] = "CANCELLED"
    BY <2>2
  <2>4. Writes(r) = Over(X, Y)
    BY <1>4
  <2> HIDE DEF Y
  <2>5. QED
    BY <2>1, <2>3, <2>4, OverRight
<1>9. cur \in OppType
  BY NowOpportunity
<1>10. db[The("opp1")].status # "DO_NOT_CONTACT"
  <2>1. ASSUME db[The("opp1")].status = "DO_NOT_CONTACT" PROVE FALSE
    <3>1. RecoveryActionStatus(observed) = "SUPPRESSED"
      BY <1>9, <2>1, NowOpportunity, PolicyOnRetaken
    <3>2. QED
      BY <1>7, <3>1 DEF Live
  <2>2. QED
    BY <2>1
<1>11. ASSUME NEW row \in ActionRows, db[row] \in Live
       PROVE  row \in DOMAIN w /\ w[row] = "CANCELLED"
  <2>1. row # Action(r) /\ row # The("opp1")
    BY <1>2, <1>11, RowsApart DEF Live, Absent
  <2>2. CASE Now(r, row) \in Live
    <3>1. row \in S
      BY <1>5, <1>6, <2>2, SeenRows
    <3>2. QED
      BY <1>8, <2>1, <3>1, OverLeft
  <2>3. CASE Now(r, row) \notin Live
    <3>1. row \in DOMAIN t.wrote
      BY <1>11, <2>3 DEF Now
    <3>2. t.wrote[row] = "CANCELLED"
      BY <1>1, <1>3, <2>1, <3>1 DEF Sound, WroteActions
    <3>3. row \notin S
      BY <2>3
    <3>4. CASE row \in DOMAIN Writes(r)
      <4>1. DOMAIN X = {Action(r)} /\ DOMAIN V = {The("opp1")} /\ DOMAIN U = S
        BY PutRows
      <4>2. DOMAIN Over(V, U) = DOMAIN V \cup DOMAIN U
        BY OverRows
      <4>3. DOMAIN Over(X, Over(V, U)) = DOMAIN X \cup DOMAIN Over(V, U)
        BY OverRows
      <4>4. QED
        BY <1>4, <2>1, <3>3, <3>4, <4>1, <4>2, <4>3
    <3>5. CASE row \notin DOMAIN Writes(r)
      BY <3>1, <3>2, <3>5, OverRight
    <3>6. QED
      BY <3>4, <3>5
  <2>4. QED
    BY <2>2, <2>3
<1>12. ASSUME w[Action(r)] \in Automated
       PROVE  db[The("conversation")] # "HUMAN_ACTIVE"
  <2>1. ~Retaken(cur)
    BY <1>7, <1>9, <1>12, PolicyOnRetaken
  <2>2. Has(t, db, The("conversation")) # "HUMAN_ACTIVE"
    BY <1>3, <2>1, NowOpportunity
  <2>3. The("conversation") \notin DOMAIN t.wrote
    BY <1>1, <1>3 DEF Sound, WroteTable
  <2>4. QED
    BY <2>2, <2>3 DEF Has
<1>13. QED
  BY <1>10, <1>11, <1>12

-----------------------------------------------------------------------------
(* A statement is executed.                                                *)

\* The state in which r's statement neither throws nor violates a constraint.
Executing(r, late) ==
  Running(r) /\ late \in BOOLEAN /\ ~Refuses(r, late) /\ ~Violates(r)

\* The transaction after its statement.
LEMMA RanFields ==
  ASSUME NEW r, Running(r), NEW done \in BOOLEAN
  PROVE  LET t == Ran(r, done)
             last == done \/ txn[r].at = Len(Plan(txn[r].op))
         IN  /\ t.op = txn[r].op /\ t.key = txn[r].key /\ t.view = NoRows /\ t.answer = "none"
             /\ t.pc = IF last THEN "finish" ELSE "run"
             /\ t.at = IF last THEN txn[r].at ELSE txn[r].at + 1
             /\ t.wrote = IF done THEN txn[r].wrote ELSE Over(Writes(r), txn[r].wrote)
             /\ Statement(r).does # "context" => t.context = txn[r].context
             /\ Statement(r).does = "context" => t.context.customer = Then(r, The("customer"))
             /\ t.context = [customer |-> t.context.customer, mode |-> t.context.mode]
             /\ t = [op |-> t.op, key |-> t.key, pc |-> t.pc, at |-> t.at, view |-> t.view,
                     context |-> t.context, wrote |-> t.wrote, answer |-> t.answer]
<1>1. txn[r].answer = "none" /\ txn[r].context = [customer |-> txn[r].context.customer, mode |-> txn[r].context.mode]
  BY RunningPlace DEF Running, TInv, Sound, Shape
<1>2. QED
  BY <1>1 DEF Ran

\* What was written is still written, and a row that the statement leaves alone is as it was.
LEMMA RanKeeps ==
  ASSUME NEW r, Running(r), NEW done \in BOOLEAN
  PROVE  LET t == Ran(r, done) IN
         /\ DOMAIN txn[r].wrote \subseteq DOMAIN t.wrote
         /\ \A row : done \/ row \notin DOMAIN Writes(r) =>
              /\ row \in DOMAIN t.wrote <=> row \in DOMAIN txn[r].wrote
              /\ Has(t, db, row) = Has(txn[r], db, row)
              /\ row \in DOMAIN txn[r].wrote => t.wrote[row] = txn[r].wrote[row]
         /\ ~done => \A row \in DOMAIN Writes(r) :
              row \in DOMAIN t.wrote /\ t.wrote[row] = Writes(r)[row] /\ Has(t, db, row) = Writes(r)[row]
<1> DEFINE t == Ran(r, done)
           V == Writes(r)
           w == txn[r].wrote
<1>1. t.wrote = IF done THEN w ELSE Over(V, w)
  BY RanFields
<1> HIDE DEF t, V, w
<1>2. CASE done
  BY <1>1, <1>2 DEF Has, t, V, w
<1>3. CASE ~done
  <2>1. t.wrote = Over(V, w)
    BY <1>1, <1>3
  <2>a. /\ DOMAIN Over(V, w) = DOMAIN V \cup DOMAIN w
        /\ \A x \in DOMAIN V : Over(V, w)[x] = V[x]
        /\ \A x \in DOMAIN w : x \notin DOMAIN V => Over(V, w)[x] = w[x]
    BY OverRows
  <2>2. /\ DOMAIN t.wrote = DOMAIN V \cup DOMAIN w
        /\ \A x \in DOMAIN V : t.wrote[x] = V[x]
        /\ \A x \in DOMAIN w : x \notin DOMAIN V => t.wrote[x] = w[x]
    BY <2>1, <2>a
  <2>3. \A row : row \in DOMAIN t.wrote => Has(t, db, row) = t.wrote[row]
    BY DEF Has
  <2>4. \A row : row \notin DOMAIN t.wrote => Has(t, db, row) = db[row]
    BY DEF Has
  <2>5. \A row : Has(txn[r], db, row) = IF row \in DOMAIN w THEN w[row] ELSE db[row]
    BY DEF Has, w
  <2>6. QED
    BY <1>3, <2>2, <2>3, <2>4, <2>5 DEF t, V, w
<1>4. QED
  BY <1>2, <1>3

\* The rows of actions after a statement that retires the statuses in X.
LEMMA RetiredAreGone ==
  ASSUME NEW r, Running(r), NEW X \in {Live, Automated}, The("opp1") \in HeldBy(r),
         Writes(r) = Put({row \in {row \in ActionRows : Then(r, row) \in X} : Now(r, row) \in X}, "CANCELLED")
  PROVE  \A row \in ActionRows : Has(Ran(r, FALSE), db, row) \notin X
<1> DEFINE S == {row \in {row \in ActionRows : Then(r, row) \in X} : Now(r, row) \in X}
<1>1. DOMAIN Writes(r) = S /\ \A row \in S : Writes(r)[row] = "CANCELLED"
  BY PutRows
<1>2. ASSUME NEW row \in ActionRows
      PROVE  Has(Ran(r, FALSE), db, row) \notin X
  <2>1. CASE row \in S
    BY <1>1, <2>1, RanKeeps DEF Live, Automated
  <2>2. CASE row \notin S
    <3>1. Now(r, row) \notin X
      BY <2>2, SeenRows
    <3> HIDE DEF S
    <3>a. row \notin DOMAIN Writes(r)
      BY <1>1, <2>2
    <3>b. \A x : x \notin DOMAIN Writes(r) => Has(Ran(r, FALSE), db, x) = Has(txn[r], db, x)
      BY RanKeeps
    <3>c. \A x : Now(r, x) = Has(txn[r], db, x)
      BY SeenRows
    <3>2. Has(Ran(r, FALSE), db, row) = Now(r, row)
      BY <3>a, <3>b, <3>c
    <3>3. QED
      BY <3>1, <3>2
  <2>3. QED
    BY <2>1, <2>2
<1>3. QED
  BY <1>2

\* A stopped opportunity has no live actions, whoever looks.
LEMMA StoppedIsQuiet ==
  ASSUME NEW r, Running(r), txn[r].op # "approve", db[The("opp1")].status = "DO_NOT_CONTACT"
  PROVE  \A row \in ActionRows : Has(txn[r], db, row) \notin Live
<1>1. Sound(r, txn[r], db, HeldBy(r)) /\ CommittedRows(db) /\ Action(r) \notin DOMAIN txn[r].wrote
  BY RunningPlace DEF Running, TInv
<1>2. ASSUME NEW row \in ActionRows
      PROVE  Has(txn[r], db, row) \notin Live
  <2>1. CASE row \in DOMAIN txn[r].wrote
    BY <1>1, <2>1 DEF Sound, WroteActions, Has, Live
  <2>2. CASE row \notin DOMAIN txn[r].wrote
    BY <1>1, <2>2 DEF CommittedRows, Has
  <2>3. QED
    BY <2>1, <2>2
<1>3. QED
  BY <1>2

\* The statement before position i has been executed, or was already.
LEMMA RanPast ==
  ASSUME NEW r, Running(r), NEW done \in BOOLEAN, NEW i \in 2 .. 4, AtOrPast(Ran(r, done), i), i <= Len(Plan(txn[r].op))
  PROVE  done \/ txn[r].at >= i \/ txn[r].at = i - 1
<1>1. txn[r].at \in 1 .. Len(Plan(txn[r].op)) /\ txn[r].op \in Operations
  BY RunningPlace
<1> DEFINE t == Ran(r, done)
           last == done \/ txn[r].at = Len(Plan(txn[r].op))
<1>2. t.pc = (IF last THEN "finish" ELSE "run") /\ t.at = (IF last THEN txn[r].at ELSE txn[r].at + 1)
  BY RanFields
<1>3. t.pc = "finish" \/ (t.pc = "run" /\ t.at >= i)
  BY DEF AtOrPast
<1> HIDE DEF t
<1>4. QED
  BY <1>1, <1>2, <1>3

\* Only an approval and an evaluation answer before their last statement.
LEMMA ReturnsAt ==
  ASSUME NEW r, Running(r), NEW late \in BOOLEAN, Returns(r, late)
  PROVE  (txn[r].op = "approve" /\ txn[r].at = 1) \/ (txn[r].op = "evaluate" /\ txn[r].at = 2)
<1>1. Statement(r).does \in {"approvable", "evaluate"}
  BY DEF Returns
<1>2. QED
  BY <1>1, RunningPlace, Statements DEF Lock, Update, Read

\* Refunds are counted.
LEMMA RefundedIsNat ==
  ASSUME NEW d
  PROVE  IsFiniteSet({p \in RowIds : d[Refund(p)] # Absent}) /\ Refunded(d) \in Nat
<1>1. IsFiniteSet({First}) /\ IsFiniteSet(Requests)
  BY FS_Singleton, RequestsAssumption
<1>2. IsFiniteSet(RowIds)
  BY <1>1, FS_Union DEF RowIds
<1>3. IsFiniteSet({p \in RowIds : d[Refund(p)] # Absent})
  BY <1>2, FS_Subset
<1>4. QED
  BY <1>3, FS_CardinalityType DEF Refunded

\* The statements that a request has put behind it are those before its place.
LEMMA RanCases ==
  ASSUME NEW r, Running(r), NEW late \in BOOLEAN, NEW done \in BOOLEAN, done => Returns(r, late),
         NEW i \in 2 .. 4, AtOrPast(Ran(r, done), i), i <= Len(Plan(txn[r].op)),
         txn[r].op \notin {"approve", "evaluate"}
  PROVE  /\ ~done
         /\ AtOrPast(txn[r], i) \/ txn[r].at = i - 1
<1>1. ~done
  BY ReturnsAt
<1>2. QED
  BY <1>1, RanPast DEF AtOrPast, Running

\* An opportunity that opt-out or takeover does not update is stopped already.
LEMMA UpdatedOpportunity ==
  ASSUME NEW r, Running(r), NEW does \in {"stop", "requireHuman"},
         Statement(r) = Lock(does, {"opp1"}, "UPDATE")
  PROVE  /\ The("opp1") \notin DOMAIN Writes(r) => Now(r, The("opp1")).status = "DO_NOT_CONTACT"
         /\ does = "stop" /\ The("opp1") \in DOMAIN Writes(r) =>
              Writes(r)[The("opp1")].status = "DO_NOT_CONTACT"
<1> DEFINE row == The("opp1")
           now == Now(r, row)
           then == Then(r, row)
<1>1. Statement(r).does = does /\ Statement(r).rows = {row}
  BY DEF Lock
<1>2. Found(r) = {x \in {row} : Matches(does, Then(r, x))}
  BY <1>1, FoundIs
<1>3. Writes(r) = [x \in {x \in Found(r) : Matches(does, Now(r, x))} |-> MovedBy(does, Now(r, x))]
  BY <1>1, WritesIs
<1>4. now \in OppType /\ then \in OppType
  BY RunningPlace, SeenRows DEF Fits
<1>5. then.status = "DO_NOT_CONTACT" => now.status = "DO_NOT_CONTACT"
  BY SeenRows
<1>6. now.status # "WON" /\ then.status # "WON"
  BY <1>4 DEF OppType, OppStatuses
<1> HIDE DEF row
<1>7. DOMAIN Writes(r) = {x \in {row} : Matches(does, Then(r, x)) /\ Matches(does, Now(r, x))}
  BY <1>2, <1>3
<1>8. ASSUME row \notin DOMAIN Writes(r) PROVE now.status = "DO_NOT_CONTACT"
  BY <1>5, <1>6, <1>7, <1>8 DEF Matches
<1>9. ASSUME does = "stop", row \in DOMAIN Writes(r) PROVE Writes(r)[row].status = "DO_NOT_CONTACT"
  <2>1. Writes(r)[row] = MovedBy("stop", now)
    BY <1>3, <1>9
  <2>2. MovedBy("stop", now) = [now EXCEPT !.status = "DO_NOT_CONTACT", !.recovery = "STOPPED"]
    BY MovedByIs
  <2>3. now = [status |-> now.status, recovery |-> now.recovery, attributed |-> now.attributed]
    BY <1>4 DEF OppType
  <2>4. QED
    BY <2>1, <2>2, <2>3
<1>10. QED
  BY <1>8, <1>9 DEF row

\* What a transaction has established by its place in the plan is so at the next place.
LEMMA PlaceStep ==
  ASSUME NEW r, NEW late, Executing(r, late), NEW done \in BOOLEAN, done <=> Returns(r, late)
  PROVE  Place(Ran(r, done), db)
<1> DEFINE old == txn[r]
           t == Ran(r, done)
           op == old.op
           at == old.at
           stopped == db[The("opp1")].status = "DO_NOT_CONTACT"
<1>0. Running(r) /\ late \in BOOLEAN /\ ~Refuses(r, late)
  BY DEF Executing
<1>1. /\ Sound(r, old, db, HeldBy(r)) /\ Place(old, db) /\ Holding(r, old, db, HeldBy(r)) /\ old.pc = "run"
      /\ WroteTable(r, op, old.key, old.wrote, db)
  BY <1>0 DEF Running, TInv, Sound
<1>2. op \in Operations /\ at \in 1 .. Len(Plan(op)) /\ The("opp1") \in Rows
  BY <1>0, RunningPlace
<1>len. /\ Len(Plan(op)) \in Nat
        /\ op \in {"evaluate", "approve", "followUp"} => Len(Plan(op)) = 2
        /\ op \in {"resume", "book1", "book2", "refund"} => Len(Plan(op)) = 3
        /\ op \in {"optOut", "respond", "takeover", "collected", "refunded"} => Len(Plan(op)) = 4
  <2> DEFINE o == op
  <2>1. o \in Operations
    BY <1>2
  <2> HIDE DEF o
  <2>2. /\ Len(Plan(o)) \in Nat
        /\ o \in {"evaluate", "approve", "followUp"} => Len(Plan(o)) = 2
        /\ o \in {"resume", "book1", "book2", "refund"} => Len(Plan(o)) = 3
        /\ o \in {"optOut", "respond", "takeover", "collected", "refunded"} => Len(Plan(o)) = 4
    BY <2>1, PlanLengths
  <2>3. QED
    BY <2>2 DEF o
<1>3. t.op = op
  BY <1>0, RanFields
<1>4. /\ op \in {"respond", "book1", "takeover", "resume"} /\ AtOrPast(t, 2) => ~done /\ (AtOrPast(old, 2) \/ at = 1)
      /\ op \in {"optOut", "refund"} /\ AtOrPast(t, 3) => ~done /\ (AtOrPast(old, 3) \/ at = 2)
      /\ op \in {"optOut", "takeover"} /\ AtOrPast(t, 4) => ~done /\ (AtOrPast(old, 4) \/ at = 3)
  <2>1. ASSUME NEW i \in 2 .. 4, AtOrPast(t, i), i <= Len(Plan(op)), op \notin {"approve", "evaluate"}
        PROVE  ~done /\ (AtOrPast(old, i) \/ at = i - 1)
    BY <1>0, <2>1, RanCases
  <2> HIDE DEF t, old, op, at
  <2>2. /\ op \in {"respond", "book1", "takeover", "resume"} => 2 <= Len(Plan(op))
        /\ op \in {"optOut", "refund"} => 3 <= Len(Plan(op))
        /\ op \in {"optOut", "takeover"} => 4 <= Len(Plan(op))
    BY <1>len
  <2>3. op \in {"respond", "book1", "takeover", "resume"} /\ AtOrPast(t, 2) => ~done /\ (AtOrPast(old, 2) \/ at = 1)
    BY <2>1, <2>2
  <2>4. op \in {"optOut", "refund"} /\ AtOrPast(t, 3) => ~done /\ (AtOrPast(old, 3) \/ at = 2)
    BY <2>1, <2>2
  <2>5. op \in {"optOut", "takeover"} /\ AtOrPast(t, 4) => ~done /\ (AtOrPast(old, 4) \/ at = 3)
    BY <2>1, <2>2
  <2>6. QED
    BY <2>3, <2>4, <2>5
<1>5. \A row : done \/ row \notin DOMAIN Writes(r) =>
        /\ row \in DOMAIN t.wrote <=> row \in DOMAIN old.wrote
        /\ Has(t, db, row) = Has(old, db, row)
        /\ row \in DOMAIN old.wrote => t.wrote[row] = old.wrote[row]
  BY <1>0, RanKeeps
<1>6. ~done => \A row \in DOMAIN Writes(r) :
        row \in DOMAIN t.wrote /\ t.wrote[row] = Writes(r)[row] /\ Has(t, db, row) = Writes(r)[row]
  BY <1>0, RanKeeps
<1>7. \A row : Now(r, row) = Has(old, db, row)
  BY <1>0, SeenRows
<1>8. ASSUME op = "evaluate", AtOrPast(t, 2), t.context.customer = "BLOCKED"
      PROVE  stopped
  <2>a. Len(Plan(op)) = 2
    BY <1>8, <1>len
  <2> HIDE DEF at, op
  <2>1. at \in {1, 2}
    BY <1>2, <2>a
  <2> USE DEF at, op
  <2>2. CASE at = 1
    <3>1. Statement(r).does = "context"
      BY <1>2, <1>8, <2>2, Statements DEF Lock, Update, Read
    <3>2. Then(r, The("customer")) = "BLOCKED"
      BY <1>0, <1>8, <3>1, RanFields
    <3>3. The("customer") \notin DOMAIN old.wrote
      BY <1>1, <1>8 DEF WroteTable
    <3>4. QED
      BY <1>0, <3>2, <3>3, SeenRows
  <2>3. CASE at = 2
    <3>1. Statement(r).does = "evaluate"
      BY <1>2, <1>8, <2>3, Statements DEF Lock, Update, Read
    <3>2. old.context.customer = "BLOCKED"
      BY <1>0, <1>8, <3>1, RanFields
    <3>3. QED
      BY <1>1, <1>8, <2>3, <3>2 DEF Place, AtOrPast
  <2>4. QED
    BY <2>1, <2>2, <2>3
<1>9. ASSUME op \in {"respond", "book1"}, AtOrPast(t, 2)
      PROVE  ~stopped
  <2>1. ~done /\ (AtOrPast(old, 2) \/ at = 1)
    BY <1>4, <1>9
  <2>2. CASE AtOrPast(old, 2)
    BY <1>1, <1>9, <2>2 DEF Place
  <2>3. CASE at = 1
    <3>1. Statement(r).does = IF op = "respond" THEN "contactable" ELSE "bookable"
      BY <1>2, <1>9, <2>3, Statements DEF Lock, Update, Read
    <3>2. Mine(op) = The("opp1")
      BY <1>9 DEF Mine
    <3>3. Now(r, The("opp1")).status # "DO_NOT_CONTACT"
      BY <1>0, <1>9, <3>1, <3>2 DEF Refuses, Bookable
    <3>4. QED
      BY <1>0, <3>3, NowOpportunity
  <2>4. QED
    BY <2>1, <2>2, <2>3
<1>10. ASSUME op = "approve", t.pc = "run", t.at = 2
       PROVE  Action(First) \in DOMAIN t.wrote /\ t.wrote[Action(First)] = "READY"
  <2>a. t.at = (IF done \/ at = Len(Plan(op)) THEN at ELSE at + 1)
        /\ t.pc = (IF done \/ at = Len(Plan(op)) THEN "finish" ELSE "run")
    BY <1>0, RanFields
  <2>b. at \in 1 .. 2 /\ Len(Plan(op)) = 2
    BY <1>2, <1>10, <1>len
  <2> HIDE DEF at, t, op
  <2>1. ~done /\ at = 1
    BY <1>10, <2>a, <2>b
  <2> USE DEF at, t, op
  <2>2. Statement(r).does = "approvable"
    BY <1>2, <1>10, <2>1, Statements DEF Lock, Update, Read
  <2>3. Writes(r) = Put({Action(First)}, "READY")
    BY <2>2, WritesIs
  <2>4. Action(First) \in DOMAIN Writes(r) /\ Writes(r)[Action(First)] = "READY"
    BY <2>3, PutRows
  <2>5. QED
    BY <1>6, <2>1, <2>4
<1>11. ASSUME op = "optOut", AtOrPast(t, 3)
       PROVE  Has(t, db, The("opp1")).status = "DO_NOT_CONTACT"
  <2>1. ~done /\ (AtOrPast(old, 3) \/ at = 2)
    BY <1>4, <1>11
  <2>2. CASE at = 2
    <3>1. Statement(r) = Lock("stop", {"opp1"}, "UPDATE")
      BY <1>2, <1>11, <2>2, Statements DEF Lock, Update, Read
    <3>2. /\ The("opp1") \notin DOMAIN Writes(r) => Now(r, The("opp1")).status = "DO_NOT_CONTACT"
          /\ The("opp1") \in DOMAIN Writes(r) => Writes(r)[The("opp1")].status = "DO_NOT_CONTACT"
      BY <1>0, <3>1, UpdatedOpportunity
    <3>3. QED
      BY <1>5, <1>6, <1>7, <2>1, <3>2
  <2>3. CASE AtOrPast(old, 3)
    <3>1. Statement(r).does \in {"retireStopped", "cancelJobs"}
      BY <1>1, <1>2, <1>11, <2>3, Statements DEF Lock, Update, Read, AtOrPast
    <3>2. The("opp1") \notin DOMAIN Writes(r)
      BY <1>0, <3>1, WritesDomain
    <3>3. Has(old, db, The("opp1")).status = "DO_NOT_CONTACT"
      BY <1>1, <1>11, <2>3 DEF Place
    <3>4. QED
      BY <1>5, <3>2, <3>3
  <2>4. QED
    BY <2>1, <2>2, <2>3
<1>12. ASSUME op = "optOut", AtOrPast(t, 4), NEW row \in ActionRows
       PROVE  Has(t, db, row) \notin Live
  <2>1. ~done /\ (AtOrPast(old, 4) \/ at = 3)
    BY <1>4, <1>12
  <2>2. CASE AtOrPast(old, 4)
    <3>1. Statement(r).does = "cancelJobs"
      BY <1>1, <1>2, <1>12, <2>2, Statements DEF Lock, Update, Read, AtOrPast
    <3>2. row \notin DOMAIN Writes(r)
      BY <1>0, <3>1, WritesDomain, RowsApart
    <3>3. Has(old, db, row) \notin Live
      BY <1>1, <1>12, <2>2 DEF Place
    <3>4. QED
      BY <1>5, <3>2, <3>3
  <2>3. CASE at = 3
    <3>1. Statement(r).does = "retireStopped" /\ Mine(op) = The("opp1")
      BY <1>2, <1>12, <2>3, Statements DEF Lock, Update, Read, Mine
    <3>2. CASE The("opp1") \in DOMAIN old.wrote
      <4>1. Writes(r) = Put({x \in Found(r) : Now(r, x) \in Live}, "CANCELLED")
        BY <3>1, <3>2, WritesIs
      <4>2. Found(r) = {x \in ActionRows : Then(r, x) \in Live}
        BY <3>1, FoundIs
      <4>3. The("opp1") \in HeldBy(r)
        BY <1>1, <3>2, RowsApart DEF Holding, Own
      <4>4. \A x \in ActionRows : Has(Ran(r, FALSE), db, x) \notin Live
        BY <1>0, <4>1, <4>2, <4>3, RetiredAreGone
      <4>5. t = Ran(r, FALSE)
        BY <2>1
      <4>6. QED
        BY <1>12, <4>4, <4>5
    <3>3. CASE The("opp1") \notin DOMAIN old.wrote
      <4>1. Writes(r) = Put({x \in Found(r) : Mine(op) \in DOMAIN old.wrote /\ Now(r, x) \in Live}, "CANCELLED")
        BY <3>1, WritesIs
      <4>a. {x \in Found(r) : Mine(op) \in DOMAIN old.wrote /\ Now(r, x) \in Live} = {}
        BY <3>1, <3>3
      <4>2. DOMAIN Writes(r) = {}
        BY <4>1, <4>a, PutRows
      <4>3. Has(old, db, The("opp1")).status = "DO_NOT_CONTACT"
        BY <1>1, <1>12, <2>3 DEF Place, AtOrPast
      <4>4. stopped
        BY <3>3, <4>3 DEF Has
      <4>5. Has(old, db, row) \notin Live
        BY <1>0, <1>12, <4>4, StoppedIsQuiet
      <4>6. QED
        BY <1>5, <4>2, <4>5
    <3>4. QED
      BY <3>2, <3>3
  <2>4. QED
    BY <2>1, <2>2, <2>3
<1>13. ASSUME op = "takeover", AtOrPast(t, 4)
       PROVE  The("opp1") \in DOMAIN t.wrote \/ stopped
  <2>1. ~done /\ (AtOrPast(old, 4) \/ at = 3)
    BY <1>4, <1>13
  <2>2. CASE AtOrPast(old, 4)
    BY <1>0, <1>1, <1>13, <2>2, RanKeeps DEF Place
  <2>3. CASE at = 3
    <3>1. Statement(r) = Lock("requireHuman", {"opp1"}, "UPDATE")
      BY <1>2, <1>13, <2>3, Statements DEF Lock, Update, Read
    <3>2. The("opp1") \notin DOMAIN Writes(r) => Now(r, The("opp1")).status = "DO_NOT_CONTACT"
      BY <1>0, <3>1, UpdatedOpportunity
    <3>3. Now(r, The("opp1")).status = "DO_NOT_CONTACT" => stopped
      BY <1>0, <1>13, NowOpportunity
    <3>4. QED
      BY <1>6, <2>1, <3>2, <3>3
  <2>4. QED
    BY <2>1, <2>2, <2>3
<1>14. ASSUME op \in {"takeover", "resume"}, AtOrPast(t, 2)
       PROVE  The("conversation") \in DOMAIN t.wrote
  <2>1. ~done /\ (AtOrPast(old, 2) \/ at = 1)
    BY <1>4, <1>14
  <2>2. CASE AtOrPast(old, 2)
    BY <1>0, <1>1, <1>14, <2>2, RanKeeps DEF Place
  <2>3. CASE at = 1
    <3>1. /\ Statement(r).does \in {"takeOver", "resume"}
          /\ Statement(r).rows = {The("conversation")}
      BY <1>2, <1>14, <2>3, Statements DEF Lock, Update, Read
    <3>2. Found(r) = {The("conversation")}
      BY <3>1, FoundIs
    <3>3. \E v : Writes(r) = Put(Found(r), v)
      BY <3>1, WritesIs
    <3>4. The("conversation") \in DOMAIN Writes(r)
      BY <3>2, <3>3, PutRows
    <3>5. QED
      BY <1>6, <2>1, <3>4
  <2>4. QED
    BY <2>1, <2>2, <2>3
<1>15. ASSUME op = "takeover", t.pc = "finish", NEW row \in ActionRows
       PROVE  Has(t, db, row) \notin Automated
  <2>1. ~done /\ at = 4
    BY <1>0, <1>2, <1>15, <1>len, RanFields, ReturnsAt
  <2>2. Statement(r).does = "retireAutomated"
    BY <1>2, <1>15, <2>1, Statements DEF Lock, Update, Read
  <2>3. Writes(r) = Put({x \in Found(r) : Now(r, x) \in Automated}, "CANCELLED")
    BY <2>2, WritesIs
  <2>4. Found(r) = {x \in ActionRows : Then(r, x) \in Automated}
    BY <2>2, FoundIs
  <2>5. The("opp1") \in DOMAIN old.wrote \/ stopped
    BY <1>1, <1>15, <2>1 DEF Place, AtOrPast
  <2>6. CASE The("opp1") \in DOMAIN old.wrote
    <3>1. The("opp1") \in HeldBy(r)
      BY <1>1, <2>6, RowsApart DEF Holding, Own
    <3>2. \A x \in ActionRows : Has(Ran(r, FALSE), db, x) \notin Automated
      BY <1>0, <2>3, <2>4, <3>1, RetiredAreGone
    <3>3. t = Ran(r, FALSE)
      BY <2>1
    <3>4. QED
      BY <1>15, <3>2, <3>3
  <2>7. CASE stopped
    <3>1. Has(old, db, row) \notin Live
      BY <1>0, <1>15, <2>7, StoppedIsQuiet
    <3>2. CASE row \in DOMAIN Writes(r)
      <4>1. Writes(r)[row] = "CANCELLED"
        BY <2>3, <3>2, PutRows
      <4>2. QED
        BY <1>6, <2>1, <3>2, <4>1 DEF Automated, Live
    <3>3. CASE row \notin DOMAIN Writes(r)
      BY <1>5, <3>1, <3>3 DEF Automated
    <3>4. QED
      BY <3>2, <3>3
  <2>8. QED
    BY <2>5, <2>6, <2>7
<1>16. ASSUME op = "refund", AtOrPast(t, 3)
       PROVE  Refunded(db) + 1 <= PaymentAmount
  <2>1. ~done /\ (AtOrPast(old, 3) \/ at = 2)
    BY <1>4, <1>16
  <2>2. CASE AtOrPast(old, 3)
    BY <1>1, <1>16, <2>2 DEF Place
  <2>3. CASE at = 2
    <3>1. Statement(r).does = "refundable"
      BY <1>2, <1>16, <2>3, Statements DEF Lock, Update, Read
    <3>2. ~(Refunded(db) + 1 > Now(r, The("payment")))
      BY <1>0, <3>1 DEF Refuses
    <3>3. Now(r, The("payment")) = PaymentAmount
      BY <1>0, RowsApart, SeenRows DEF Fits
    <3>4. Refunded(db) \in Nat /\ PaymentAmount \in Nat
      BY RefundedIsNat, PaymentAmountAssumption
    <3>5. QED
      BY <3>2, <3>3, <3>4
  <2>4. QED
    BY <2>1, <2>2, <2>3
<1>17. ASSUME op \in {"book1", "book2"}, t.pc = "finish"
       PROVE  The("slot") \in DOMAIN t.wrote
  <2>1. ~done /\ at = 3
    BY <1>0, <1>2, <1>17, <1>len, RanFields, ReturnsAt
  <2>2. Statement(r).does = "insertSlot" /\ Statement(r).rows = {The("slot")}
    BY <1>2, <1>17, <2>1, Statements DEF Lock, Update, Read
  <2>3. Found(r) = {The("slot")}
    BY <2>2, FoundIs
  <2>a. Writes(r) = Over(Put({Mine(op)}, MovedBy("insertSlot", Now(r, Mine(op)))), Put(Found(r), r))
    BY <2>2, WritesIs, Zenon
  <2>4. PICK f : Writes(r) = Over(f, Put(Found(r), r))
    BY <2>a
  <2>b. DOMAIN Put(Found(r), r) = {The("slot")}
    BY <2>3, PutRows
  <2>c. DOMAIN Writes(r) = DOMAIN f \cup DOMAIN Put(Found(r), r)
    BY <2>4 DEF Over
  <2>5. The("slot") \in DOMAIN Writes(r)
    BY <2>b, <2>c
  <2>6. QED
    BY <1>6, <2>1, <2>5
<1> HIDE DEF t, old
<1>18. Place(t, db)
  BY <1>3, <1>8, <1>9, <1>10, <1>11, <1>12, <1>13, <1>14, <1>15, <1>16, <1>17 DEF Place
<1>19. QED
  BY <1>18 DEF t

\* Rows are locked before they are written, and the key is held throughout.
LEMMA HoldingStep ==
  ASSUME NEW r, NEW late, Executing(r, late), NEW done \in BOOLEAN, done <=> Returns(r, late),
         NEW h, h = HeldBy(r) \cup (IF Statement(r).mode = "SHARE" THEN {} ELSE Found(r))
  PROVE  Holding(r, Ran(r, done), db, h)
<1> DEFINE old == txn[r]
           t == Ran(r, done)
           op == old.op
           at == old.at
<1>0. Running(r) /\ late \in BOOLEAN /\ ~Refuses(r, late) /\ ~Violates(r)
  BY DEF Executing
<1>1. Holding(r, old, db, HeldBy(r)) /\ old.pc = "run"
  BY <1>0 DEF Running, TInv, Sound
<1>2. op \in Operations /\ at \in 1 .. Len(Plan(op))
  BY <1>0, RunningPlace
<1>3. t.op = op /\ t.key = old.key
  BY <1>0, RanFields
<1>4. HeldBy(r) \subseteq h /\ (Statement(r).mode # "SHARE" => Found(r) \subseteq h)
  OBVIOUS
<1>5. t.wrote = IF done THEN old.wrote ELSE Over(Writes(r), old.wrote)
  BY <1>0, RanFields
<1>6. ASSUME ~done
      PROVE  /\ DOMAIN Writes(r) \subseteq Rows
             /\ \A row \in DOMAIN Writes(r) : row \in HeldBy(r) \cup Own(r) \/ (row \in Found(r) /\ Statement(r).mode # "SHARE")
  BY <1>0, <1>6, StatementWrites
<1>7. DOMAIN t.wrote \subseteq Rows /\ \A row \in DOMAIN t.wrote : row \in h \cup Own(r)
  <2>1. CASE done
    BY <1>1, <1>4, <1>5, <2>1 DEF Holding
  <2>2. CASE ~done
    <3>1. DOMAIN t.wrote = DOMAIN Writes(r) \cup DOMAIN old.wrote
      BY <1>5, <2>2 DEF Over
    <3> HIDE DEF t, old
    <3>2. QED
      BY <1>1, <1>4, <1>6, <2>2, <3>1 DEF Holding
  <2>3. QED
    BY <2>1, <2>2
<1>8. Key(op, old.key) \in h /\ db[Key(op, old.key)] = Absent
  BY <1>1, <1>4 DEF Holding
<1>9. ASSUME NEW name, \/ op \in {"evaluate", "respond", "book1"} /\ name = "opp1"
                       \/ op = "book2" /\ name = "opp2"
                       \/ op = "refund" /\ name = "payment"
      PROVE  The(name) \in h
  <2>1. CASE at = 1
    <3>1. Statement(r).mode = "WHOLE" /\ Statement(r).rows = {The(name)}
          /\ Statement(r).does \in {"context", "contactable", "bookable", "original"}
      BY <1>2, <1>9, <2>1, Statements DEF Lock, Update, Read
    <3>2. Found(r) = {The(name)}
      BY <3>1, FoundIs
    <3>3. QED
      BY <1>4, <3>1, <3>2
  <2>2. CASE at # 1
    <3>1. at >= 2
      <4> DEFINE n == Len(Plan(op))
      <4>1. at \in 1 .. n
        BY <1>2
      <4> HIDE DEF n
      <4>2. QED
        BY <2>2, <4>1
    <3>2. AtOrPast(old, 2)
      BY <1>1, <3>1 DEF AtOrPast
    <3>3. The(name) \in HeldBy(r)
      BY <1>1, <1>9, <3>2 DEF Holding
    <3>4. QED
      BY <1>4, <3>3
  <2>3. QED
    BY <2>1, <2>2
<1> HIDE DEF t, old
<1>10. Holding(r, t, db, h)
  BY <1>3, <1>7, <1>8, <1>9 DEF Holding
<1>11. QED
  BY <1>10 DEF t

\* The place in the plan moves on, or the plan is done.
LEMMA ShapeStep ==
  ASSUME NEW r, Running(r), NEW done \in BOOLEAN, NEW h
  PROVE  Shape(Ran(r, done), h)
<1> DEFINE t == Ran(r, done)
           n == Len(Plan(txn[r].op))
           last == done \/ txn[r].at = n
<1>1. /\ t.op = txn[r].op /\ t.key = txn[r].key /\ t.view = NoRows /\ t.answer = "none"
      /\ t.pc = IF last THEN "finish" ELSE "run"
      /\ t.at = IF last THEN txn[r].at ELSE txn[r].at + 1
      /\ t.context = [customer |-> t.context.customer, mode |-> t.context.mode]
      /\ t = [op |-> t.op, key |-> t.key, pc |-> t.pc, at |-> t.at, view |-> t.view,
              context |-> t.context, wrote |-> t.wrote, answer |-> t.answer]
  BY RanFields
<1>2. txn[r].op \in Operations /\ txn[r].key \in Keys /\ txn[r].at \in 1 .. n
  BY RunningPlace
<1>3. n \in Nat
  <2> DEFINE o == txn[r].op
  <2>1. o \in Operations
    BY <1>2
  <2> HIDE DEF o
  <2>2. Len(Plan(o)) \in Nat
    BY <2>1, PlanLengths
  <2>3. QED
    BY <2>2 DEF o
<1> HIDE DEF t
<1>4. t.pc = "run" => t.at \in 1 .. Len(Plan(t.op)) /\ t.at # 1
  <2>1. t.pc = "run" => t.at = txn[r].at + 1 /\ txn[r].at # n
    BY <1>1
  <2>2. Len(Plan(t.op)) = n
    BY <1>1
  <2> HIDE DEF n, last
  <2>3. QED
    BY <1>2, <1>3, <2>1, <2>2
<1>5. Shape(t, h)
  BY <1>1, <1>2, <1>4 DEF Shape
<1>6. QED
  BY <1>5 DEF t

\* What is written of the opportunity stays in step with the conversation.
LEMMA OpportunityStep ==
  ASSUME NEW r, NEW late, Executing(r, late), NEW done \in BOOLEAN, done <=> Returns(r, late)
  PROVE  WroteOpportunity(Ran(r, done), db)
<1> DEFINE old == txn[r]
           t == Ran(r, done)
           opp1 == The("opp1")
           human == The("conversation")
<1>0. Running(r) /\ late \in BOOLEAN /\ ~Refuses(r, late)
  BY DEF Executing
<1>1. /\ WroteOpportunity(old, db) /\ old.pc = "run"
      /\ old.at = 1 => DOMAIN old.wrote = {Key(old.op, old.key)}
  BY <1>0 DEF Running, TInv, Sound, Shape
<1>2. old.op \in Operations /\ old.key \in Keys /\ old.at \in 1 .. Len(Plan(old.op))
  BY <1>0, RunningPlace
<1>3. t.op = old.op
  BY <1>0, RanFields
<1>4. \A row : done \/ row \notin DOMAIN Writes(r) =>
        /\ row \in DOMAIN t.wrote <=> row \in DOMAIN old.wrote
        /\ Has(t, db, row) = Has(old, db, row)
        /\ row \in DOMAIN old.wrote => t.wrote[row] = old.wrote[row]
  BY <1>0, RanKeeps
<1>5. ~done => \A row \in DOMAIN Writes(r) :
        row \in DOMAIN t.wrote /\ t.wrote[row] = Writes(r)[row] /\ Has(t, db, row) = Writes(r)[row]
  BY <1>0, RanKeeps
<1>6. ASSUME opp1 \in DOMAIN t.wrote, ~done, opp1 \in DOMAIN Writes(r)
      PROVE  WroteOpportunity(t, db)
  <2>1. human \notin DOMAIN Writes(r)
    BY <1>0, <1>6, WritesDomain
  <2>2. Has(t, db, human) = Has(old, db, human)
    BY <1>4, <2>1
  <2>3. t.wrote[opp1] = Writes(r)[opp1]
    BY <1>5, <1>6
  <2> DEFINE opp == Writes(r)[opp1]
  <2>4. /\ db[opp1].status = "DO_NOT_CONTACT" => opp.status = "DO_NOT_CONTACT"
        /\ opp.status = "DO_NOT_CONTACT" => db[opp1].status = "DO_NOT_CONTACT" \/ old.op = "optOut"
        /\ Has(old, db, human) = "HUMAN_ACTIVE" => Retaken(opp)
    BY <1>0, <1>6, OpportunityWrites
  <2> HIDE DEF t, old, opp
  <2>5. QED
    BY <1>3, <2>2, <2>3, <2>4 DEF WroteOpportunity, opp
<1>7. ASSUME opp1 \in DOMAIN t.wrote, done \/ opp1 \notin DOMAIN Writes(r)
      PROVE  WroteOpportunity(t, db)
  <2>1. opp1 \in DOMAIN old.wrote /\ t.wrote[opp1] = old.wrote[opp1]
    BY <1>4, <1>7
  <2>2. Has(t, db, human) = Has(old, db, human)
    <3>1. CASE done \/ human \notin DOMAIN Writes(r)
      BY <1>4, <3>1
    <3>2. CASE human \in DOMAIN Writes(r)
      <4>1. Statement(r).does \in {"takeOver", "resume"}
        BY <1>0, <3>2, WritesDomain
      <4>2. old.at = 1
        BY <1>2, <4>1, Statements DEF Lock, Update, Read
      <4>3. Key(old.op, old.key) \in KeyRows
        BY <1>2 DEF KeyRows
      <4>4. QED
        BY <1>1, <2>1, <4>2, <4>3, RowsApart
    <3>3. QED
      BY <3>1, <3>2
  <2> HIDE DEF t, old
  <2>3. QED
    BY <1>1, <1>3, <2>1, <2>2 DEF WroteOpportunity
<1>8. WroteOpportunity(t, db)
  <2>1. CASE opp1 \notin DOMAIN t.wrote
    BY <2>1 DEF WroteOpportunity
  <2>2. QED
    BY <1>6, <1>7, <2>1
<1>9. QED
  BY <1>8

\* An evaluation creates its action with its last statement, for an opportunity it has locked.
LEMMA CreatedStep ==
  ASSUME NEW r, NEW late, Executing(r, late), NEW done \in BOOLEAN, done <=> Returns(r, late)
  PROVE  Created(r, Ran(r, done), db)
<1> DEFINE old == txn[r]
           t == Ran(r, done)
           w == t.wrote
<1>0. Running(r)
  BY DEF Executing
<1>1. CASE Action(r) \notin DOMAIN w
  BY <1>1 DEF Created
<1>2. CASE Action(r) \in DOMAIN w
  <2>1. Action(r) \notin DOMAIN old.wrote
    BY <1>0, RunningPlace
  <2>2. w = IF done THEN old.wrote ELSE Over(Writes(r), old.wrote)
    BY <1>0, RanFields
  <2>3. ~done /\ w = Over(Writes(r), old.wrote)
    BY <1>2, <2>1, <2>2
  <2>4. Action(r) \in DOMAIN Writes(r)
    <3>1. DOMAIN Over(Writes(r), old.wrote) = DOMAIN Writes(r) \cup DOMAIN old.wrote
      BY OverRows
    <3>2. QED
      BY <1>2, <2>1, <2>3, <3>1
  <2>5. Statement(r).does = "evaluate"
    BY <1>0, <2>4, WritesDomain
  <2>6. old.op \in Operations /\ old.at \in 1 .. Len(Plan(old.op))
    BY <1>0, RunningPlace
  <2>7. old.op = "evaluate" /\ old.at = 2
    BY <2>5, <2>6, Statements DEF Lock, Update, Read
  <2>8. Len(Plan("evaluate")) = 2
    BY PlanLengths DEF Operations
  <2>9. t.op = "evaluate" /\ t.pc = "finish"
    BY <1>0, <2>7, <2>8, RanFields
  <2>10. ASSUME w[Action(r)] \in Live
         PROVE  /\ db[The("opp1")].status # "DO_NOT_CONTACT"
                /\ \A row \in ActionRows : db[row] \in Live => row \in DOMAIN w /\ w[row] = "CANCELLED"
                /\ w[Action(r)] \in Automated => db[The("conversation")] # "HUMAN_ACTIVE"
    BY <1>0, <2>3, <2>5, <2>10, EvaluateCreates
  <2> HIDE DEF t, old
  <2>11. QED
    BY <2>9, <2>10 DEF Created, t
<1>3. QED
  BY <1>1, <1>2

\* A statement keeps the invariant.
LEMMA ExecuteStep ==
  ASSUME NEW r, NEW late, Executing(r, late), NEW done \in BOOLEAN, done <=> Returns(r, late),
         WaitsFor(r) = {}, Execute(r, done)
  PROVE  TInv'
<1> DEFINE t == Ran(r, done)
           old == txn[r]
           h == HeldBy(r) \cup (IF Statement(r).mode = "SHARE" THEN {} ELSE Found(r))
<1>0. Running(r) /\ late \in BOOLEAN /\ ~Refuses(r, late) /\ ~Violates(r) /\ TInv /\ r \in Requests /\ old.pc = "run"
  BY DEF Executing, Running
<1>1. /\ OthersKeep(r) /\ UNCHANGED <<offered, db>>
      /\ locks' = locks \cup [by : {r}, row : Found(r), mode : {Statement(r).mode}]
      /\ HeldBy(r)' = h
      /\ txn'[r] = t
  BY <1>0, ExecuteLeaves
<1>2. Shape(t, h)
  BY <1>0, ShapeStep
<1>3. Holding(r, t, db, h)
  BY HoldingStep
<1>4. WroteTable(r, t.op, t.key, t.wrote, db) /\ WroteActions(r, t.op, t.wrote, db)
  <2>1. /\ t.op = old.op /\ t.key = old.key
        /\ t.wrote = IF done THEN old.wrote ELSE Over(Writes(r), old.wrote)
    BY <1>0, RanFields
  <2>2. WroteTable(r, old.op, old.key, old.wrote, db) /\ WroteActions(r, old.op, old.wrote, db)
    BY <1>0 DEF TInv, Sound
  <2> HIDE DEF t, old
  <2>3. CASE done
    BY <2>1, <2>2, <2>3
  <2>4. CASE ~done
    <3>1. WroteTable(r, old.op, old.key, Writes(r), db) /\ WroteActions(r, old.op, Writes(r), db)
      BY <1>0, <2>4, StatementWrites DEF old
    <3>2. /\ WroteTable(r, old.op, old.key, Over(Writes(r), old.wrote), db)
          /\ WroteActions(r, old.op, Over(Writes(r), old.wrote), db)
      BY <2>2, <3>1, WritesAdd
    <3>3. QED
      BY <2>1, <2>4, <3>2
  <2>5. QED
    BY <2>3, <2>4
<1>5. WroteOpportunity(t, db) /\ Created(r, t, db) /\ Place(t, db)
  BY OpportunityStep, CreatedStep, PlaceStep
<1>6. Saw(t, db, h)
  <2>1. t.view = NoRows
    BY <1>0, RanFields
  <2>2. QED
    BY <2>1 DEF Saw
<1> HIDE DEF t, h
<1>7. Sound(r, t, db, h)
  BY <1>2, <1>3, <1>4, <1>5, <1>6 DEF Sound
<1>8. t.pc \in {"run", "finish"} /\ t.answer = "none"
  BY <1>0, RanFields DEF t
<1>9. LocksExclude'
  <2> DEFINE L == [by : {r}, row : Found(r), mode : {Statement(r).mode}]
  <2>1. old.op \in Operations /\ old.at \in 1 .. Len(Plan(old.op))
    BY <1>0, RunningPlace
  <2>2. Found(r) \subseteq Rows
    BY <2>1, FoundAreRows
  <2>3. Statement(r).mode \in {"WHOLE", "UPDATE", "SHARE"}
    BY <2>1, Statements DEF Lock, Update, Read
  <2>4. L \subseteq [by : {r}, row : Rows, mode : {"WHOLE", "UPDATE", "SHARE"}]
    BY <2>2, <2>3
  <2>5. Wanted(r) = Found(r)
    BY <1>0, Zenon DEF Wanted
  <2>6. WantedMode(r) = Statement(r).mode
    BY <1>0 DEF WantedMode
  <2>7. \A l \in L : l.row \in Found(r) /\ l.mode = Statement(r).mode
    OBVIOUS
  <2> HIDE DEF L
  <2>8. \A m \in locks : m.by # r /\ m.row \in Found(r) => ~Conflicting(m.mode, Statement(r).mode)
    BY <2>5, <2>6, NothingToWaitFor
  <2>9. \A l \in L, m \in locks : m.by # r /\ m.row = l.row => ~Conflicting(m.mode, l.mode)
    BY <2>7, <2>8
  <2>10. locks' = locks \cup L /\ txn'[r].pc \in {"run", "finish"} /\ OthersKeep(r)
    BY <1>1, <1>8 DEF L
  <2>11. QED
    BY <1>0, <2>4, <2>9, <2>10, LocksGrow
<1>10. Replays(r)
  BY <1>1, <1>8 DEF Replays
<1>11. txn'[r].pc # "committed" /\ Sound(r, txn'[r], db, HeldBy(r)')
  BY <1>1, <1>7, <1>8
<1>12. QED
  BY <1>0, <1>1, <1>9, <1>10, <1>11, QuietStep

\* A statement that runs, is refused or violates a constraint keeps the invariant.
LEMMA RunStep ==
  ASSUME TInv, NEW r \in Requests, Run(r)
  PROVE  TInv'
<1>1. txn[r].pc = "run" /\ WaitsFor(r) = {} /\ InProgress(r) /\ Running(r)
  BY DEF Run, InProgress, Running
<1>2. PICK late \in BOOLEAN :
       \/ Refuses(r, late) /\ RolledBack(r, FailureAnswer(FALSE))
       \/ Violates(r) /\ RolledBack(r, FailureAnswer(TRUE))
       \/ ~Refuses(r, late) /\ ~Violates(r) /\ Execute(r, Returns(r, late))
  BY DEF Run
<1>3. \A aborted \in BOOLEAN : FailureAnswer(aborted) \in {"INTERNAL_ERROR", "REFUSED"}
  BY DEF FailureAnswer
<1>4. CASE RolledBack(r, FailureAnswer(FALSE)) \/ RolledBack(r, FailureAnswer(TRUE))
  BY <1>1, <1>3, <1>4, RolledBackStep
<1>5. CASE ~Refuses(r, late) /\ ~Violates(r) /\ Execute(r, Returns(r, late))
  <2>1. Executing(r, late)
    BY <1>1, <1>5 DEF Executing
  <2>2. Returns(r, late) \in BOOLEAN
    BY DEF Returns
  <2>3. PICK done \in BOOLEAN : done = Returns(r, late)
    BY <2>2
  <2>4. Execute(r, done) /\ (done <=> Returns(r, late))
    BY <1>5, <2>3
  <2>5. QED
    BY <1>1, <2>1, <2>4, ExecuteStep
<1>6. QED
  BY <1>2, <1>4, <1>5

\* A deadlock victim and a lost connection keep the invariant.
LEMMA FailedStep ==
  ASSUME TInv, NEW r \in Requests, Victim(r) \/ Lose(r)
  PROVE  TInv'
<1>1. InProgress(r)
  BY DEF Victim, Lose
<1>2. RolledBack(r, FailureAnswer(TRUE)) \/ RolledBack(r, "LOST")
  BY DEF Victim, Lose
<1>3. FailureAnswer(TRUE) = "INTERNAL_ERROR"
  BY DEF FailureAnswer
<1>4. QED
  BY <1>1, <1>2, <1>3, RolledBackStep

-----------------------------------------------------------------------------
(* A commit.                                                               *)

\* The state in which r commits, and the rows it leaves.
Committing(r, e) ==
  /\ TInv /\ r \in Requests /\ txn[r].pc = "finish"
  /\ e = Over(Put({Key(txn[r].op, txn[r].key)}, txn[r].op), Over(txn[r].wrote, db))

\* The committed rows are what the transaction wrote over what was there.
LEMMA CommitValues ==
  ASSUME NEW r, NEW e, Committing(r, e)
  PROVE  LET t == txn[r]
             K == Key(t.op, t.key)
         IN  /\ e = [row \in Rows |-> e[row]]
             /\ K \in KeyRows /\ e[K] = t.op /\ t.op \in Operations /\ t.key \in Keys
             /\ \A row \in Rows : row # K => e[row] = Has(t, db, row)
<1> DEFINE t == txn[r]
           K == Key(t.op, t.key)
           w == t.wrote
           P == Put({K}, t.op)
           u == Over(w, db)
<1>1. t.op \in Operations /\ t.key \in Keys /\ DOMAIN w \subseteq Rows
  BY DEF Committing, TInv, Sound, Shape, Holding
<1>2. K \in KeyRows /\ K \in Rows
  BY <1>1, RowsApart DEF KeyRows
<1>3. DOMAIN db = Rows
  BY DEF Committing, TInv
<1>4. DOMAIN P = {K} /\ P[K] = t.op
  BY PutRows
<1>5. e = Over(P, u)
  BY DEF Committing
<1> HIDE DEF P, K, w
<1>6. /\ DOMAIN u = DOMAIN w \cup DOMAIN db
      /\ \A x \in DOMAIN w : u[x] = w[x]
      /\ \A x \in DOMAIN db : x \notin DOMAIN w => u[x] = db[x]
  BY OverRows
<1> HIDE DEF u
<1>7. e = [row \in DOMAIN P \cup DOMAIN u |-> IF row \in DOMAIN P THEN P[row] ELSE u[row]]
  BY <1>5 DEF Over
<1>8. DOMAIN P \cup DOMAIN u = Rows
  BY <1>1, <1>2, <1>3, <1>4, <1>6 DEF w
<1>9. e = [row \in Rows |-> IF row \in DOMAIN P THEN P[row] ELSE u[row]]
  BY <1>7, <1>8
<1>10. e = [row \in Rows |-> e[row]]
  BY <1>9
<1>11. e[K] = t.op
  BY <1>2, <1>4, <1>9
<1>12. ASSUME NEW row \in Rows, row # K PROVE e[row] = Has(t, db, row)
  <2>1. e[row] = u[row]
    BY <1>4, <1>9, <1>12
  <2>2. u[row] = IF row \in DOMAIN w THEN w[row] ELSE db[row]
    BY <1>3, <1>6
  <2>3. QED
    BY <2>1, <2>2 DEF Has, w
<1>13. QED
  BY <1>1, <1>2, <1>10, <1>11, <1>12 DEF K

\* Nobody else holds what r holds or wrote.
LEMMA HeldApart ==
  ASSUME TInv, NEW r \in Requests, NEW s \in Requests, s # r
  PROVE  HeldBy(r) \cap HeldBy(s) = {}
<1>1. SUFFICES ASSUME NEW l \in locks, NEW m \in locks, l.by = r, m.by = s, l.row = m.row,
                      l.mode # "SHARE", m.mode # "SHARE"
               PROVE  FALSE
  BY DEF HeldBy
<1>2. ~Conflicting(l.mode, m.mode)
  BY <1>1 DEF TInv, LocksExclude
<1>3. QED
  BY <1>1, <1>2 DEF Conflicting

\* What a commit leaves of the rows: those that others hold, and what only grows.
LEMMA CommitKeeps ==
  ASSUME NEW r, NEW e, Committing(r, e)
  PROVE  LET t == txn[r]
             w == t.wrote
             mine == Action(r)
         IN  /\ \A s \in Requests : s # r => \A row \in HeldBy(s) : row \notin Own(r) => e[row] = db[row]
             /\ db[The("opp1")].status = "DO_NOT_CONTACT" => e[The("opp1")].status = "DO_NOT_CONTACT"
             /\ db[The("customer")] = "BLOCKED" => e[The("customer")] = "BLOCKED"
             /\ \A row \in ActionRows :
                  /\ db[row] # Absent => e[row] # Absent
                  /\ row # mine \/ row \notin DOMAIN w =>
                       /\ e[row] \in Live => db[row] \in Live
                       /\ e[row] \in Automated => db[row] \in Automated
             /\ db[mine] = Absent
             /\ mine \in DOMAIN w =>
                  /\ t.op = "evaluate" /\ The("opp1") \in HeldBy(r) /\ e[mine] = w[mine]
                  /\ e[mine] \in Live => db[The("opp1")].status # "DO_NOT_CONTACT"
             /\ The("opp1") \in DOMAIN w => The("opp1") \in HeldBy(r)
             /\ The("conversation") \notin DOMAIN w => e[The("conversation")] = db[The("conversation")]
             /\ The("conversation") \in DOMAIN w =>
                  \/ t.op = "takeover" /\ (The("opp1") \in DOMAIN w \/ db[The("opp1")].status = "DO_NOT_CONTACT")
                  \/ e[The("conversation")] = "AI_ACTIVE"
<1> DEFINE t == txn[r]
           w == t.wrote
           K == Key(t.op, t.key)
           mine == Action(r)
           opp1 == The("opp1")
           stopped == db[opp1].status = "DO_NOT_CONTACT"
<1>1. /\ Sound(r, t, db, HeldBy(r)) /\ CommittedRows(db) /\ r \in Requests /\ t.pc = "finish" /\ TInv
  BY DEF Committing, TInv
<1>2. /\ K \in KeyRows /\ e[K] = t.op
      /\ \A row \in Rows : row # K => e[row] = Has(t, db, row)
  BY CommitValues
<1>3. \A i : AtOrPast(t, i)
  BY <1>1 DEF AtOrPast
<1>4. /\ \A n \in {"conversation", "customer", "opp1", "opp2", "payment", "slot"} : The(n) \in Rows /\ The(n) # K
      /\ \A row \in ActionRows : row \in Rows /\ row # K
  BY <1>2, RowsApart
<1>5. /\ \A row \in DOMAIN w : row \in HeldBy(r) \cup Own(r)
      /\ K \in HeldBy(r)
      /\ t.op = "evaluate" => opp1 \in HeldBy(r)
  BY <1>1, <1>3 DEF Sound, Holding
<1>6. /\ \A row : row \in DOMAIN w => Has(t, db, row) = w[row]
      /\ \A row : row \notin DOMAIN w => Has(t, db, row) = db[row]
  BY DEF Has
<1>7. db[mine] = Absent
  BY <1>1 DEF TInv, Effects, Committed
<1>8. mine \in ActionRows
  BY <1>1 DEF ActionRows, RowIds
<1> HIDE DEF t, K
<1>9. ASSUME NEW s \in Requests, s # r, NEW row \in HeldBy(s), row \notin Own(r)
      PROVE  e[row] = db[row]
  <2>1. row \notin HeldBy(r)
    BY <1>1, <1>9, HeldApart
  <2>2. row \notin DOMAIN w /\ row # K
    BY <1>5, <1>9, <2>1
  <2>3. row \in Rows
    BY <1>9 DEF HeldBy
  <2>4. QED
    BY <1>2, <1>6, <2>2, <2>3
<1>10. stopped => e[opp1].status = "DO_NOT_CONTACT"
  <2>1. e[opp1] = Has(t, db, opp1)
    BY <1>2, <1>4
  <2>2. CASE opp1 \in DOMAIN w
    <3>1. stopped => w[opp1].status = "DO_NOT_CONTACT"
      BY <1>1, <2>2 DEF Sound, WroteOpportunity
    <3>2. QED
      BY <1>6, <2>1, <2>2, <3>1
  <2>3. CASE opp1 \notin DOMAIN w
    BY <1>6, <2>1, <2>3
  <2>4. QED
    BY <2>2, <2>3
<1>11. db[The("customer")] = "BLOCKED" => e[The("customer")] = "BLOCKED"
  <2>1. e[The("customer")] = Has(t, db, The("customer"))
    BY <1>2, <1>4
  <2>2. The("customer") \in DOMAIN w => w[The("customer")] = "BLOCKED"
    BY <1>1 DEF Sound, WroteTable
  <2>3. QED
    BY <1>6, <2>1, <2>2
<1>12. ASSUME NEW row \in ActionRows
       PROVE  /\ db[row] # Absent => e[row] # Absent
              /\ row # mine \/ row \notin DOMAIN w =>
                   /\ e[row] \in Live => db[row] \in Live
                   /\ e[row] \in Automated => db[row] \in Automated
  <2>1. e[row] = Has(t, db, row)
    BY <1>2, <1>4
  <2>2. CASE row \notin DOMAIN w
    BY <1>6, <2>1, <2>2
  <2>3. CASE row \in DOMAIN w
    <3>1. row # mine => \/ w[row] = "CANCELLED"
                        \/ w[row] = "READY" /\ db[row] \in Automated
      BY <1>1, <2>3 DEF Sound, WroteActions
    <3>2. e[row] = w[row]
      BY <1>6, <2>1, <2>3
    <3>3. QED
      BY <1>7, <2>3, <3>1, <3>2 DEF Live, Automated, Absent
  <2>4. QED
    BY <2>2, <2>3
<1>13. ASSUME mine \in DOMAIN w
       PROVE  /\ t.op = "evaluate" /\ opp1 \in HeldBy(r) /\ e[mine] = w[mine]
              /\ e[mine] \in Live => ~stopped
  <2>1. e[mine] = w[mine]
    BY <1>2, <1>4, <1>6, <1>8, <1>13
  <2>2. t.op = "evaluate" /\ (w[mine] \in Live => ~stopped)
    BY <1>1, <1>13 DEF Sound, Created
  <2>3. QED
    BY <1>5, <2>1, <2>2
<1>14. opp1 \in DOMAIN w => opp1 \in HeldBy(r)
  BY <1>5, RowsApart DEF Own
<1>15. The("conversation") \notin DOMAIN w => e[The("conversation")] = db[The("conversation")]
  BY <1>2, <1>4, <1>6
<1>16. ASSUME The("conversation") \in DOMAIN w
       PROVE  \/ t.op = "takeover" /\ (opp1 \in DOMAIN w \/ stopped)
              \/ e[The("conversation")] = "AI_ACTIVE"
  <2>1. \/ t.op = "takeover"
        \/ w[The("conversation")] = "AI_ACTIVE"
    BY <1>1, <1>16 DEF Sound, WroteTable
  <2>2. t.op = "takeover" => opp1 \in DOMAIN w \/ stopped
    BY <1>1, <1>3 DEF Sound, Place
  <2>3. e[The("conversation")] = w[The("conversation")]
    BY <1>2, <1>4, <1>6, <1>16
  <2>4. QED
    BY <2>1, <2>2, <2>3
<1>17. QED
  BY <1>7, <1>9, <1>10, <1>11, <1>12, <1>13, <1>14, <1>15, <1>16 DEF t

\* A commit adds at most one refund, within the payment that its transaction has locked.
LEMMA RefundsCommitted ==
  ASSUME NEW r, NEW e, Committing(r, e)
  PROVE  /\ txn[r].op # "refund" => Refunded(e) = Refunded(db)
         /\ Refunded(e) <= PaymentAmount
<1> DEFINE t == txn[r]
           w == t.wrote
           Before == {p \in RowIds : db[Refund(p)] # Absent}
           After == {p \in RowIds : e[Refund(p)] # Absent}
<1>1. /\ Sound(r, t, db, HeldBy(r)) /\ CommittedRows(db) /\ t.pc = "finish"
  BY DEF Committing, TInv
<1>2. \A p \in RowIds : e[Refund(p)] = Has(t, db, Refund(p))
  <2>1. \A p \in RowIds : Refund(p) \in RefundRows
    BY DEF RefundRows
  <2>2. \A row \in RefundRows : row \in Rows /\ row \notin KeyRows
    BY RowsApart
  <2>3. QED
    BY <2>1, <2>2, CommitValues
<1>3. \A p \in RowIds : Refund(p) \in DOMAIN w => t.op = "refund" /\ Refund(p) = Refund(r)
  BY <1>1 DEF Sound, WroteTable, RefundRows
<1>4. \A p \in RowIds : Refund(p) \notin DOMAIN w => e[Refund(p)] = db[Refund(p)]
  BY <1>2 DEF Has
<1>5. Refunded(db) <= PaymentAmount
  BY <1>1 DEF CommittedRows
<1>6. CASE t.op # "refund"
  <2>1. After = Before
    BY <1>3, <1>4, <1>6
  <2>2. Refunded(e) = Refunded(db)
    BY <2>1 DEF Refunded
  <2>3. QED
    BY <1>5, <1>6, <2>2
<1>7. CASE t.op = "refund"
  <2>1. After \subseteq Before \cup {r}
    BY <1>3, <1>4, RowsApart
  <2>2. IsFiniteSet(Before) /\ IsFiniteSet(After) /\ Refunded(db) \in Nat /\ Refunded(e) \in Nat
    BY RefundedIsNat
  <2> HIDE DEF Before, After
  <2>3. IsFiniteSet(Before \cup {r}) /\ Cardinality(Before \cup {r}) <= Cardinality(Before) + 1
    <3>1. CASE r \in Before
      <4>1. Before \cup {r} = Before
        BY <3>1
      <4>2. Cardinality(Before) \in Nat
        BY <2>2, FS_CardinalityType
      <4>3. QED
        BY <2>2, <4>1, <4>2
    <3>2. CASE r \notin Before
      <4>1. Cardinality(Before \cup {r}) = Cardinality(Before) + 1 /\ IsFiniteSet(Before \cup {r})
        BY <2>2, <3>2, FS_AddElement
      <4>2. Cardinality(Before) \in Nat
        BY <2>2, FS_CardinalityType
      <4>3. QED
        BY <4>1, <4>2
    <3>3. QED
      BY <3>1, <3>2
  <2>4. Cardinality(After) <= Cardinality(Before \cup {r})
    BY <2>1, <2>3, FS_Subset
  <2>5. Refunded(e) = Cardinality(After) /\ Refunded(db) = Cardinality(Before)
    BY DEF Refunded, After, Before
  <2>6. Refunded(db) + 1 <= PaymentAmount
    <3>1. AtOrPast(t, 3)
      BY <1>1 DEF AtOrPast
    <3>2. QED
      BY <1>1, <1>7, <3>1 DEF Sound, Place
  <2>7. Cardinality(Before \cup {r}) \in Nat /\ PaymentAmount \in Nat
    BY <2>3, FS_CardinalityType, PaymentAmountAssumption
  <2>8. Refunded(e) <= PaymentAmount
    BY <2>2, <2>3, <2>4, <2>5, <2>6, <2>7
  <2>9. QED
    BY <1>7, <2>8
<1>8. QED
  BY <1>6, <1>7

\* The committed rows satisfy the invariant after a commit.
LEMMA CommitRowsStep ==
  ASSUME NEW r, NEW e, Committing(r, e)
  PROVE  CommittedRows(e)
<1> DEFINE t == txn[r]
           w == t.wrote
           K == Key(t.op, t.key)
           mine == Action(r)
           opp1 == The("opp1")
           human == The("conversation")
           stopped == db[opp1].status = "DO_NOT_CONTACT"
<1>1. /\ Sound(r, t, db, HeldBy(r)) /\ CommittedRows(db) /\ r \in Requests /\ t.pc = "finish" /\ TInv
  BY DEF Committing, TInv
<1>2. /\ K \in KeyRows /\ e[K] = t.op
      /\ \A row \in Rows : row # K => e[row] = Has(t, db, row)
  BY CommitValues
<1>3. /\ \A n \in {"conversation", "customer", "opp1", "opp2", "payment", "slot"} : The(n) \in Rows /\ The(n) # K
      /\ \A row \in ActionRows : row \in Rows /\ row # K
      /\ \A row \in KeyRows : row \notin ActionRows /\ \A n \in {"conversation", "customer", "opp1", "opp2", "payment"} : row # The(n)
  BY <1>2, RowsApart
<1>4. /\ \A row : row \in DOMAIN w => Has(t, db, row) = w[row]
      /\ \A row : row \notin DOMAIN w => Has(t, db, row) = db[row]
  BY DEF Has
<1>5. \A i : AtOrPast(t, i)
  BY <1>1 DEF AtOrPast
<1>6. /\ stopped => e[opp1].status = "DO_NOT_CONTACT"
      /\ \A row \in ActionRows :
           row # mine \/ row \notin DOMAIN w => /\ e[row] \in Live => db[row] \in Live
                                                /\ e[row] \in Automated => db[row] \in Automated
      /\ db[mine] = Absent
      /\ mine \in DOMAIN w => e[mine] = w[mine] /\ (e[mine] \in Live => ~stopped)
      /\ human \notin DOMAIN w => e[human] = db[human]
      /\ human \in DOMAIN w => (t.op = "takeover" /\ (opp1 \in DOMAIN w \/ stopped)) \/ e[human] = "AI_ACTIVE"
  BY CommitKeeps
<1>7. mine \in ActionRows
  BY <1>1 DEF ActionRows, RowIds
<1>8. e[opp1] = Has(t, db, opp1) /\ e[human] = Has(t, db, human) /\ e[The("customer")] = Has(t, db, The("customer"))
  BY <1>2, <1>3
<1>9. \A row \in ActionRows : e[row] = Has(t, db, row)
  BY <1>2, <1>3
<1> HIDE DEF t, K
<1>10. ASSUME NEW row \in Rows PROVE Fits(row, e[row])
  <2>1. CASE row = K
    BY <1>2, <1>3, <2>1 DEF Fits
  <2>2. CASE row # K /\ row \in DOMAIN w
    <3>1. Fits(row, w[row])
      BY <1>1, <2>2 DEF Sound, WroteTable
    <3>2. QED
      BY <1>2, <1>4, <1>10, <2>2, <3>1
  <2>3. CASE row # K /\ row \notin DOMAIN w
    <3>1. Fits(row, db[row])
      BY <1>1, <1>10 DEF CommittedRows
    <3>2. QED
      BY <1>2, <1>4, <1>10, <2>3, <3>1
  <2>4. QED
    BY <2>1, <2>2, <2>3
<1>11. e[The("customer")] = "BLOCKED" => e[opp1].status = "DO_NOT_CONTACT"
  <2>1. CASE The("customer") \in DOMAIN w
    <3>1. t.op = "optOut"
      BY <1>1, <2>1 DEF Sound, WroteTable
    <3>2. Has(t, db, opp1).status = "DO_NOT_CONTACT"
      BY <1>1, <1>5, <3>1 DEF Sound, Place
    <3>3. QED
      BY <1>8, <3>2
  <2>2. CASE The("customer") \notin DOMAIN w
    BY <1>1, <1>4, <1>6, <1>8, <2>2 DEF CommittedRows
  <2>3. QED
    BY <2>1, <2>2
<1>12. ASSUME e[opp1].status = "DO_NOT_CONTACT", NEW row \in ActionRows
       PROVE  e[row] \notin Live
  <2>1. CASE stopped
    <3>1. db[row] \notin Live
      BY <1>1, <1>12, <2>1 DEF CommittedRows
    <3>2. QED
      BY <1>6, <1>12, <2>1, <3>1
  <2>2. CASE ~stopped
    <3>1. opp1 \in DOMAIN w /\ w[opp1].status = "DO_NOT_CONTACT"
      BY <1>4, <1>8, <1>12, <2>2
    <3>2. t.op = "optOut"
      BY <1>1, <2>2, <3>1 DEF Sound, WroteOpportunity
    <3>3. Has(t, db, row) \notin Live
      BY <1>1, <1>5, <1>12, <3>2 DEF Sound, Place
    <3>4. QED
      BY <1>9, <1>12, <3>3
  <2>3. QED
    BY <2>1, <2>2
<1>13. ASSUME e[human] = "HUMAN_ACTIVE" PROVE Retaken(e[opp1])
  <2>1. CASE opp1 \in DOMAIN w
    <3>1. Retaken(w[opp1])
      BY <1>1, <1>8, <1>13, <2>1 DEF Sound, WroteOpportunity
    <3>2. QED
      BY <1>4, <1>8, <2>1, <3>1
  <2>2. CASE opp1 \notin DOMAIN w
    <3>1. e[opp1] = db[opp1]
      BY <1>4, <1>8, <2>2
    <3>2. db[human] = "HUMAN_ACTIVE" \/ stopped
      BY <1>6, <1>13, <2>2
    <3>3. Retaken(db[opp1])
      BY <1>1, <3>2 DEF CommittedRows, Retaken
    <3>4. QED
      BY <3>1, <3>3
  <2>3. QED
    BY <2>1, <2>2
<1>14. ASSUME e[human] = "HUMAN_ACTIVE", NEW row \in ActionRows PROVE e[row] \notin Automated
  <2>1. CASE human \in DOMAIN w
    <3>1. t.op = "takeover"
      BY <1>6, <1>14, <2>1
    <3>2. Has(t, db, row) \notin Automated
      BY <1>1, <1>14, <3>1 DEF Sound, Place
    <3>3. QED
      BY <1>9, <1>14, <3>2
  <2>2. CASE human \notin DOMAIN w
    <3>1. db[human] = "HUMAN_ACTIVE"
      BY <1>6, <1>14, <2>2
    <3>2. db[row] \notin Automated
      BY <1>1, <1>14, <3>1 DEF CommittedRows
    <3>3. CASE row = mine /\ mine \in DOMAIN w
      <4>1. w[mine] \in Automated => db[human] # "HUMAN_ACTIVE"
        BY <1>1, <3>3 DEF Sound, Created, Automated
      <4>2. QED
        BY <1>6, <3>1, <3>3, <4>1
    <3>4. CASE row # mine \/ mine \notin DOMAIN w
      BY <1>6, <1>14, <3>2, <3>4
    <3>5. QED
      BY <3>3, <3>4
  <2>3. QED
    BY <2>1, <2>2
<1>15. ASSUME NEW row \in ActionRows, NEW other \in ActionRows, e[row] \in Live, e[other] \in Live
       PROVE  row = other
  <2>1. CASE mine \in DOMAIN w /\ e[mine] \in Live
    <3>1. \A x \in ActionRows : db[x] \in Live => x \in DOMAIN w /\ w[x] = "CANCELLED"
      BY <1>1, <1>6, <2>1 DEF Sound, Created
    <3>2. \A x \in ActionRows : e[x] \in Live => x = mine
      <4>1. ASSUME NEW x \in ActionRows, e[x] \in Live, x # mine PROVE FALSE
        <5>1. db[x] \in Live
          BY <1>6, <4>1
        <5>2. w[x] = "CANCELLED" /\ x \in DOMAIN w
          BY <3>1, <4>1, <5>1
        <5>3. e[x] = "CANCELLED"
          BY <1>4, <1>9, <4>1, <5>2
        <5>4. QED
          BY <4>1, <5>3 DEF Live
      <4>2. QED
        BY <4>1
    <3>3. QED
      BY <1>15, <3>2
  <2>2. CASE ~(mine \in DOMAIN w /\ e[mine] \in Live)
    <3>1. db[row] \in Live /\ db[other] \in Live
      BY <1>6, <1>15, <2>2
    <3>2. QED
      BY <1>1, <1>15, <3>1 DEF CommittedRows
  <2>3. QED
    BY <2>1, <2>2
<1>16. Refunded(e) <= PaymentAmount
  BY RefundsCommitted
<1>17. QED
  BY <1>10, <1>11, <1>12, <1>13, <1>14, <1>15, <1>16 DEF CommittedRows

\* What another request knows and holds survives a commit.
LEMMA CommitSound ==
  ASSUME NEW r, NEW e, Committing(r, e), NEW s \in Requests, s # r
  PROVE  Sound(s, txn[s], e, HeldBy(s))
<1> DEFINE t == txn[s]
           h == HeldBy(s)
           w == txn[r].wrote
           opp1 == The("opp1")
           human == The("conversation")
           stopped == db[opp1].status = "DO_NOT_CONTACT"
<1>1. Sound(s, t, db, h) /\ CommittedRows(db) /\ r \in Requests /\ TInv /\ txn[r].pc = "finish"
  BY DEF Committing, TInv
<1>2. /\ \A row \in h : row \notin Own(r) => e[row] = db[row]
      /\ stopped => e[opp1].status = "DO_NOT_CONTACT"
      /\ db[The("customer")] = "BLOCKED" => e[The("customer")] = "BLOCKED"
      /\ \A row \in ActionRows :
           /\ db[row] # Absent => e[row] # Absent
           /\ row # Action(r) \/ row \notin DOMAIN w => /\ e[row] \in Live => db[row] \in Live
                                                        /\ e[row] \in Automated => db[row] \in Automated
      /\ db[Action(r)] = Absent
      /\ Action(r) \in DOMAIN w =>
           /\ opp1 \in HeldBy(r)
           /\ e[Action(r)] \in Live => ~stopped
      /\ opp1 \in DOMAIN w => opp1 \in HeldBy(r)
      /\ human \notin DOMAIN w => e[human] = db[human]
      /\ human \in DOMAIN w => opp1 \in DOMAIN w \/ stopped \/ e[human] = "AI_ACTIVE"
  BY CommitKeeps
<1>3. HeldBy(r) \cap h = {}
  BY <1>1, HeldApart
<1>4. \A n \in {"conversation", "customer", "opp1", "opp2", "payment", "slot"} : The(n) \notin Own(r) \cup Own(s)
  BY RowsApart DEF Own
<1>5. /\ DOMAIN t.wrote \subseteq Rows
      /\ \A row \in DOMAIN t.wrote : row \in h \cup Own(s)
  BY <1>1 DEF Sound, Holding
<1>6. \A row \in ActionRows : opp1 \in h \/ stopped =>
        /\ e[row] \in Live => db[row] \in Live
        /\ e[row] \in Automated => db[row] \in Automated
  BY <1>2, <1>3 DEF Automated
<1>7. opp1 \in DOMAIN t.wrote => opp1 \in h
  BY <1>4, <1>5
<1>8. opp1 \in h => e[opp1] = db[opp1]
  BY <1>2, <1>4
<1>9. ASSUME e[human] = "HUMAN_ACTIVE", opp1 \in h PROVE db[human] = "HUMAN_ACTIVE" \/ stopped
  BY <1>2, <1>3, <1>9
<1>10. Action(s) # Action(r)
  BY RowsApart
<1> HIDE DEF t, h
<1>11. Shape(t, h)
  BY <1>1 DEF Sound
<1>12. Holding(s, t, e, h)
  <2>1. t.pc \in {"run", "finish"} => e[Key(t.op, t.key)] = Absent
    <3>1. ASSUME t.pc \in {"run", "finish"}
          PROVE  Key(t.op, t.key) \in h /\ db[Key(t.op, t.key)] = Absent /\ Key(t.op, t.key) \in KeyRows
      BY <1>1, <3>1 DEF Sound, Holding, Shape, KeyRows
    <3>2. \A row \in KeyRows : row \notin Own(r)
      BY <1>1, RowsApart DEF Own, JobRows, ActionRows, RefundRows, RowIds
    <3>3. QED
      BY <1>2, <3>1, <3>2
  <2>2. QED
    BY <1>1, <2>1 DEF Sound, Holding
<1>13. WroteTable(s, t.op, t.key, t.wrote, e)
  <2>1. The("slot") \in DOMAIN t.wrote => e[The("slot")] = db[The("slot")]
    BY <1>2, <1>4, <1>5
  <2>2. QED
    BY <1>1, <2>1 DEF Sound, WroteTable
<1>14. WroteOpportunity(t, e)
  <2>1. ASSUME opp1 \in DOMAIN t.wrote
        PROVE  LET opp == t.wrote[opp1]
               IN  /\ e[opp1].status = "DO_NOT_CONTACT" => opp.status = "DO_NOT_CONTACT"
                   /\ opp.status = "DO_NOT_CONTACT" => e[opp1].status = "DO_NOT_CONTACT" \/ t.op = "optOut"
                   /\ Has(t, e, human) = "HUMAN_ACTIVE" => Retaken(opp)
    <3> DEFINE opp == t.wrote[opp1]
    <3>1. /\ stopped => opp.status = "DO_NOT_CONTACT"
          /\ opp.status = "DO_NOT_CONTACT" => stopped \/ t.op = "optOut"
          /\ Has(t, db, human) = "HUMAN_ACTIVE" => Retaken(opp)
      BY <1>1, <2>1 DEF Sound, WroteOpportunity
    <3>2. Has(t, e, human) = "HUMAN_ACTIVE" => Has(t, db, human) = "HUMAN_ACTIVE" \/ stopped
      BY <1>7, <1>9, <2>1 DEF Has
    <3>3. opp.status = "DO_NOT_CONTACT" => Retaken(opp)
      BY DEF Retaken
    <3>4. e[opp1] = db[opp1]
      BY <1>7, <1>8, <2>1
    <3> HIDE DEF opp
    <3>5. QED
      BY <3>1, <3>2, <3>3, <3>4 DEF opp
  <2>2. QED
    BY <2>1 DEF WroteOpportunity
<1>15. WroteActions(s, t.op, t.wrote, e)
  <2>1. ASSUME NEW row \in ActionRows \cap DOMAIN t.wrote, row # Action(s)
        PROVE  /\ e[row] # Absent
               /\ \/ t.wrote[row] = "CANCELLED"
                  \/ t.op = "approve" /\ t.wrote[row] = "READY" /\ e[row] \in Automated
    <3>1. /\ db[row] # Absent
          /\ \/ t.wrote[row] = "CANCELLED"
             \/ t.op = "approve" /\ t.wrote[row] = "READY" /\ db[row] \in Automated
      BY <1>1, <2>1 DEF Sound, WroteActions
    <3>2. row \in h
      BY <1>5, <2>1, RowsApart DEF Own, JobRows, RefundRows, ActionRows
    <3>3. row \notin Own(r)
      BY <1>2, <2>1, <3>1, RowsApart DEF Own, ActionRows
    <3>4. e[row] = db[row]
      BY <1>2, <3>2, <3>3
    <3>5. QED
      BY <3>1, <3>4
  <2>2. QED
    BY <2>1 DEF WroteActions
<1>16. Created(s, t, e)
  <2>1. ASSUME Action(s) \in DOMAIN t.wrote, t.wrote[Action(s)] \in Live
        PROVE  /\ e[opp1].status # "DO_NOT_CONTACT"
               /\ \A row \in ActionRows : e[row] \in Live => row \in DOMAIN t.wrote /\ t.wrote[row] = "CANCELLED"
               /\ t.wrote[Action(s)] \in Automated => e[human] # "HUMAN_ACTIVE"
    <3>1. /\ t.op = "evaluate" /\ t.pc = "finish" /\ ~stopped
          /\ \A row \in ActionRows : db[row] \in Live => row \in DOMAIN t.wrote /\ t.wrote[row] = "CANCELLED"
          /\ t.wrote[Action(s)] \in Automated => db[human] # "HUMAN_ACTIVE"
      BY <1>1, <2>1 DEF Sound, Created
    <3>2. opp1 \in h
      BY <1>1, <3>1 DEF Sound, Holding, AtOrPast
    <3>3. \A row \in ActionRows : e[row] \in Live => db[row] \in Live
      BY <1>6, <3>2
    <3>4. e[opp1] = db[opp1]
      BY <1>8, <3>2
    <3>5. t.wrote[Action(s)] \in Automated => e[human] # "HUMAN_ACTIVE"
      BY <1>9, <3>1, <3>2
    <3>6. QED
      BY <3>1, <3>3, <3>4, <3>5
  <2>2. Action(s) \in DOMAIN t.wrote => t.op = "evaluate" /\ t.pc = "finish"
    BY <1>1 DEF Sound, Created
  <2>3. QED
    BY <2>1, <2>2 DEF Created
<1>17. Place(t, e)
  <2>0. Place(t, db)
    BY <1>1 DEF Sound
  <2>1. t.op \in {"respond", "book1"} /\ AtOrPast(t, 2) => e[opp1].status # "DO_NOT_CONTACT"
    <3>1. t.op \in {"respond", "book1"} /\ AtOrPast(t, 2) => opp1 \in h
      BY <1>1 DEF Sound, Holding
    <3>2. QED
      BY <1>8, <2>0, <3>1 DEF Place
  <2>2. t.op = "optOut" /\ AtOrPast(t, 3) => Has(t, e, opp1).status = "DO_NOT_CONTACT"
    <3>1. t.op = "optOut" /\ AtOrPast(t, 3) => Has(t, db, opp1).status = "DO_NOT_CONTACT"
      BY <2>0 DEF Place
    <3>2. QED
      BY <1>2, <3>1 DEF Has
  <2>3. ASSUME t.op = "optOut", AtOrPast(t, 4), NEW row \in ActionRows
        PROVE  Has(t, e, row) \notin Live
    <3>1. Has(t, db, row) \notin Live
      BY <2>0, <2>3 DEF Place
    <3>2. AtOrPast(t, 3)
      BY <1>1, <2>3, PlanLengths DEF AtOrPast, Sound, Shape
    <3>3. Has(t, db, opp1).status = "DO_NOT_CONTACT"
      BY <2>0, <2>3, <3>2 DEF Place
    <3>4. opp1 \in h \/ stopped
      BY <1>7, <3>3 DEF Has
    <3>5. e[row] \in Live => db[row] \in Live
      BY <1>6, <3>4
    <3>6. QED
      BY <3>1, <3>5 DEF Has
  <2>4. t.op = "takeover" /\ AtOrPast(t, 4) => opp1 \in DOMAIN t.wrote \/ e[opp1].status = "DO_NOT_CONTACT"
    BY <1>2, <2>0 DEF Place
  <2>5. ASSUME t.op = "takeover", t.pc = "finish", NEW row \in ActionRows
        PROVE  Has(t, e, row) \notin Automated
    <3>1. Has(t, db, row) \notin Automated
      BY <2>0, <2>5 DEF Place
    <3>2. opp1 \in h \/ stopped
      BY <1>7, <2>0, <2>5 DEF Place, AtOrPast
    <3>3. e[row] \in Automated => db[row] \in Automated
      BY <1>6, <3>2
    <3>4. QED
      BY <3>1, <3>3 DEF Has
  <2>6. ASSUME t.op = "refund", AtOrPast(t, 3)
        PROVE  Refunded(e) + 1 <= PaymentAmount
    <3>1. AtOrPast(t, 2)
      BY <1>1, <2>6, PlanLengths DEF AtOrPast, Sound, Shape
    <3>2. The("payment") \in h
      BY <1>1, <2>6, <3>1 DEF Sound, Holding
    <3>3. txn[r].op # "refund"
      <4>1. txn[r].op = "refund" => The("payment") \in HeldBy(r)
        BY <1>1 DEF TInv, Sound, Holding, AtOrPast
      <4>2. QED
        BY <1>3, <3>2, <4>1
    <3>4. Refunded(e) = Refunded(db)
      BY <3>3, RefundsCommitted
    <3>5. QED
      BY <2>0, <2>6, <3>4 DEF Place
  <2>7. t.op = "evaluate" /\ AtOrPast(t, 2) /\ t.context.customer = "BLOCKED" => e[opp1].status = "DO_NOT_CONTACT"
    BY <1>2, <2>0 DEF Place
  <2>8. /\ t.op = "approve" /\ t.pc = "run" /\ t.at = 2 => Action(First) \in DOMAIN t.wrote /\ t.wrote[Action(First)] = "READY"
        /\ t.op \in {"takeover", "resume"} /\ AtOrPast(t, 2) => The("conversation") \in DOMAIN t.wrote
        /\ t.op \in {"book1", "book2"} /\ t.pc = "finish" => The("slot") \in DOMAIN t.wrote
    BY <2>0 DEF Place
  <2>9. QED
    BY <2>1, <2>2, <2>3, <2>4, <2>5, <2>6, <2>7, <2>8 DEF Place
<1>18. Saw(t, e, h)
  <2>1. ASSUME t.view # NoRows
        PROVE  /\ DOMAIN t.view = Rows
               /\ \A row \in Rows : Fits(row, t.view[row])
               /\ t.view[opp1].status = "DO_NOT_CONTACT" => e[opp1].status = "DO_NOT_CONTACT"
               /\ t.view[The("customer")] = "BLOCKED" => e[The("customer")] = "BLOCKED"
               /\ \A row \in ActionRows : t.view[row] # Absent => e[row] # Absent
               /\ opp1 \in h =>
                    \A row \in ActionRows :
                      /\ e[row] \in Live => t.view[row] \in Live
                      /\ e[row] \in Automated => t.view[row] \in Automated
    <3>1. /\ DOMAIN t.view = Rows
          /\ \A row \in Rows : Fits(row, t.view[row])
          /\ t.view[opp1].status = "DO_NOT_CONTACT" => stopped
          /\ t.view[The("customer")] = "BLOCKED" => db[The("customer")] = "BLOCKED"
          /\ \A row \in ActionRows : t.view[row] # Absent => db[row] # Absent
          /\ opp1 \in h =>
               \A row \in ActionRows :
                 /\ db[row] \in Live => t.view[row] \in Live
                 /\ db[row] \in Automated => t.view[row] \in Automated
      BY <1>1, <2>1 DEF Sound, Saw
    <3>2. QED
      BY <1>2, <1>6, <3>1
  <2>2. QED
    BY <2>1 DEF Saw
<1>19. Sound(s, t, e, h)
  BY <1>11, <1>12, <1>13, <1>14, <1>15, <1>16, <1>17, <1>18 DEF Sound
<1>20. QED
  BY <1>19 DEF t, h

\* A commit keeps the invariant.
LEMMA CommitStep ==
  ASSUME TInv, NEW r \in Requests, Commit(r)
  PROVE  TInv'
<1> DEFINE t == txn[r]
           w == t.wrote
           K == Key(t.op, t.key)
           slot == The("slot")
           booking == {"book1", "book2"}
<1>1. /\ Committing(r, db') /\ Ended(r, "committed", "OK") /\ t.pc = "finish"
  BY DEF Commit, Committing
<1>2. /\ OthersKeep(r) /\ offered' = offered /\ HeldBy(r)' = {}
      /\ locks' = {l \in locks : l.by # r}
      /\ txn'[r] = EndOf(t, "committed", "OK")
  BY <1>1, EndedLeaves
<1>3. /\ db' = [row \in Rows |-> db'[row]]
      /\ K \in KeyRows /\ db'[K] = t.op /\ t.op \in Operations /\ t.key \in Keys
      /\ \A row \in Rows : row # K => db'[row] = Has(t, db, row)
  BY <1>1, CommitValues
<1>4. Sound(r, t, db, HeldBy(r)) /\ Effects /\ db[K] = Absent
  BY <1>1 DEF TInv, Sound, Holding
<1>5. /\ \A row : row \in DOMAIN w => Has(t, db, row) = w[row]
      /\ \A row : row \notin DOMAIN w => Has(t, db, row) = db[row]
  BY DEF Has
<1>6. txn'[r].pc = "committed" /\ txn'[r].op = t.op /\ txn'[r].key = t.key /\ txn'[r].answer = "OK"
  BY <1>2 DEF EndOf
<1>7. \A s \in Requests : s # r => (Committed(s)' <=> Committed(s)) /\ txn'[s] = txn[s]
  BY <1>2 DEF OthersKeep, Committed
<1>8. Committed(r)' /\ ~Committed(r)
  BY <1>1, <1>6 DEF Committed
<1>9. Absent \notin Requests /\ Absent \notin Operations
  BY RequestsAssumption DEF Absent, Operations
<1>10. CommittedRows(db')
  BY <1>1, CommitRowsStep
<1>11. ASSUME NEW s \in Requests PROVE Sound(s, txn'[s], db', HeldBy(s)')
  <2>1. CASE s # r
    <3>1. Sound(s, txn[s], db', HeldBy(s))
      BY <1>1, <2>1, CommitSound
    <3>2. QED
      BY <1>2, <2>1, <3>1 DEF OthersKeep
  <2>2. CASE s = r
    <3>1. Shape(txn'[r], {})
      BY <1>2, <1>3 DEF EndOf, Shape, NoContext
    <3>2. Sound(r, txn'[r], db', {})
      BY <1>6, <3>1, IdleIsSound
    <3>3. QED
      BY <1>2, <2>2, <3>2
  <2>3. QED
    BY <2>1, <2>2
<1>12. LocksExclude'
  BY <1>2, LocksShrink
<1>13. slot \in Rows /\ slot # K /\ \A s : Action(s) # K
  <2>1. slot \in Rows /\ slot \notin KeyRows
    BY RowsApart
  <2>2. \A op \in Operations : Scope(op) # "action"
    BY DEF Scope, Operations
  <2>3. \A s : Action(s) # K
    BY <1>3, <2>2 DEF Action, Key
  <2>4. QED
    BY <1>3, <2>1, <2>3
<1> HIDE DEF K, t
<1>14. SlotIsBookedOnce'
  <2>1. CASE t.op \in booking
    <3>1. slot \in DOMAIN w
      BY <1>1, <1>4, <2>1 DEF Sound, Place, t
    <3>2. w[slot] = r /\ db[slot] = Absent
      BY <1>4, <3>1 DEF Sound, WroteTable
    <3>3. db'[slot] = r
      BY <1>3, <1>5, <1>13, <3>1, <3>2
    <3>4. \A s \in Requests : ~(Committed(s) /\ txn[s].op \in booking)
      BY <1>4, <1>9, <3>2 DEF Effects, SlotIsBookedOnce
    <3>5. QED
      BY <1>6, <1>7, <1>8, <2>1, <3>3, <3>4 DEF SlotIsBookedOnce
  <2>2. CASE t.op \notin booking
    <3>1. slot \notin DOMAIN w
      BY <1>4, <2>2 DEF Sound, WroteTable
    <3>2. db'[slot] = db[slot]
      BY <1>3, <1>5, <1>13, <3>1
    <3>3. db[slot] # r
      BY <1>4, <1>8 DEF Effects, SlotIsBookedOnce
    <3>4. QED
      BY <1>4, <1>6, <1>7, <2>2, <3>2, <3>3 DEF Effects, SlotIsBookedOnce
  <2>3. QED
    BY <2>1, <2>2
<1>15. ASSUME NEW row \in KeyRows, row # K PROVE db'[row] = db[row]
  <2>1. row \notin DOMAIN w
    BY <1>4, <1>15 DEF Sound, WroteTable, K, t
  <2>2. row \in Rows
    BY RowsApart, <1>15
  <2>3. QED
    BY <1>3, <1>5, <1>15, <2>1, <2>2
<1>16. ASSUME NEW s \in Requests, Committed(s)
       PROVE  /\ s # r /\ Key(txn[s].op, txn[s].key) \in KeyRows /\ Key(txn[s].op, txn[s].key) # K
              /\ db[Key(txn[s].op, txn[s].key)] = txn[s].op
  <2>1. txn[s].op \in Operations /\ txn[s].key \in Keys
    BY <1>16 DEF TInv, Sound, Shape, Committed
  <2>2. db[Key(txn[s].op, txn[s].key)] = txn[s].op
    BY <1>4, <1>16 DEF Effects
  <2>3. Key(txn[s].op, txn[s].key) \in KeyRows
    BY <2>1 DEF KeyRows
  <2>4. QED
    BY <1>4, <1>8, <1>9, <1>16, <2>1, <2>2, <2>3
<1>17. \A s \in Requests : Committed(s)' => db'[Key(txn'[s].op, txn'[s].key)] = txn'[s].op
  <2>1. db'[Key(txn'[r].op, txn'[r].key)] = txn'[r].op
    BY <1>3, <1>6 DEF K
  <2>2. \A s \in Requests : s # r /\ Committed(s)' => db'[Key(txn'[s].op, txn'[s].key)] = txn'[s].op
    BY <1>7, <1>15, <1>16
  <2>3. QED
    BY <2>1, <2>2
<1>18. OneEffectPerKey'
  <2>1. \A s, u \in Requests :
          Committed(s)' /\ Committed(u)' /\ Key(txn'[s].op, txn'[s].key) = Key(txn'[u].op, txn'[u].key) => s = u
    <3>1. Key(txn'[r].op, txn'[r].key) = K
      BY <1>6 DEF K
    <3>2. \A s \in Requests : s # r /\ Committed(s)' => Key(txn'[s].op, txn'[s].key) # K
      BY <1>7, <1>16
    <3>3. \A s, u \in Requests : s # r /\ u # r /\ Committed(s)' /\ Committed(u)'
                                 /\ Key(txn'[s].op, txn'[s].key) = Key(txn'[u].op, txn'[u].key) => s = u
      BY <1>4, <1>7 DEF Effects, OneEffectPerKey
    <3>4. QED
      BY <3>1, <3>2, <3>3
  <2>2. ASSUME NEW op \in Operations, NEW k \in Keys, db'[Key(op, k)] # Absent
        PROVE  \E s \in Requests : Committed(s)' /\ Key(txn'[s].op, txn'[s].key) = Key(op, k)
                                   /\ db'[Key(op, k)] = txn'[s].op
    <3>1. CASE Key(op, k) = K
      <4>1. Key(txn'[r].op, txn'[r].key) = Key(op, k) /\ db'[Key(op, k)] = txn'[r].op
        BY <1>3, <1>6, <3>1 DEF K
      <4>2. QED
        BY <1>8, <4>1
    <3>2. CASE Key(op, k) # K
      <4>1. Key(op, k) \in KeyRows
        BY <2>2 DEF KeyRows
      <4>2. db'[Key(op, k)] = db[Key(op, k)]
        BY <1>15, <3>2, <4>1
      <4>3. PICK s \in Requests : Committed(s) /\ Key(txn[s].op, txn[s].key) = Key(op, k)
                                  /\ db[Key(op, k)] = txn[s].op
        BY <1>4, <2>2, <4>2 DEF Effects, OneEffectPerKey
      <4>4. s # r
        BY <1>8, <4>3
      <4>5. QED
        BY <1>7, <4>2, <4>3, <4>4
    <3>3. QED
      BY <3>1, <3>2
  <2>3. ASSUME NEW s \in Requests, txn'[s].answer = "REPLAY"
        PROVE  \E u \in Requests : Committed(u)' /\ txn'[u].op = txn'[s].op /\ txn'[u].key = txn'[s].key
    <3>1. s # r /\ txn'[s] = txn[s]
      BY <1>6, <1>7, <2>3
    <3>2. PICK u \in Requests : Committed(u) /\ txn[u].op = txn[s].op /\ txn[u].key = txn[s].key
      BY <1>4, <2>3, <3>1 DEF Effects, OneEffectPerKey
    <3>3. u # r
      BY <1>8, <3>2
    <3>4. QED
      BY <1>7, <3>1, <3>2, <3>3
  <2>4. QED
    BY <2>1, <2>2, <2>3 DEF OneEffectPerKey
<1>19. ASSUME NEW s \in Requests, db'[Action(s)] # Absent PROVE Committed(s)'
  <2>1. CASE s = r
    BY <1>8, <2>1
  <2>2. CASE s # r
    <3>1. Action(s) \in ActionRows /\ Action(s) \in Rows
      BY RowsApart DEF ActionRows, RowIds
    <3>2. db'[Action(s)] = Has(t, db, Action(s))
      BY <1>3, <1>13, <3>1
    <3>3. CASE Action(s) \in DOMAIN w
      <4>1. Action(s) = Action(r) \/ db[Action(s)] # Absent
        BY <1>4, <3>1, <3>3 DEF Sound, WroteActions
      <4>2. db[Action(s)] # Absent
        BY <2>2, <4>1, RowsApart
      <4>3. QED
        BY <1>4, <1>7, <2>2, <4>2 DEF Effects
    <3>4. CASE Action(s) \notin DOMAIN w
      BY <1>4, <1>5, <1>7, <1>19, <2>2, <3>2, <3>4 DEF Effects
    <3>5. QED
      BY <3>3, <3>4
  <2>3. QED
    BY <2>1, <2>2
<1>20. Effects'
  BY <1>14, <1>17, <1>18, <1>19 DEF Effects
<1>21. txn' = [s \in Requests |-> txn'[s]]
  BY <1>2 DEF OthersKeep
<1>22. QED
  BY <1>2, <1>3, <1>10, <1>11, <1>12, <1>20, <1>21 DEF TInv

-----------------------------------------------------------------------------
(* The theorems.                                                           *)

\* The initial rows, one by one.
LEMMA InitialRows ==
  ASSUME InitTransactions
  PROVE  /\ db = [row \in Rows |-> db[row]]
         /\ db[The("conversation")] = "AI_ACTIVE" /\ db[The("customer")] = "CONTACTABLE"
         /\ db[The("opp1")] = Opportunity("CONTACTING") /\ db[The("opp2")] = Opportunity("CONTACTING")
         /\ db[The("payment")] = PaymentAmount /\ db[The("slot")] = Absent
         /\ db[Action(First)] = "WAITING_APPROVAL"
         /\ \A s \in Requests : db[Action(s)] = Absent /\ db[Refund(s)] = Absent
         /\ \A row \in KeyRows : db[row] = Absent
<1>1. db = [row \in Rows |-> InitialRow(row)]
  BY DEF InitTransactions
<1> DEFINE Named == {The("conversation"), The("customer"), The("opp1"), The("opp2"), The("payment"),
                     Job(First), Action(First), Refund(First)}
<1>2. \A row : row \notin Named => InitialRow(row) = Absent
  BY Zenon DEF InitialRow
<1>3. \A n, m \in {"conversation", "customer", "opp1", "opp2", "payment"} : The(n) = The(m) => n = m
  BY DEF The
<1>a. ASSUME NEW row, row = The("conversation"),
             ~(row = The("customer")), ~(row \in {The("opp1"), The("opp2")}), ~(row = The("payment")),
             ~(row = Job(First)), ~(row = Action(First)), ~(row = Refund(First))
      PROVE  InitialRow(row) = "AI_ACTIVE"
  BY <1>a, Zenon DEF InitialRow
<1>b. ASSUME NEW row, row = The("customer"),
             ~(row = The("conversation")), ~(row \in {The("opp1"), The("opp2")}), ~(row = The("payment")),
             ~(row = Job(First)), ~(row = Action(First)), ~(row = Refund(First))
      PROVE  InitialRow(row) = "CONTACTABLE"
  BY <1>b, Zenon DEF InitialRow
<1>c. ASSUME NEW row, row \in {The("opp1"), The("opp2")},
             ~(row = The("conversation")), ~(row = The("customer")), ~(row = The("payment")),
             ~(row = Job(First)), ~(row = Action(First)), ~(row = Refund(First))
      PROVE  InitialRow(row) = Opportunity("CONTACTING")
  BY <1>c, Zenon DEF InitialRow
<1>d. ASSUME NEW row, row = The("payment"),
             ~(row = The("conversation")), ~(row = The("customer")), ~(row \in {The("opp1"), The("opp2")}),
             ~(row = Job(First)), ~(row = Action(First)), ~(row = Refund(First))
      PROVE  InitialRow(row) = PaymentAmount
  BY <1>d, Zenon DEF InitialRow
<1>f. ASSUME NEW row, row = Action(First),
             ~(row = The("conversation")), ~(row = The("customer")), ~(row \in {The("opp1"), The("opp2")}),
             ~(row = The("payment")), ~(row = Job(First)), ~(row = Refund(First))
      PROVE  InitialRow(row) = "WAITING_APPROVAL"
  BY <1>f, Zenon DEF InitialRow
<1>z. /\ \A n : The(n) # Job(First) /\ The(n) # Action(First) /\ The(n) # Refund(First)
      /\ Action(First) # Job(First) /\ Action(First) # Refund(First)
  BY DEF The, Job, Action, Refund, First
<1>4. InitialRow(The("conversation")) = "AI_ACTIVE"
  BY <1>3, <1>a, <1>z
<1>5. InitialRow(The("customer")) = "CONTACTABLE"
  BY <1>3, <1>b, <1>z
<1>6. \A row \in {The("opp1"), The("opp2")} : InitialRow(row) = Opportunity("CONTACTING")
  BY <1>3, <1>c, <1>z
<1>7. InitialRow(The("payment")) = PaymentAmount
  BY <1>3, <1>d, <1>z
<1>8. InitialRow(Action(First)) = "WAITING_APPROVAL"
  BY <1>f, <1>z
<1>9. \A s \in Requests : Action(s) \notin Named /\ Refund(s) \notin Named
  BY RequestsAssumption DEF Action, Refund, The, Job, First
<1>10. The("slot") \notin Named
  BY DEF The, Job, Action, Refund, First
<1>11. \A row \in KeyRows : row \notin Named
  BY RowsApart DEF JobRows, ActionRows, RefundRows, RowIds
<1>12. /\ \A n \in {"conversation", "customer", "opp1", "opp2", "payment", "slot"} : The(n) \in Rows
       /\ Action(First) \in Rows /\ \A s \in Requests : Action(s) \in Rows /\ Refund(s) \in Rows
       /\ KeyRows \subseteq Rows
  BY RowsApart DEF ActionRows, RefundRows, RowIds
<1> HIDE DEF Named
<1>13. \A row \in Rows : db[row] = InitialRow(row)
  BY <1>1
<1>14. QED
  BY <1>1, <1>2, <1>4, <1>5, <1>6, <1>7, <1>8, <1>9, <1>10, <1>11, <1>12, <1>13

\* The invariant holds of the initial rows.
LEMMA TInvInitially ==
  ASSUME InitTransactions
  PROVE  TInv
<1>1. /\ db = [row \in Rows |-> db[row]]
      /\ db[The("conversation")] = "AI_ACTIVE" /\ db[The("customer")] = "CONTACTABLE"
      /\ db[The("opp1")] = Opportunity("CONTACTING") /\ db[The("opp2")] = Opportunity("CONTACTING")
      /\ db[The("payment")] = PaymentAmount /\ db[The("slot")] = Absent
      /\ db[Action(First)] = "WAITING_APPROVAL"
      /\ \A s \in Requests : db[Action(s)] = Absent /\ db[Refund(s)] = Absent
      /\ \A row \in KeyRows : db[row] = Absent
  BY InitialRows
<1>2. /\ offered \in OfferedSets /\ locks = {}
      /\ txn = [r \in Requests |->
             [op |-> "none", key |-> Absent, pc |-> "new", at |-> 1, view |-> NoRows,
              context |-> NoContext, wrote |-> NoRows, answer |-> "none"]]
  BY DEF InitTransactions
<1>3. \A r \in Requests :
        /\ txn[r] = [op |-> "none", key |-> Absent, pc |-> "new", at |-> 1, view |-> NoRows,
                     context |-> NoContext, wrote |-> NoRows, answer |-> "none"]
        /\ HeldBy(r) = {}
  BY <1>2 DEF HeldBy
<1>4. ASSUME NEW r \in Requests PROVE Sound(r, txn[r], db, HeldBy(r))
  <2>1. Shape(txn[r], {})
    BY <1>3 DEF Shape, NoContext
  <2>2. txn[r].pc \notin {"run", "finish"} /\ HeldBy(r) = {}
    BY <1>3
  <2>3. QED
    BY <2>1, <2>2, IdleIsSound
<1>5. \A r \in Requests : ~Committed(r) /\ txn[r].answer = "none"
  BY <1>3 DEF Committed
<1>6. Effects
  <2>1. SlotIsBookedOnce
    BY <1>1, <1>5, RequestsAssumption DEF SlotIsBookedOnce, Absent
  <2>2. OneEffectPerKey
    BY <1>1, <1>5 DEF OneEffectPerKey, KeyRows
  <2>3. QED
    BY <1>1, <1>5, <2>1, <2>2 DEF Effects
<1>7. LocksExclude
  BY <1>2 DEF LocksExclude
<1>8. CommittedRows(db)
  <2>1. Opportunity("CONTACTING") \in OppType
    BY DEF Opportunity, OppType, OppStatuses, RecoveryStates
  <2>2. \A row \in ActionRows : db[row] = IF row = Action(First) THEN "WAITING_APPROVAL" ELSE Absent
    BY <1>1 DEF ActionRows, RowIds
  <2>3. \A n, m \in {"conversation", "customer", "opp1", "opp2", "payment"} :
          (The(n) = The(m) => n = m) /\ The(n) \notin ActionRows
    BY RowsApart
  <2>4. ASSUME NEW row \in Rows PROVE Fits(row, db[row])
    <3>1. row \in ActionRows => db[row] \in ActionStatuses \cup {Absent}
      BY <2>2 DEF ActionStatuses
    <3>2. QED
      BY <1>1, <2>1, <3>1 DEF Fits
  <2>5. Absent \notin Live
    BY DEF Absent, Live
  <2>6. Refunded(db) <= PaymentAmount
    <3>1. {p \in RowIds : db[Refund(p)] # Absent} \subseteq {First}
      BY <1>1 DEF RowIds
    <3>2. IsFiniteSet({First}) /\ Cardinality({First}) = 1
      BY FS_Singleton
    <3>3. Cardinality({p \in RowIds : db[Refund(p)] # Absent}) <= 1
      BY <3>1, <3>2, FS_Subset
    <3>4. QED
      BY <3>3, RefundedIsNat, PaymentAmountAssumption DEF Refunded
  <2>7. db[The("opp1")].status # "DO_NOT_CONTACT"
    BY <1>1 DEF Opportunity
  <2>8. \A row, other \in ActionRows : db[row] \in Live /\ db[other] \in Live => row = other
    BY <2>2, <2>5
  <2>9. QED
    BY <1>1, <2>4, <2>6, <2>7, <2>8 DEF CommittedRows
<1>9. txn = [r \in Requests |-> txn[r]]
  BY <1>2
<1>10. QED
  BY <1>1, <1>2, <1>4, <1>6, <1>7, <1>8, <1>9 DEF TInv

\* The committed rows, the effects of committed requests, the locks, and what every transaction in
\* progress holds, wrote, saw and has established are consistent in every reachable state.
\* (postgresProductionStore.ts, idempotency.ts)
THEOREM TransactionsKeepInvariant == TransactionSpec => []TInv
<1>1. InitTransactions => TInv
  BY TInvInitially
<1>2. TInv /\ [NextTransactions]_txnVars => TInv'
  <2> SUFFICES ASSUME TInv, [NextTransactions]_txnVars PROVE TInv'
    OBVIOUS
  <2>1. ASSUME NEW r \in Requests, Arrive(r) PROVE TInv'
    BY <2>1, ArriveStep
  <2>2. ASSUME NEW r \in Requests, Claim(r) PROVE TInv'
    BY <2>2, ClaimStep
  <2>3. ASSUME NEW r \in Requests, Wait(r) PROVE TInv'
    BY <2>3, WaitStep
  <2>4. ASSUME NEW r \in Requests, Run(r) PROVE TInv'
    BY <2>4, RunStep
  <2>5. ASSUME NEW r \in Requests, Commit(r) PROVE TInv'
    BY <2>5, CommitStep
  <2>6. ASSUME NEW r \in Requests, Victim(r) \/ Lose(r) PROVE TInv'
    BY <2>6, FailedStep
  <2>7. CASE UNCHANGED txnVars
    <3>1. db' = db /\ offered' = offered /\ txn' = txn /\ locks' = locks
      BY <2>7 DEF txnVars
    <3>2. \A r \in Requests : HeldBy(r)' = HeldBy(r)
      BY <3>1 DEF HeldBy
    <3>3. LocksExclude'
      BY <3>1 DEF TInv, LocksExclude
    <3>4. Effects'
      BY <3>1 DEF TInv, Effects, SlotIsBookedOnce, OneEffectPerKey, Committed
    <3>5. \A r \in Requests : Sound(r, txn'[r], db', HeldBy(r)')
      BY <3>1, <3>2 DEF TInv
    <3>6. CommittedRows(db') /\ offered' \in OfferedSets /\ db' = [row \in Rows |-> db'[row]]
          /\ txn' = [r \in Requests |-> txn'[r]]
      BY <3>1 DEF TInv
    <3>7. QED
      BY <3>3, <3>4, <3>5, <3>6 DEF TInv
  <2>8. QED
    BY <2>1, <2>2, <2>3, <2>4, <2>5, <2>6, <2>7 DEF NextTransactions
<1>3. QED
  BY <1>1, <1>2, PTL DEF TransactionSpec

\* Rows, transactions and locks keep their types for any number of requests, keys and units.
THEOREM TransactionsTyped == TransactionSpec => []TransactionTypeOK
<1>1. ASSUME TInv PROVE TransactionTypeOK
  <2>1. \A r \in Requests : Shape(txn[r], HeldBy(r)) /\ Holding(r, txn[r], db, HeldBy(r))
    BY <1>1 DEF TInv, Sound
  <2>2. ASSUME NEW r \in Requests
        PROVE  /\ txn[r].pc \in {"new", "claim", "run", "finish", "committed", "rolledBack"}
               /\ txn[r].answer \in {"none", "OK", "LOST", "REFUSED", "INTERNAL_ERROR",
                                     "IN_PROGRESS", "REPLAY", "CONFLICT"}
               /\ DOMAIN txn[r].wrote \subseteq Rows
               /\ txn[r].pc # "new" => txn[r].op \in Operations /\ txn[r].key \in Keys
    BY <2>1 DEF Shape, Holding
  <2>3. /\ offered \in OfferedSets /\ DOMAIN db = Rows /\ DOMAIN txn = Requests
        /\ locks \subseteq [by : Requests, row : Rows, mode : {"WHOLE", "UPDATE", "SHARE"}]
    BY <1>1 DEF TInv, LocksExclude
  <2>4. QED
    BY <2>2, <2>3 DEF TransactionTypeOK
<1>2. QED
  BY <1>1, TransactionsKeepInvariant, PTL

\* However many requests are sent with a key, at once, again or after a failure, one operation
\* commits with it, and a replay answers for that one. (idempotency.ts execute)
THEOREM KeysHaveOneEffect == TransactionSpec => []OneEffectPerKey
<1>1. TInv => OneEffectPerKey
  BY DEF TInv, Effects
<1>2. QED
  BY <1>1, TransactionsKeepInvariant, PTL

\* No interleaving of bookings commits two that overlap.
\* (createBooking, the exclusion constraint of migration 0001)
THEOREM SlotsAreBookedOnce == TransactionSpec => []SlotIsBookedOnce
<1>1. TInv => SlotIsBookedOnce
  BY DEF TInv, Effects
<1>2. QED
  BY <1>1, TransactionsKeepInvariant, PTL

\* Refunds that race with each other never exceed their payment, because each is summed under the
\* lock on the payment it refunds. (createPayment)
THEOREM RefundsStayWithin == TransactionSpec => []RefundsWithinPayment
<1>1. TInv => RefundsWithinPayment
  BY DEF TInv, CommittedRows, RefundsWithinPayment
<1>2. QED
  BY <1>1, TransactionsKeepInvariant, PTL

\* At most one action is live whatever evaluations, approvals, replies, opt-outs and takeovers run
\* at once. (evaluateOpportunityRecovery locks the opportunity before it looks for live actions)
THEOREM LiveActionsAreUnique == TransactionSpec => []LiveActionIsUnique
<1>1. ASSUME TInv PROVE LiveActionIsUnique
  <2> DEFINE S == ActionsThatAre(Live)
  <2>1. \A row, other \in S : row = other
    BY <1>1 DEF TInv, CommittedRows, ActionsThatAre
  <2>2. S = {} \/ \E row : S = {row}
    BY <2>1
  <2>3. Cardinality({}) = 0 /\ \A row : Cardinality({row}) = 1
    BY FS_EmptySet, FS_Singleton
  <2> HIDE DEF S
  <2>4. Cardinality(S) \in {0, 1}
    BY <2>2, <2>3, Zenon
  <2>a. Cardinality(S) <= 1
    BY <2>4
  <2>5. QED
    BY <2>a DEF LiveActionIsUnique, S
<1>2. QED
  BY <1>1, TransactionsKeepInvariant, PTL

\* A committed opt-out leaves nothing live, also of an evaluation that had read the customer before
\* it. (recordCustomerOptOut)
THEOREM OptOutWins == TransactionSpec => []OptOutOutrunsRecovery
<1>1. ASSUME TInv PROVE OptOutOutrunsRecovery
  BY <1>1 DEF TInv, CommittedRows, OptOutOutrunsRecovery, ActionsThatAre
<1>2. QED
  BY <1>1, TransactionsKeepInvariant, PTL

\* A committed takeover leaves no automated action live, also of an evaluation or an approval that
\* was waiting for it. (takeOverConversation)
THEOREM TakeoverWins == TransactionSpec => []TakeoverOutrunsRecovery
<1>1. ASSUME TInv PROVE TakeoverOutrunsRecovery
  BY <1>1 DEF TInv, CommittedRows, TakeoverOutrunsRecovery, ActionsThatAre, Automated
<1>2. QED
  BY <1>1, TransactionsKeepInvariant, PTL
=============================================================================
