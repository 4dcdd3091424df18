------------------------ MODULE FollowUpWorkerProofs ------------------------
(***************************************************************************)
(* Proofs about FollowUpWorker: its types, the freshness of attempt keys,  *)
(* exclusive dispatch when leases outlive sends, that the worker and the   *)
(* store together keep the promises of FollowUpJobs, the attempts on       *)
(* record, and the messages a customer gets against the faults that        *)
(* happened.                                                               *)
(***************************************************************************)
EXTENDS FollowUpWorker, FiniteSetTheorems, TLAPS

-----------------------------------------------------------------------------
(* Rows *)

LEMMA LeasedRow ==
  ASSUME NEW job \in JobType, NEW w \in Workers
  PROVE  /\ Leased(job, w) \in JobType
         /\ Leased(job, w).status = "leased" /\ Leased(job, w).owner = w
         /\ Leased(job, w).due = FALSE
         /\ Leased(job, w).attempts = job.attempts
         /\ Leased(job, w).recorded = job.recorded
  BY DEF Leased, JobType, Open

LEMMA CancelledRow ==
  ASSUME NEW job \in JobType
  PROVE  /\ Cancelled(job) \in JobType
         /\ Cancelled(job).status = "cancelled"
         /\ Cancelled(job).attempts = job.attempts
         /\ Cancelled(job).recorded = job.recorded
  BY DEF Cancelled, JobType, Nobody

\* Recording a new key counts it and gives up the lease.
LEMMA RecordedRow ==
  ASSUME NEW job \in JobType, NEW key \in 1 .. MaxAttempts, NEW result \in {"sent", "failed"},
         job.attempts < MaxAttempts, ~KeyTaken(job, key)
  PROVE  /\ Recorded(job, key, result) \in JobType
         /\ Recorded(job, key, result).status = IF result = "sent" THEN "completed" ELSE "failed"
         /\ Recorded(job, key, result).attempts = job.attempts + 1
         /\ Recorded(job, key, result).recorded = job.recorded \cup {[key |-> key, result |-> result]}
<1> DEFINE st    == IF result = "sent" THEN "completed" ELSE "failed"
           n     == job.attempts + 1
           entry == [key |-> key, result |-> result]
           rec   == job.recorded \cup {entry}
<1>1. st \in Open \cup {"completed", "cancelled"}
  BY DEF Open
<1>2. n \in 0 .. MaxAttempts
  BY WorkerAssumptions DEF JobType
<1>3. rec \in SUBSET [key : 1 .. MaxAttempts, result : {"sent", "failed"}]
  BY DEF JobType
<1>4. Recorded(job, key, result) =
        [job EXCEPT !.status = st, !.attempts = n, !.owner = Nobody, !.due = FALSE, !.recorded = rec]
  BY DEF Recorded
<1> HIDE DEF st, n, rec
<1>5. /\ Recorded(job, key, result) \in JobType
      /\ Recorded(job, key, result).status = st
      /\ Recorded(job, key, result).attempts = n
      /\ Recorded(job, key, result).recorded = rec
  BY <1>1, <1>2, <1>3, <1>4 DEF JobType, Nobody
<1> QED
  BY <1>5 DEF st, n, rec

LEMMA IdleWorkerRow ==
  ASSUME NEW stopping \in BOOLEAN
  PROVE  /\ IdleWorker(stopping) \in WorkerType
         /\ IdleWorker(stopping).at = "idle"
<1>1. (CHOOSE j \in Jobs : TRUE) \in Jobs
  BY WorkerAssumptions
<1>2. 0 \in 0 .. MaxAttempts
  BY WorkerAssumptions
<1> QED
  BY <1>1, <1>2 DEF IdleWorker, WorkerType

\* An error leaves the worker in its catch block with the same attempt, or idle.
LEMMA AfterErrorRow ==
  ASSUME NEW worker \in WorkerType
  PROVE  /\ AfterError(worker) \in WorkerType
         /\ AfterError(worker).at # "idle" =>
              /\ worker.at = "completing" /\ AfterError(worker).at = "failing"
              /\ AfterError(worker).job = worker.job /\ AfterError(worker).key = worker.key
<1>1. CASE worker.at = "completing"
  BY <1>1 DEF AfterError, WorkerType
<1>2. CASE worker.at # "completing"
  BY <1>2, IdleWorkerRow DEF AfterError, WorkerType
<1> QED
  BY <1>1, <1>2

-----------------------------------------------------------------------------
(* The inductive invariant: types need the bound on attempts, which needs the *)
(* leases, which need the keys.                                              *)

Busy(w) == workers[w].at # "idle"

BusyWorkersHaveKeys == \A w \in Workers : Busy(w) => workers[w].key # 0

LeasedJobsHaveAttempts == \A j \in Jobs : jobs[j].status = "leased" => jobs[j].attempts < MaxAttempts

KeysCountAttempts ==
  \A j \in Jobs : \A key \in 1 .. MaxAttempts : KeyTaken(jobs[j], key) <=> key <= jobs[j].attempts

IInv == /\ TypeOK
        /\ BusyWorkersHaveKeys
        /\ LeasedJobsHaveAttempts
        /\ KeysCountAttempts
        /\ AttemptKeyIsFresh

LEMMA InitIInv == Init => IInv
<1> SUFFICES ASSUME Init PROVE IInv
  OBVIOUS
<1> USE WorkerAssumptions
<1>1. \A w \in Workers : workers[w] \in WorkerType /\ workers[w].at = "idle"
  BY IdleWorkerRow DEF Init
<1>2. /\ ScheduledJob \in JobType /\ ScheduledJob.status = "scheduled"
      /\ ScheduledJob.attempts = 0 /\ ScheduledJob.recorded = {}
  BY DEF ScheduledJob, JobType, Nobody, Open
<1>3. TypeOK
  <2>1. jobs \in [Jobs -> JobType] /\ delivered \in [Jobs -> Nat]
    BY <1>2 DEF Init
  <2>2. workers \in [Workers -> WorkerType]
    BY IdleWorkerRow DEF Init
  <2>3. sentKeys \in [Workers -> SUBSET (Jobs \X (1 .. MaxAttempts))] /\ faults \in 0 .. MaxFaults
    BY DEF Init
  <2> QED
    BY <2>1, <2>2, <2>3 DEF TypeOK
<1>4. \A j \in Jobs : /\ jobs[j].status = "scheduled" /\ jobs[j].attempts = 0
                      /\ \A key : ~KeyTaken(jobs[j], key)
  BY <1>2 DEF Init, KeyTaken
<1>5. BusyWorkersHaveKeys /\ AttemptKeyIsFresh
  BY <1>1 DEF BusyWorkersHaveKeys, AttemptKeyIsFresh, Busy
<1>6. LeasedJobsHaveAttempts /\ KeysCountAttempts
  BY <1>4 DEF LeasedJobsHaveAttempts, KeysCountAttempts
<1> QED
  BY <1>3, <1>5, <1>6 DEF IInv

\* A step that leaves the attempts of every job on record as they are, leases no
\* job to a worker but with a fresh key, and starts no attempt without one.
LEMMA QuietStep ==
  ASSUME IInv, TypeOK',
         \A j \in Jobs : /\ jobs'[j].attempts = jobs[j].attempts
                         /\ jobs'[j].recorded = jobs[j].recorded
                         /\ jobs'[j].status = "leased" => jobs[j].attempts < MaxAttempts,
         \A w \in Workers : Busy(w)' =>
           \/ /\ Busy(w) /\ workers'[w].job = workers[w].job /\ workers'[w].key = workers[w].key
              /\ OwnsLease(jobs'[workers[w].job], w) => OwnsLease(jobs[workers[w].job], w)
           \/ workers'[w].key = jobs[workers'[w].job].attempts + 1
  PROVE  IInv'
<1>1. /\ \A w \in Workers : workers'[w].job \in Jobs /\ workers[w].job \in Jobs
      /\ \A j \in Jobs : jobs[j].attempts \in Nat
  BY DEF IInv, TypeOK, WorkerType, JobType
<1>2. BusyWorkersHaveKeys'
  BY <1>1 DEF IInv, BusyWorkersHaveKeys
<1>3. LeasedJobsHaveAttempts'
  BY DEF LeasedJobsHaveAttempts
<1>4. KeysCountAttempts'
  BY DEF IInv, KeysCountAttempts, KeyTaken
<1>5. AttemptKeyIsFresh'
  BY <1>1 DEF IInv, AttemptKeyIsFresh, Busy
<1> QED
  BY <1>2, <1>3, <1>4, <1>5 DEF IInv

LEMMA ClaimIInv ==
  ASSUME IInv, NEW w \in Workers, NEW j \in Jobs, Claimable(jobs[j]), workers[w].at = "idle",
         jobs' = [jobs EXCEPT ![j] = Leased(jobs[j], w)],
         \/ workers' = workers
         \/ workers' = [workers EXCEPT ![w].at = "sending", ![w].job = j,
                                       ![w].key = AttemptKey(jobs[j])],
         UNCHANGED <<sentKeys, delivered>>, faults' \in 0 .. MaxFaults
  PROVE  IInv'
<1>1. /\ jobs[j] \in JobType /\ workers[w] \in WorkerType
      /\ jobs[j].attempts < MaxAttempts /\ jobs[j].attempts \in Nat
  BY DEF IInv, TypeOK, Claimable, JobType
<1>2. AttemptKey(jobs[j]) \in 0 .. MaxAttempts /\ AttemptKey(jobs[j]) = jobs[j].attempts + 1
  BY <1>1, WorkerAssumptions DEF AttemptKey
<1>3. jobs' \in [Jobs -> JobType]
  BY <1>1, LeasedRow DEF IInv, TypeOK
<1>4. workers' \in [Workers -> WorkerType]
  BY <1>1, <1>2 DEF IInv, TypeOK, WorkerType
<1>5. TypeOK'
  BY <1>3, <1>4 DEF IInv, TypeOK
<1>6. \A i \in Jobs : /\ jobs'[i].attempts = jobs[i].attempts
                      /\ jobs'[i].recorded = jobs[i].recorded
                      /\ jobs'[i].status = "leased" => jobs[i].attempts < MaxAttempts
  <2>1. jobs'[j] = Leased(jobs[j], w) /\ \A i \in Jobs : i # j => jobs'[i] = jobs[i]
    BY DEF IInv, TypeOK
  <2>2. jobs'[j].attempts = jobs[j].attempts /\ jobs'[j].recorded = jobs[j].recorded
    <3>1. /\ Leased(jobs[j], w).attempts = jobs[j].attempts
          /\ Leased(jobs[j], w).recorded = jobs[j].recorded
      BY <1>1, LeasedRow
    <3> QED
      BY <2>1, <3>1
  <2> QED
    BY <1>1, <2>1, <2>2 DEF IInv, LeasedJobsHaveAttempts
<1>7. ASSUME NEW v \in Workers, Busy(v)'
      PROVE  \/ /\ Busy(v) /\ workers'[v].job = workers[v].job /\ workers'[v].key = workers[v].key
                /\ OwnsLease(jobs'[workers[v].job], v) => OwnsLease(jobs[workers[v].job], v)
             \/ workers'[v].key = jobs[workers'[v].job].attempts + 1
  <2>1. CASE v = w
    <3>1. workers' = [workers EXCEPT ![w].at = "sending", ![w].job = j, ![w].key = AttemptKey(jobs[j])]
      BY <1>7, <2>1 DEF Busy
    <3>2. workers'[w].key = AttemptKey(jobs[j]) /\ workers'[w].job = j
      BY <3>1 DEF IInv, TypeOK, WorkerType
    <3> QED
      BY <1>2, <2>1, <3>2
  <2>2. CASE v # w
    <3>1. workers'[v] = workers[v] /\ workers[v].job \in Jobs
      BY <2>2 DEF IInv, TypeOK, WorkerType
    <3>2. OwnsLease(jobs'[workers[v].job], v) => OwnsLease(jobs[workers[v].job], v)
      BY <1>1, <2>2, <3>1, LeasedRow DEF IInv, TypeOK, OwnsLease
    <3> QED
      BY <1>7, <3>1, <3>2 DEF Busy
  <2> QED
    BY <2>1, <2>2
<1> QED
  BY <1>5, <1>6, <1>7, QuietStep

\* A result is recorded by the owner of the lease, whose key is fresh.
LEMMA RecordIInv ==
  ASSUME IInv, NEW w \in Workers, MayRecord(w), Record(w),
         workers' \in [Workers -> WorkerType],
         \A v \in Workers : Busy(v)' => /\ Busy(v) /\ workers'[v].job = workers[v].job
                                        /\ workers'[v].key = workers[v].key,
         UNCHANGED <<sentKeys, delivered>>, faults' \in 0 .. MaxFaults
  PROVE  /\ IInv'
         /\ ~KeyTaken(jobs[workers[w].job], workers[w].key)
<1> DEFINE j   == workers[w].job
           key == workers[w].key
           row == Recorded(jobs[j], key, ResultOf(w))
<1>1. /\ jobs[j] \in JobType /\ j \in Jobs /\ Busy(w) /\ OwnsLease(jobs[j], w)
      /\ jobs[j].attempts < MaxAttempts /\ jobs[j].attempts \in Nat
      /\ key = jobs[j].attempts + 1
  BY DEF IInv, TypeOK, WorkerType, JobType, MayRecord, Busy, OwnsLease, LeasedJobsHaveAttempts,
         AttemptKeyIsFresh
<1>2. key \in 1 .. MaxAttempts
  BY <1>1, WorkerAssumptions
<1>3. ~KeyTaken(jobs[j], key)
  BY <1>1, <1>2 DEF IInv, KeysCountAttempts
<1>4. ResultOf(w) \in {"sent", "failed"}
  BY DEF ResultOf
<1>5. /\ row \in JobType /\ row.status # "leased" /\ row.attempts = jobs[j].attempts + 1
      /\ row.recorded = jobs[j].recorded \cup {[key |-> key, result |-> ResultOf(w)]}
  BY <1>1, <1>2, <1>3, <1>4, RecordedRow
<1>6. jobs' = [jobs EXCEPT ![j] = row]
  BY DEF Record
<1> HIDE DEF j, key, row
<1>7. jobs'[j] = row /\ \A i \in Jobs : i # j => jobs'[i] = jobs[i]
  BY <1>1, <1>6 DEF IInv, TypeOK
<1>8. TypeOK'
  BY <1>5, <1>6 DEF IInv, TypeOK
<1>9. BusyWorkersHaveKeys'
  BY DEF IInv, BusyWorkersHaveKeys
<1>10. LeasedJobsHaveAttempts'
  BY <1>5, <1>7 DEF IInv, LeasedJobsHaveAttempts
<1>11. KeysCountAttempts'
  <2>1. SUFFICES ASSUME NEW i \in Jobs, NEW k \in 1 .. MaxAttempts
                 PROVE  KeyTaken(jobs'[i], k) <=> k <= jobs'[i].attempts
    BY DEF KeysCountAttempts
  <2>2. CASE i # j
    BY <1>7, <2>2 DEF IInv, KeysCountAttempts
  <2>3. CASE i = j
    <3> DEFINE entry == [key |-> key, result |-> ResultOf(w)]
    <3>e. entry.key = key /\ row.recorded = jobs[j].recorded \cup {entry}
      BY <1>5
    <3> HIDE DEF entry
    <3>1. KeyTaken(row, k) <=> KeyTaken(jobs[j], k) \/ k = key
      BY <3>e DEF KeyTaken
    <3>2. KeyTaken(jobs[j], k) <=> k <= jobs[j].attempts
      BY <1>1 DEF IInv, KeysCountAttempts
    <3> QED
      BY <1>1, <1>5, <1>7, <2>3, <3>1, <3>2
  <2> QED
    BY <2>2, <2>3
<1>12. AttemptKeyIsFresh'
  <2>1. SUFFICES ASSUME NEW v \in Workers, Busy(v)', OwnsLease(jobs'[workers'[v].job], v)
                 PROVE  workers'[v].key = jobs'[workers'[v].job].attempts + 1
    BY DEF AttemptKeyIsFresh, Busy
  <2>2. workers'[v].job = workers[v].job /\ workers[v].job \in Jobs /\ workers'[v].key = workers[v].key
    BY <2>1 DEF IInv, TypeOK, WorkerType
  <2>3. workers[v].job # j
    BY <1>5, <1>7, <2>1, <2>2 DEF OwnsLease
  <2> QED
    BY <1>7, <2>1, <2>2, <2>3 DEF IInv, AttemptKeyIsFresh, Busy
<1> QED
  BY <1>3, <1>8, <1>9, <1>10, <1>11, <1>12 DEF IInv, j, key

\* A process that is replaced takes its id with it.
LEMMA ReplacedIInv ==
  ASSUME IInv, NEW w \in Workers, Replaced(w), faults' \in 0 .. MaxFaults
  PROVE  /\ IInv'
         /\ \A j \in Jobs : /\ jobs'[j].status = jobs[j].status
                            /\ jobs'[j].attempts = jobs[j].attempts
                            /\ jobs'[j].due = jobs[j].due
         /\ \A v \in Workers : Busy(v)' => v # w /\ workers'[v] = workers[v]
         /\ \A v \in Workers : v # w => \A j \in Jobs : OwnsLease(jobs'[j], v) <=> OwnsLease(jobs[j], v)
<1>1. /\ workers' = [workers EXCEPT ![w] = IdleWorker(FALSE)]
      /\ jobs' = [j \in Jobs |-> IF jobs[j].owner = w THEN [jobs[j] EXCEPT !.owner = Gone] ELSE jobs[j]]
      /\ sentKeys' = [sentKeys EXCEPT ![w] = {}] /\ UNCHANGED delivered
  BY DEF Replaced
<1>2. \A j \in Jobs : /\ jobs'[j] \in JobType
                      /\ jobs'[j].status = jobs[j].status
                      /\ jobs'[j].attempts = jobs[j].attempts
                      /\ jobs'[j].due = jobs[j].due
                      /\ jobs'[j].recorded = jobs[j].recorded
                      /\ jobs'[j].owner = IF jobs[j].owner = w THEN Gone ELSE jobs[j].owner
  BY <1>1 DEF IInv, TypeOK, JobType
<1>3. \A v \in Workers : /\ v # w => workers'[v] = workers[v]
                         /\ workers'[v] \in WorkerType
                         /\ v = w => workers'[v].at = "idle"
  BY <1>1, IdleWorkerRow DEF IInv, TypeOK
<1>4. TypeOK'
  <2>1. jobs' \in [Jobs -> JobType]
    BY <1>1, <1>2
  <2>2. workers' \in [Workers -> WorkerType]
    BY <1>1, IdleWorkerRow DEF IInv, TypeOK
  <2> QED
    BY <1>1, <2>1, <2>2 DEF IInv, TypeOK
<1>5. \A v \in Workers : Busy(v)' => v # w /\ workers'[v] = workers[v] /\ Busy(v)
  BY <1>3 DEF Busy
<1>6. \A v \in Workers : v # w => \A j \in Jobs : OwnsLease(jobs'[j], v) <=> OwnsLease(jobs[j], v)
  BY <1>2, WorkerAssumptions DEF OwnsLease, Gone
<1>7. \A v \in Workers : workers[v].job \in Jobs
  BY DEF IInv, TypeOK, WorkerType
<1>8. IInv'
  BY <1>2, <1>4, <1>5, <1>6, <1>7, QuietStep DEF IInv, LeasedJobsHaveAttempts
<1> QED
  BY <1>2, <1>5, <1>6, <1>8

-----------------------------------------------------------------------------
(* The steps, sorted by what they do to the rows *)

\* Steps that write neither a status nor an attempt, and give no lease.
Unrecorded(w, j) ==
  \/ Send(w) \/ SendFails(w) \/ FinishRefused(w) \/ FinishError(w) \/ Stop(w)
  \/ BecomeDue(j) \/ Overrun(j) \/ CancelFollowUp(j)

LEMMA FaultType ==
  ASSUME NEW kind, Fault(kind), faults \in 0 .. MaxFaults
  PROVE  faults' \in 0 .. MaxFaults
  BY WorkerAssumptions DEF Fault

\* What they leave alone.
LEMMA UnrecordedRows ==
  ASSUME IInv, NEW w \in Workers, NEW j \in Jobs, Unrecorded(w, j)
  PROVE  /\ TypeOK'
         /\ \A i \in Jobs : /\ jobs'[i].attempts = jobs[i].attempts
                            /\ jobs'[i].recorded = jobs[i].recorded
                            /\ jobs'[i].status = jobs[i].status \/ jobs'[i].status = "cancelled"
         /\ \A v \in Workers : Busy(v)' =>
              /\ Busy(v) /\ workers'[v].job = workers[v].job /\ workers'[v].key = workers[v].key
              /\ OwnsLease(jobs'[workers[v].job], v) => OwnsLease(jobs[workers[v].job], v)
<1>t. /\ workers[w] \in WorkerType /\ workers[w].job \in Jobs /\ jobs[j] \in JobType
      /\ \A v \in Workers : workers[v].job \in Jobs
  BY DEF IInv, TypeOK, WorkerType
<1>1. CASE Send(w)
  <2>1. workers[w].key \in 1 .. MaxAttempts
    BY <1>1, <1>t, WorkerAssumptions DEF IInv, BusyWorkersHaveKeys, Busy, WorkerType, Send
  <2>2. workers' = [workers EXCEPT ![w].at = "completing"] /\ UNCHANGED <<jobs, faults>>
    BY <1>1 DEF Send
  <2>3. workers' \in [Workers -> WorkerType]
    BY <1>t, <2>2 DEF IInv, TypeOK, WorkerType
  <2>4. delivered' \in [Jobs -> Nat]
    BY <1>1, <1>t DEF Send, IInv, TypeOK
  <2>5. sentKeys' \in [Workers -> SUBSET (Jobs \X (1 .. MaxAttempts))]
    BY <1>1, <1>t, <2>1 DEF Send, IInv, TypeOK
  <2>6. \A v \in Workers : Busy(v)' =>
          Busy(v) /\ workers'[v].job = workers[v].job /\ workers'[v].key = workers[v].key
    BY <1>1, <1>t, <2>2 DEF IInv, TypeOK, WorkerType, Busy, Send
  <2> QED
    BY <2>2, <2>3, <2>4, <2>5, <2>6 DEF IInv, TypeOK
<1>2. CASE SendFails(w)
  <2>1. workers' = [workers EXCEPT ![w].at = "failing"] /\ UNCHANGED <<jobs, sentKeys, delivered, faults>>
    BY <1>2 DEF SendFails
  <2>2. workers' \in [Workers -> WorkerType]
    BY <1>t, <2>1 DEF IInv, TypeOK, WorkerType
  <2>3. \A v \in Workers : Busy(v)' =>
          Busy(v) /\ workers'[v].job = workers[v].job /\ workers'[v].key = workers[v].key
    BY <1>2, <1>t, <2>1 DEF IInv, TypeOK, WorkerType, Busy, SendFails
  <2> QED
    BY <2>1, <2>2, <2>3 DEF IInv, TypeOK
<1>3. CASE FinishRefused(w) \/ FinishError(w)
  <2>1. /\ workers' = [workers EXCEPT ![w] = AfterError(workers[w])]
        /\ UNCHANGED <<jobs, sentKeys, delivered>> /\ faults' \in 0 .. MaxFaults
    BY <1>3, FaultType DEF FinishRefused, FinishError, IInv, TypeOK
  <2>2. workers'[w] = AfterError(workers[w]) /\ \A v \in Workers : v # w => workers'[v] = workers[v]
    BY <2>1 DEF IInv, TypeOK
  <2>3. workers' \in [Workers -> WorkerType]
    BY <1>t, <2>1, AfterErrorRow DEF IInv, TypeOK
  <2>4. \A v \in Workers : Busy(v)' =>
          Busy(v) /\ workers'[v].job = workers[v].job /\ workers'[v].key = workers[v].key
    BY <1>t, <2>2, AfterErrorRow DEF Busy
  <2> QED
    BY <2>1, <2>3, <2>4 DEF IInv, TypeOK
<1>4. CASE Stop(w)
  <2>1. /\ workers' = [workers EXCEPT ![w].stopping = TRUE]
        /\ UNCHANGED <<jobs, sentKeys, delivered>> /\ faults' \in 0 .. MaxFaults
    BY <1>4, FaultType DEF Stop, IInv, TypeOK
  <2>2. workers' \in [Workers -> WorkerType]
    BY <1>t, <2>1 DEF IInv, TypeOK, WorkerType
  <2>3. \A v \in Workers : Busy(v)' =>
          Busy(v) /\ workers'[v].job = workers[v].job /\ workers'[v].key = workers[v].key
    BY <1>t, <2>1 DEF IInv, TypeOK, WorkerType, Busy
  <2> QED
    BY <2>1, <2>2, <2>3 DEF IInv, TypeOK
<1>5. CASE BecomeDue(j) \/ Overrun(j)
  <2>1. /\ jobs' = [jobs EXCEPT ![j].due = TRUE]
        /\ UNCHANGED <<workers, sentKeys, delivered>> /\ faults' \in 0 .. MaxFaults
    BY <1>5, FaultType DEF BecomeDue, Overrun, IInv, TypeOK
  <2>2. jobs' \in [Jobs -> JobType]
    BY <1>t, <2>1 DEF IInv, TypeOK, JobType
  <2>3. \A i \in Jobs : /\ jobs'[i].attempts = jobs[i].attempts
                        /\ jobs'[i].recorded = jobs[i].recorded
                        /\ jobs'[i].status = jobs[i].status
                        /\ jobs'[i].owner = jobs[i].owner
    BY <1>t, <2>1 DEF IInv, TypeOK, JobType
  <2> QED
    BY <1>t, <2>1, <2>2, <2>3 DEF IInv, TypeOK, Busy, OwnsLease
<1>6. CASE CancelFollowUp(j)
  <2>1. jobs' = [jobs EXCEPT ![j] = Cancelled(jobs[j])] /\ UNCHANGED <<workers, sentKeys, delivered, faults>>
    BY <1>6 DEF CancelFollowUp
  <2>2. jobs'[j] = Cancelled(jobs[j]) /\ \A i \in Jobs : i # j => jobs'[i] = jobs[i]
    BY <2>1 DEF IInv, TypeOK
  <2>3. /\ jobs'[j] \in JobType /\ jobs'[j].status = "cancelled"
        /\ jobs'[j].attempts = jobs[j].attempts /\ jobs'[j].recorded = jobs[j].recorded
    <3>1. /\ Cancelled(jobs[j]) \in JobType /\ Cancelled(jobs[j]).status = "cancelled"
          /\ Cancelled(jobs[j]).attempts = jobs[j].attempts
          /\ Cancelled(jobs[j]).recorded = jobs[j].recorded
      BY <1>t, CancelledRow
    <3> QED
      BY <2>2, <3>1
  <2>4. jobs' \in [Jobs -> JobType]
    BY <2>1, <2>2, <2>3 DEF IInv, TypeOK
  <2> QED
    BY <1>t, <2>1, <2>2, <2>3, <2>4 DEF IInv, TypeOK, Busy, OwnsLease
<1> QED
  BY <1>1, <1>2, <1>3, <1>4, <1>5, <1>6 DEF Unrecorded

LEMMA UnrecordedIInv ==
  ASSUME IInv, NEW w \in Workers, NEW j \in Jobs, Unrecorded(w, j)
  PROVE  IInv'
<1>1. /\ TypeOK'
      /\ \A i \in Jobs : /\ jobs'[i].attempts = jobs[i].attempts
                         /\ jobs'[i].recorded = jobs[i].recorded
                         /\ jobs'[i].status = "leased" => jobs[i].attempts < MaxAttempts
  BY UnrecordedRows DEF IInv, LeasedJobsHaveAttempts
<1>2. \A v \in Workers : Busy(v)' =>
        /\ Busy(v) /\ workers'[v].job = workers[v].job /\ workers'[v].key = workers[v].key
        /\ OwnsLease(jobs'[workers[v].job], v) => OwnsLease(jobs[workers[v].job], v)
  BY UnrecordedRows
<1> QED
  BY <1>1, <1>2, QuietStep

\* A result is recorded, with or without an answer.
LEMMA FinishWorkers ==
  ASSUME IInv, NEW w \in Workers, Finish(w) \/ FinishUnanswered(w)
  PROVE  /\ MayRecord(w) /\ Record(w)
         /\ workers' \in [Workers -> WorkerType]
         /\ \A v \in Workers : Busy(v)' => /\ Busy(v) /\ workers'[v].job = workers[v].job
                                           /\ workers'[v].key = workers[v].key
         /\ UNCHANGED <<sentKeys, delivered>> /\ faults' \in 0 .. MaxFaults
<1>1. /\ MayRecord(w) /\ Record(w) /\ UNCHANGED <<sentKeys, delivered>>
      /\ faults' \in 0 .. MaxFaults
  BY FaultType DEF Finish, FinishUnanswered, IInv, TypeOK
<1>2. workers[w] \in WorkerType /\ workers \in [Workers -> WorkerType]
  BY DEF IInv, TypeOK
<1>3. PICK worker : /\ workers' = [workers EXCEPT ![w] = worker]
                    /\ worker \in WorkerType
                    /\ worker.at # "idle" => /\ workers[w].at # "idle"
                                             /\ worker.job = workers[w].job
                                             /\ worker.key = workers[w].key
  <2>1. CASE Finish(w)
    BY <2>1, IdleWorkerRow DEF Finish
  <2>2. CASE FinishUnanswered(w)
    <3>1. workers' = [workers EXCEPT ![w] = AfterError(workers[w])]
      BY <2>2 DEF FinishUnanswered
    <3>2. /\ AfterError(workers[w]) \in WorkerType
          /\ AfterError(workers[w]).at # "idle" => /\ workers[w].at # "idle"
                                                   /\ AfterError(workers[w]).job = workers[w].job
                                                   /\ AfterError(workers[w]).key = workers[w].key
      BY <1>2, AfterErrorRow
    <3> QED
      BY <3>1, <3>2
  <2> QED
    BY <2>1, <2>2
<1>4. workers' \in [Workers -> WorkerType]
  BY <1>2, <1>3
<1>5. \A v \in Workers : Busy(v)' => /\ Busy(v) /\ workers'[v].job = workers[v].job
                                     /\ workers'[v].key = workers[v].key
  BY <1>2, <1>3 DEF Busy
<1> QED
  BY <1>1, <1>4, <1>5

\* Every step is of one of these kinds.
LEMMA StepKinds ==
  ASSUME [Next]_vars, IInv
  PROVE  \/ \E w \in Workers, j \in Jobs : Unrecorded(w, j)
         \/ \E w \in Workers, j \in Jobs : ClaimDueFollowUp(w, j) \/ ClaimUnanswered(w, j)
         \/ \E w \in Workers : Finish(w) \/ FinishUnanswered(w)
         \/ \E w \in Workers : Crash(w) \/ Exit(w)
         \/ UNCHANGED vars
  BY WorkerAssumptions DEF Next, RunOnce, Unrecorded

LEMMA NextIInv == IInv /\ [Next]_vars => IInv'
<1> SUFFICES ASSUME IInv, [Next]_vars PROVE IInv'
  OBVIOUS
<1>1. ASSUME NEW w \in Workers, NEW j \in Jobs, Unrecorded(w, j) PROVE IInv'
  BY <1>1, UnrecordedIInv
<1>2. ASSUME NEW w \in Workers, NEW j \in Jobs, ClaimDueFollowUp(w, j) \/ ClaimUnanswered(w, j)
      PROVE  IInv'
  <2>1. /\ Claimable(jobs[j]) /\ workers[w].at = "idle"
        /\ jobs' = [jobs EXCEPT ![j] = Leased(jobs[j], w)]
        /\ \/ workers' = workers
           \/ workers' = [workers EXCEPT ![w].at = "sending", ![w].job = j,
                                         ![w].key = AttemptKey(jobs[j])]
        /\ UNCHANGED <<sentKeys, delivered>> /\ faults' \in 0 .. MaxFaults
    BY <1>2, FaultType DEF ClaimDueFollowUp, ClaimUnanswered, IInv, TypeOK
  <2> QED
    BY <2>1, ClaimIInv
<1>3. ASSUME NEW w \in Workers, Finish(w) \/ FinishUnanswered(w) PROVE IInv'
  BY <1>3, FinishWorkers, RecordIInv
<1>4. ASSUME NEW w \in Workers, Crash(w) \/ Exit(w) PROVE IInv'
  <2>1. Replaced(w) /\ faults' \in 0 .. MaxFaults
    BY <1>4, FaultType DEF Crash, Exit, IInv, TypeOK
  <2> QED
    BY <2>1, ReplacedIInv
<1>5. CASE UNCHANGED vars
  BY <1>5 DEF vars, IInv, TypeOK, BusyWorkersHaveKeys, Busy, LeasedJobsHaveAttempts,
              KeysCountAttempts, KeyTaken, AttemptKeyIsFresh, OwnsLease
<1> QED
  BY <1>1, <1>2, <1>3, <1>4, <1>5, StepKinds

\* The inductive invariant holds in every reachable state, for any number of
\* follow-ups, processes and faults.
THEOREM WorkerInvariant == Spec => []IInv
  BY InitIInv, NextIInv, PTL DEF Spec

\* Types, with the bound on attempts that the claim's guard and the leases give.
THEOREM WorkerTypes == Spec => []TypeOK
<1>1. IInv => TypeOK
  BY DEF IInv
<1> QED
  BY <1>1, WorkerInvariant, PTL

\* A worker that owns the lease never meets its own key on record: the store's
\* silent return for a known key is dead code.
THEOREM AttemptKeysAreAlwaysFresh == Spec => []AttemptKeyIsFresh
<1>1. IInv => AttemptKeyIsFresh
  BY DEF IInv
<1> QED
  BY <1>1, WorkerInvariant, PTL

-----------------------------------------------------------------------------
(* The promises of the table *)

LEMMA TableRow ==
  ASSUME NEW j \in Jobs
  PROVE  TableRows[j].status = jobs[j].status /\ TableRows[j].attempts = jobs[j].attempts
  BY DEF TableRows

LEMMA StepKeepsPromises == IInv /\ [Next]_vars => [Table!Next]_TableRows
<1> SUFFICES ASSUME IInv, [Next]_vars PROVE [Table!Next]_TableRows
  OBVIOUS
\* Rows that keep status and attempts are the same rows to the table.
<1>s. ASSUME \A j \in Jobs : jobs'[j].status = jobs[j].status /\ jobs'[j].attempts = jobs[j].attempts
      PROVE  TableRows' = TableRows
  BY <1>s DEF TableRows
\* One row written.
<1>w. ASSUME NEW j \in Jobs, \A i \in Jobs : i # j => jobs'[i] = jobs[i]
      PROVE  TableRows' = [TableRows EXCEPT ![j] = [status |-> jobs'[j].status,
                                                    attempts |-> jobs'[j].attempts]]
  BY <1>w DEF TableRows
<1>1. ASSUME NEW w \in Workers, NEW j \in Jobs, Unrecorded(w, j) PROVE [Table!Next]_TableRows
  <2>1. CASE CancelFollowUp(j)
    <3>1. /\ jobs[j].status \notin {"ABSENT", "completed"} /\ jobs[j] \in JobType
          /\ jobs' = [jobs EXCEPT ![j] = Cancelled(jobs[j])]
      BY <2>1 DEF CancelFollowUp, Open, IInv, TypeOK
    <3>2. /\ Cancelled(jobs[j]).status = "cancelled"
          /\ Cancelled(jobs[j]).attempts = jobs[j].attempts
      BY <3>1, CancelledRow
    <3>3. /\ jobs'[j].status = "cancelled" /\ jobs'[j].attempts = jobs[j].attempts
          /\ \A i \in Jobs : i # j => jobs'[i] = jobs[i]
      BY <3>1, <3>2 DEF IInv, TypeOK
    <3>4. TableRows' = [i \in Jobs |-> IF i \in {j} THEN [TableRows[i] EXCEPT !.status = "cancelled"]
                                       ELSE TableRows[i]]
      BY <3>3 DEF TableRows
    <3>5. Table!Cancel({j})
      BY <3>1, <3>4, TableRow DEF Table!Cancel
    <3> QED
      BY <3>5 DEF Table!Next
  <2>2. CASE ~CancelFollowUp(j)
    <3>1. jobs' = jobs \/ jobs' = [jobs EXCEPT ![j].due = TRUE]
      BY <1>1, <2>2 DEF Unrecorded, Send, SendFails, FinishRefused, FinishError, Stop, BecomeDue,
                        Overrun
    <3>2. \A i \in Jobs : jobs'[i].status = jobs[i].status /\ jobs'[i].attempts = jobs[i].attempts
      BY <3>1 DEF IInv, TypeOK, JobType
    <3> QED
      BY <1>s, <3>2
  <2> QED
    BY <2>1, <2>2
<1>2. ASSUME NEW w \in Workers, NEW j \in Jobs, ClaimDueFollowUp(w, j) \/ ClaimUnanswered(w, j)
      PROVE  [Table!Next]_TableRows
  <2>1. /\ jobs[j].status \in Table!Open /\ jobs[j].attempts < MaxAttempts /\ jobs[j] \in JobType
        /\ jobs' = [jobs EXCEPT ![j] = Leased(jobs[j], w)]
    BY <1>2 DEF ClaimDueFollowUp, ClaimUnanswered, Claimable, IInv, TypeOK, Open, Table!Open
  <2>2. Leased(jobs[j], w).status = "leased" /\ Leased(jobs[j], w).attempts = jobs[j].attempts
    BY <2>1, LeasedRow
  <2>3. /\ jobs'[j].status = "leased" /\ jobs'[j].attempts = jobs[j].attempts
        /\ \A i \in Jobs : i # j => jobs'[i] = jobs[i]
    BY <2>1, <2>2 DEF IInv, TypeOK
  <2>4. TableRows' = [TableRows EXCEPT ![j].status = "leased"]
    BY <2>3, <1>w DEF TableRows
  <2>5. Table!Claim(j)
    BY <2>1, <2>4, TableRow DEF Table!Claim, Table!MayBeTried
  <2> QED
    BY <2>5 DEF Table!Next
<1>3. ASSUME NEW w \in Workers, Finish(w) \/ FinishUnanswered(w) PROVE [Table!Next]_TableRows
  <2> DEFINE j      == workers[w].job
             result == ResultOf(w)
             row    == Recorded(jobs[j], workers[w].key, result)
  <2>1. MayRecord(w) /\ Record(w) /\ ~KeyTaken(jobs[j], workers[w].key)
    BY <1>3, FinishWorkers, RecordIInv
  <2>2. /\ j \in Jobs /\ jobs[j] \in JobType /\ jobs[j].status = "leased"
        /\ jobs[j].attempts < MaxAttempts
        /\ workers[w].key \in 1 .. MaxAttempts /\ result \in {"sent", "failed"}
    BY <2>1, WorkerAssumptions DEF IInv, TypeOK, WorkerType, MayRecord, OwnsLease,
       LeasedJobsHaveAttempts, BusyWorkersHaveKeys, Busy, ResultOf
  <2>3. /\ row.status = IF result = "sent" THEN "completed" ELSE "failed"
        /\ row.attempts = jobs[j].attempts + 1
    BY <2>1, <2>2, RecordedRow
  <2>4. jobs' = [jobs EXCEPT ![j] = row]
    BY <2>1 DEF Record
  <2> HIDE DEF j, result, row
  <2>5. /\ jobs'[j].status = IF result = "sent" THEN "completed" ELSE "failed"
        /\ jobs'[j].attempts = jobs[j].attempts + 1
        /\ \A i \in Jobs : i # j => jobs'[i] = jobs[i]
    BY <2>2, <2>3, <2>4 DEF IInv, TypeOK
  <2>6. TableRows' = [TableRows EXCEPT
          ![j] = [status   |-> IF result = "sent" THEN "completed" ELSE "failed",
                  attempts |-> TableRows[j].attempts + 1]]
    BY <2>2, <2>5, <1>w, TableRow
  <2>7. Table!Record(j, result)
    BY <2>2, <2>6, TableRow DEF Table!Record, Table!TakesResult
  <2> QED
    BY <2>2, <2>7 DEF Table!Next
<1>4. ASSUME NEW w \in Workers, Crash(w) \/ Exit(w) PROVE [Table!Next]_TableRows
  <2>1. Replaced(w) /\ faults' \in 0 .. MaxFaults
    BY <1>4, FaultType DEF Crash, Exit, IInv, TypeOK
  <2> QED
    BY <2>1, <1>s, ReplacedIInv
<1>5. CASE UNCHANGED vars
  BY <1>5, <1>s DEF vars
<1> QED
  BY <1>1, <1>2, <1>3, <1>4, <1>5, StepKinds

\* Whatever dies, is late or is lost between a claim and its result, the rows
\* move as FollowUpJobs says: OpportunityRecovery may see a follow-up as two
\* steps, a claim and a result.
THEOREM WorkerImplementsTable == Spec => KeepsTablePromises
<1>1. Init => Table!Init
  <2> SUFFICES ASSUME Init PROVE Table!Init
    OBVIOUS
  <2>1. \A j \in Jobs : jobs[j].status = "scheduled" /\ jobs[j].attempts = 0
    BY DEF Init, ScheduledJob
  <2>2. TableRows = [j \in Jobs |-> Table!Created]
    BY <2>1 DEF TableRows, Table!Created
  <2> QED
    BY <2>2 DEF Table!Init
<1> QED
  BY <1>1, StepKeepsPromises, WorkerInvariant, PTL DEF Spec, KeepsTablePromises, Table!Spec

-----------------------------------------------------------------------------
(* Exclusive dispatch *)

\* A busy worker holds a lease that has not run out, or works on a follow-up
\* that nobody will claim again.
BusyWorkersHoldLeases ==
  \A w \in Workers : Busy(w) =>
    \/ OwnsLease(jobs[workers[w].job], w) /\ ~jobs[workers[w].job].due
    \/ jobs[workers[w].job].status \in {"completed", "cancelled"}

EInv == IInv /\ BusyWorkersHoldLeases /\ ExclusiveDispatch

LEMMA NextEInv ==
  ASSUME "overrun" \notin Faults, EInv, [Next]_vars
  PROVE  EInv'
<1>i. IInv /\ IInv'
  BY NextIInv DEF EInv
<1>t. \A w \in Workers : workers[w].job \in Jobs
  BY <1>i DEF IInv, TypeOK, WorkerType
\* Steps after which the same workers are busy with the same jobs.
<1>k. ASSUME \A v \in Workers : Busy(v)' => Busy(v) /\ workers'[v].job = workers[v].job,
             \A v \in Workers : Busy(v)' /\ OwnsLease(jobs[workers[v].job], v)
                                         /\ ~jobs[workers[v].job].due =>
               \/ OwnsLease(jobs'[workers[v].job], v) /\ ~jobs'[workers[v].job].due
               \/ jobs'[workers[v].job].status \in {"completed", "cancelled"},
             \A v \in Workers : Busy(v)' /\ jobs[workers[v].job].status \in {"completed", "cancelled"} =>
               jobs'[workers[v].job].status \in {"completed", "cancelled"}
      PROVE  EInv'
  <2>1. BusyWorkersHoldLeases'
    BY <1>k DEF EInv, BusyWorkersHoldLeases
  <2>2. ExclusiveDispatch'
    BY <1>k DEF EInv, ExclusiveDispatch, Busy
  <2> QED
    BY <1>i, <2>1, <2>2 DEF EInv
<1>1. ASSUME NEW w \in Workers, NEW j \in Jobs, Unrecorded(w, j) PROVE EInv'
  <2>1. \A v \in Workers : Busy(v)' => Busy(v) /\ workers'[v].job = workers[v].job
    BY <1>1, <1>i, UnrecordedRows
  <2>2. \/ jobs' = jobs
        \/ BecomeDue(j)
        \/ jobs' = [jobs EXCEPT ![j] = Cancelled(jobs[j])] /\ jobs[j].status \in Open
    BY <1>1 DEF Unrecorded, Send, SendFails, FinishRefused, FinishError, Stop, Overrun, Fault,
                CancelFollowUp
  <2>3. CASE jobs' = jobs
    BY <1>k, <2>1, <2>3
  <2>4. CASE BecomeDue(j)
    <3>1. /\ jobs' = [jobs EXCEPT ![j].due = TRUE] /\ ~InUse(j) /\ jobs[j].status \in Open
      BY <2>4 DEF BecomeDue
    <3>2. \A v \in Workers : Busy(v) => workers[v].job # j
      BY <3>1 DEF EInv, BusyWorkersHoldLeases, InUse, Busy, Open
    <3>3. \A i \in Jobs : i # j => jobs'[i] = jobs[i]
      BY <1>i, <3>1 DEF IInv, TypeOK
    <3>4. \A v \in Workers : Busy(v)' => jobs'[workers[v].job] = jobs[workers[v].job]
      BY <1>t, <2>1, <3>2, <3>3
    <3> QED
      BY <1>k, <2>1, <3>4
  <2>5. CASE jobs' = [jobs EXCEPT ![j] = Cancelled(jobs[j])] /\ jobs[j].status \in Open
    <3>1. Cancelled(jobs[j]).status = "cancelled"
      BY <1>i, CancelledRow DEF IInv, TypeOK
    <3>2. jobs'[j].status = "cancelled" /\ \A i \in Jobs : i # j => jobs'[i] = jobs[i]
      BY <1>i, <2>5, <3>1 DEF IInv, TypeOK
    <3> QED
      BY <1>k, <1>t, <2>1, <3>2
  <2> QED
    BY <2>2, <2>3, <2>4, <2>5
<1>2. ASSUME NEW w \in Workers, NEW j \in Jobs, ClaimDueFollowUp(w, j) \/ ClaimUnanswered(w, j)
      PROVE  EInv'
  <2>1. /\ jobs[j].status \in Open /\ jobs[j].due /\ workers[w].at = "idle"
        /\ jobs' = [jobs EXCEPT ![j] = Leased(jobs[j], w)]
    BY <1>2 DEF ClaimDueFollowUp, ClaimUnanswered, Claimable
  <2>2. \A v \in Workers : Busy(v) => workers[v].job # j /\ v # w
    BY <2>1 DEF EInv, BusyWorkersHoldLeases, Busy, Open
  <2>3. /\ Leased(jobs[j], w).status = "leased" /\ Leased(jobs[j], w).owner = w
        /\ Leased(jobs[j], w).due = FALSE
    BY <1>i, LeasedRow DEF IInv, TypeOK
  <2>4. /\ jobs'[j].status = "leased" /\ jobs'[j].owner = w /\ jobs'[j].due = FALSE
        /\ \A i \in Jobs : i # j => jobs'[i] = jobs[i]
    BY <1>i, <2>1, <2>3 DEF IInv, TypeOK
  <2>5. CASE workers' = workers
    <3>1. \A v \in Workers : Busy(v)' => Busy(v) /\ workers'[v].job = workers[v].job
      BY <2>5 DEF Busy
    <3> QED
      BY <1>k, <1>t, <2>2, <2>4, <3>1
  <2>6. CASE workers' = [workers EXCEPT ![w].at = "sending", ![w].job = j, ![w].key = AttemptKey(jobs[j])]
    <3>1. workers'[w].job = j /\ \A v \in Workers : v # w => workers'[v] = workers[v]
      BY <1>i, <2>6 DEF IInv, TypeOK, WorkerType
    <3>2. BusyWorkersHoldLeases'
      <4>1. ASSUME NEW v \in Workers, Busy(v)', v # w
            PROVE  /\ Busy(v) /\ workers'[v].job = workers[v].job
                   /\ jobs'[workers[v].job] = jobs[workers[v].job]
        BY <1>t, <2>2, <2>4, <3>1, <4>1 DEF Busy
      <4> QED
        BY <2>4, <3>1, <4>1 DEF EInv, BusyWorkersHoldLeases, OwnsLease
    <3>3. ExclusiveDispatch'
      BY <2>2, <3>1 DEF EInv, ExclusiveDispatch, Busy
    <3> QED
      BY <1>i, <3>2, <3>3 DEF EInv
  <2> QED
    BY <1>2, <2>5, <2>6 DEF ClaimDueFollowUp, ClaimUnanswered
<1>3. ASSUME NEW w \in Workers, Finish(w) \/ FinishUnanswered(w) PROVE EInv'
  <2> DEFINE j   == workers[w].job
             row == Recorded(jobs[j], workers[w].key, ResultOf(w))
  <2>1. /\ MayRecord(w) /\ Record(w)
        /\ \A v \in Workers : Busy(v)' => Busy(v) /\ workers'[v].job = workers[v].job
    BY <1>3, <1>i, FinishWorkers
  <2>2. ~KeyTaken(jobs[j], workers[w].key)
    BY <1>3, <1>i, FinishWorkers, RecordIInv
  <2>3. /\ j \in Jobs /\ jobs[j] \in JobType /\ jobs[j].attempts < MaxAttempts
        /\ workers[w].key \in 1 .. MaxAttempts /\ ResultOf(w) \in {"sent", "failed"}
    BY <1>i, <2>1, WorkerAssumptions DEF IInv, TypeOK, WorkerType, MayRecord, OwnsLease,
       LeasedJobsHaveAttempts, BusyWorkersHaveKeys, Busy, ResultOf
  <2>4. row.status = IF ResultOf(w) = "sent" THEN "completed" ELSE "failed"
    BY <2>2, <2>3, RecordedRow
  <2>5. jobs' = [jobs EXCEPT ![j] = row]
    BY <2>1 DEF Record
  <2>6. Busy(w) /\ \A v \in Workers : Busy(v) /\ v # w => workers[v].job # j
    BY <2>1 DEF EInv, ExclusiveDispatch, Busy, MayRecord
  <2> HIDE DEF j, row
  <2>7. jobs'[j] = row /\ \A i \in Jobs : i # j => jobs'[i] = jobs[i]
    BY <1>i, <2>3, <2>5 DEF IInv, TypeOK
  <2>8. Busy(w)' => ResultOf(w) = "sent"
    <3>1. CASE Finish(w)
      <4>1. workers'[w] = IdleWorker(FALSE)
        BY <1>i, <3>1 DEF Finish, IInv, TypeOK
      <4> QED
        BY <4>1, IdleWorkerRow DEF Busy
    <3>2. CASE FinishUnanswered(w)
      <4>1. workers'[w] = AfterError(workers[w])
        BY <1>i, <3>2 DEF FinishUnanswered, IInv, TypeOK
      <4> QED
        BY <1>i, <4>1, AfterErrorRow DEF Busy, ResultOf, IInv, TypeOK
    <3> QED
      BY <1>3, <3>1, <3>2
  <2>9. \A v \in Workers : Busy(v)' /\ v # w => jobs'[workers[v].job] = jobs[workers[v].job]
    BY <1>t, <2>1, <2>6, <2>7
  <2>10. Busy(w)' => jobs'[workers[w].job].status = "completed"
    BY <2>4, <2>7, <2>8 DEF j
  <2> QED
    BY <1>k, <2>1, <2>9, <2>10
<1>4. ASSUME NEW w \in Workers, Crash(w) \/ Exit(w) PROVE EInv'
  <2>1. Replaced(w) /\ faults' \in 0 .. MaxFaults
    BY <1>4, <1>i, FaultType DEF Crash, Exit, IInv, TypeOK
  <2>2. /\ \A j \in Jobs : jobs'[j].status = jobs[j].status /\ jobs'[j].due = jobs[j].due
        /\ \A v \in Workers : Busy(v)' => v # w /\ workers'[v] = workers[v]
        /\ \A v \in Workers : v # w => \A j \in Jobs : OwnsLease(jobs'[j], v) <=> OwnsLease(jobs[j], v)
    BY <1>i, <2>1, ReplacedIInv
  <2>3. \A v \in Workers : Busy(v)' => Busy(v) /\ workers'[v].job = workers[v].job
    BY <2>2 DEF Busy
  <2> QED
    BY <1>k, <1>t, <2>2, <2>3
<1>5. CASE UNCHANGED vars
  BY <1>5, <1>k DEF vars, Busy
<1> QED
  BY <1>1, <1>2, <1>3, <1>4, <1>5, <1>i, StepKinds

\* If leases outlive sends, no two workers ever send the same follow-up or
\* record its result at the same time, through crashes, stops, failed
\* transactions, lost answers and cancellations.
THEOREM DispatchIsExclusive ==
  ASSUME "overrun" \notin Faults
  PROVE  Spec => []ExclusiveDispatch
<1>1. Init => EInv
  <2> SUFFICES ASSUME Init PROVE EInv
    OBVIOUS
  <2>1. \A w \in Workers : workers[w].at = "idle"
    BY IdleWorkerRow DEF Init
  <2> QED
    BY <2>1, InitIInv DEF EInv, BusyWorkersHoldLeases, Busy, ExclusiveDispatch
<1>2. EInv /\ [Next]_vars => EInv'
  BY NextEInv
<1>3. EInv => ExclusiveDispatch
  BY DEF EInv
<1> QED
  BY <1>1, <1>2, <1>3, PTL DEF Spec

-----------------------------------------------------------------------------
(* Attempts: a job's entries are as many as its attempts, and the only one *)
(* that was sent completed it. A worker that is about to record a sent     *)
(* message has sent it, or its process remembers that it had.              *)

SentEntries(job) == {e \in job.recorded : e.result = "sent"}
SentKeysOf(job) == {entry.key : entry \in SentEntries(job)}

EntriesCount(j) ==
  /\ IsFiniteSet(jobs[j].recorded)
  /\ Cardinality(jobs[j].recorded) = jobs[j].attempts
  /\ jobs[j].status = "completed" => SentKeysOf(jobs[j]) = {jobs[j].attempts} /\ delivered[j] > 0
  /\ jobs[j].status # "completed" => SentEntries(jobs[j]) = {}

RecordInv ==
  /\ \A j \in Jobs : EntriesCount(j)
  /\ \A w \in Workers : workers[w].at = "completing" => delivered[workers[w].job] > 0
  /\ \A w \in Workers : \A entry \in sentKeys[w] : delivered[entry[1]] > 0

LEMMA InitRecordInv == Init => RecordInv
<1> SUFFICES ASSUME Init PROVE RecordInv
  OBVIOUS
<1>1. \A j \in Jobs : jobs[j].status = "scheduled" /\ jobs[j].attempts = 0 /\ jobs[j].recorded = {}
  BY DEF Init, ScheduledJob
<1>2. \A j \in Jobs : EntriesCount(j)
  BY <1>1, FS_EmptySet DEF EntriesCount, SentEntries
<1>3. \A w \in Workers : workers[w].at = "idle" /\ sentKeys[w] = {}
  BY IdleWorkerRow DEF Init
<1> QED
  BY <1>2, <1>3 DEF RecordInv

\* A row whose entries and completion stay, while no message is taken back.
LEMMA EntriesStay ==
  ASSUME NEW j \in Jobs, EntriesCount(j), jobs'[j].recorded = jobs[j].recorded,
         jobs'[j].attempts = jobs[j].attempts,
         jobs'[j].status = "completed" <=> jobs[j].status = "completed",
         delivered'[j] > 0 \/ delivered'[j] = delivered[j]
  PROVE  EntriesCount(j)'
BY DEF EntriesCount, SentEntries, SentKeysOf

LEMMA SendRecordInv ==
  ASSUME IInv, RecordInv, NEW w \in Workers, Send(w) PROVE RecordInv'
<1> DEFINE j == workers[w].job
           entry == <<j, workers[w].key>>
<1>1. /\ workers[w].at = "sending" /\ j \in Jobs /\ workers[w] \in WorkerType
      /\ jobs' = jobs /\ workers' = [workers EXCEPT ![w].at = "completing"]
      /\ delivered' = IF Remembered(w) THEN delivered ELSE [delivered EXCEPT ![j] = @ + 1]
      /\ sentKeys' = [sentKeys EXCEPT ![w] = @ \cup {entry}]
  BY DEF Send, IInv, TypeOK, WorkerType
<1>2. /\ \A v \in Workers : v # w => workers'[v] = workers[v]
      /\ workers'[w].at = "completing" /\ workers'[w].job = j
  BY <1>1 DEF IInv, TypeOK, WorkerType
<1>3. delivered \in [Jobs -> Nat]
  BY DEF IInv, TypeOK
<1>4. /\ delivered'[j] > 0
      /\ \A i \in Jobs : delivered'[i] = delivered[i] \/ delivered'[i] > 0
      /\ \A i \in Jobs : delivered[i] > 0 => delivered'[i] > 0
  <2>1. CASE Remembered(w)
    <3>1. entry \in sentKeys[w] /\ entry[1] = j
      BY <2>1 DEF Remembered
    <3>2. delivered[j] > 0
      BY <3>1 DEF RecordInv
    <3> QED
      BY <1>1, <2>1, <3>2
  <2>2. CASE ~Remembered(w)
    <3>1. delivered' = [delivered EXCEPT ![j] = @ + 1]
      BY <1>1, <2>2
    <3> QED
      BY <1>1, <1>3, <3>1
  <2> QED
    BY <2>1, <2>2
<1>5. ASSUME NEW i \in Jobs PROVE EntriesCount(i)'
  BY <1>1, <1>4, EntriesStay DEF RecordInv
<1>6. ASSUME NEW v \in Workers, workers'[v].at = "completing" PROVE delivered'[workers'[v].job] > 0
  <2>1. CASE v = w
    BY <1>2, <1>4, <2>1
  <2>2. CASE v # w
    <3>1. workers[v].job \in Jobs /\ delivered[workers[v].job] > 0
      BY <1>2, <1>6, <2>2 DEF RecordInv, IInv, TypeOK, WorkerType
    <3> QED
      BY <1>2, <1>4, <2>2, <3>1
  <2> QED
    BY <2>1, <2>2
<1>7. ASSUME NEW v \in Workers, NEW e \in sentKeys'[v] PROVE delivered'[e[1]] > 0
  <2>1. CASE e \in sentKeys[v]
    <3>1. e[1] \in Jobs /\ delivered[e[1]] > 0
      BY <2>1 DEF RecordInv, IInv, TypeOK
    <3> QED
      BY <1>4, <3>1
  <2>2. CASE e \notin sentKeys[v]
    <3>1. e = entry
      BY <1>1, <2>2 DEF IInv, TypeOK
    <3> QED
      BY <1>4, <3>1
  <2> QED
    BY <2>1, <2>2
<1> QED
  BY <1>5, <1>6, <1>7 DEF RecordInv

\* A step that sends nothing, records nothing and completes nothing.
LEMMA QuietRecordInv ==
  ASSUME IInv, RecordInv, delivered' = delivered,
         \A j \in Jobs : /\ jobs'[j].recorded = jobs[j].recorded
                         /\ jobs'[j].attempts = jobs[j].attempts
                         /\ jobs'[j].status = "completed" <=> jobs[j].status = "completed",
         \A w \in Workers : workers'[w].at = "completing" => workers'[w] = workers[w]
                                                             \/ /\ workers[w].at = "completing"
                                                                /\ workers'[w].job = workers[w].job,
         \A w \in Workers : sentKeys'[w] \subseteq sentKeys[w]
  PROVE  RecordInv'
<1>1. \A j \in Jobs : EntriesCount(j)'
  BY EntriesStay DEF RecordInv
<1> QED
  BY <1>1 DEF RecordInv

\* The owner of the lease records its attempt.
LEMMA FinishRecordInv ==
  ASSUME IInv, RecordInv, NEW w \in Workers, Finish(w) \/ FinishUnanswered(w) PROVE RecordInv'
<1> DEFINE j == workers[w].job
           key == workers[w].key
           result == ResultOf(w)
           entry == [key |-> key, result |-> result]
           row == Recorded(jobs[j], key, result)
<1>1. /\ MayRecord(w) /\ Record(w) /\ UNCHANGED <<sentKeys, delivered>>
      /\ ~KeyTaken(jobs[j], key)
  BY FinishWorkers, RecordIInv
<1>2. /\ jobs[j] \in JobType /\ j \in Jobs /\ Busy(w) /\ OwnsLease(jobs[j], w)
      /\ jobs[j].attempts < MaxAttempts /\ jobs[j].attempts \in Nat
      /\ key = jobs[j].attempts + 1 /\ jobs[j].status = "leased"
  BY <1>1 DEF IInv, TypeOK, WorkerType, JobType, MayRecord, Busy, OwnsLease, LeasedJobsHaveAttempts,
              AttemptKeyIsFresh
<1>3. key \in 1 .. MaxAttempts /\ result \in {"sent", "failed"}
  BY <1>2, WorkerAssumptions DEF ResultOf
<1>4. /\ row.status = IF result = "sent" THEN "completed" ELSE "failed"
      /\ row.attempts = jobs[j].attempts + 1
      /\ row.recorded = jobs[j].recorded \cup {entry}
  BY <1>1, <1>2, <1>3, RecordedRow
<1>5. jobs' = [jobs EXCEPT ![j] = row]
  BY <1>1 DEF Record
<1>6. entry.key = key /\ entry.result = result /\ entry \notin jobs[j].recorded
  BY <1>1 DEF KeyTaken
<1>7. result = "sent" => delivered[j] > 0
  BY <1>1 DEF ResultOf, RecordInv
<1> HIDE DEF row, entry, result
<1>8. jobs'[j] = row /\ \A i \in Jobs : i # j => jobs'[i] = jobs[i]
  BY <1>2, <1>5 DEF IInv, TypeOK
<1>9. EntriesCount(j)
  BY <1>2 DEF RecordInv
<1>10. /\ IsFiniteSet(row.recorded) /\ Cardinality(row.recorded) = row.attempts
  <2> DEFINE before == jobs[j].recorded
  <2>1. IsFiniteSet(before) /\ Cardinality(before) = jobs[j].attempts /\ entry \notin before
    BY <1>6, <1>9 DEF EntriesCount
  <2> HIDE DEF before
  <2>2. IsFiniteSet(before \cup {entry}) /\ Cardinality(before \cup {entry}) = Cardinality(before) + 1
    BY <2>1, FS_AddElement
  <2> QED
    BY <1>4, <2>1, <2>2 DEF before
<1>11. row.status = "completed" => SentKeysOf(row) = {row.attempts} /\ delivered[j] > 0
  <2> SUFFICES ASSUME row.status = "completed" PROVE SentKeysOf(row) = {row.attempts} /\ delivered[j] > 0
    OBVIOUS
  <2>1. result = "sent"
    BY <1>4
  <2>2. SentEntries(row) = {entry}
    BY <1>2, <1>4, <1>6, <1>9, <2>1 DEF SentEntries, EntriesCount
  <2> QED
    BY <1>2, <1>4, <1>6, <1>7, <2>1, <2>2 DEF SentKeysOf
<1>12. row.status # "completed" => SentEntries(row) = {}
  BY <1>2, <1>4, <1>6, <1>9 DEF SentEntries, EntriesCount
<1>13. ASSUME NEW i \in Jobs PROVE EntriesCount(i)'
  <2>1. CASE i = j
    BY <1>1, <1>8, <1>10, <1>11, <1>12, <2>1 DEF EntriesCount, SentEntries, SentKeysOf
  <2>2. CASE i # j
    BY <1>1, <1>8, <2>2, EntriesStay DEF RecordInv
  <2> QED
    BY <2>1, <2>2
<1>14. ASSUME NEW v \in Workers, workers'[v].at = "completing" PROVE v # w /\ workers'[v] = workers[v]
  <2>1. AfterError(workers[w]).at # "completing" /\ IdleWorker(FALSE).at # "completing"
    BY DEF AfterError, IdleWorker, IInv, TypeOK, WorkerType
  <2> QED
    BY <1>14, <2>1 DEF Finish, FinishUnanswered, IInv, TypeOK
<1> QED
  BY <1>1, <1>13, <1>14 DEF RecordInv

LEMMA StepRecordInv == IInv /\ RecordInv /\ [Next]_vars => RecordInv'
<1> SUFFICES ASSUME IInv, RecordInv, [Next]_vars PROVE RecordInv'
  OBVIOUS
<1>t. /\ workers \in [Workers -> WorkerType] /\ jobs \in [Jobs -> JobType]
      /\ sentKeys \in [Workers -> SUBSET (Jobs \X (1 .. MaxAttempts))]
  BY DEF IInv, TypeOK
<1>1. ASSUME NEW w \in Workers, Send(w) PROVE RecordInv'
  BY <1>1, SendRecordInv
<1>2. ASSUME NEW w \in Workers, SendFails(w) \/ FinishRefused(w) \/ FinishError(w) \/ Stop(w)
      PROVE  RecordInv'
  <2>1. jobs' = jobs /\ sentKeys' = sentKeys /\ delivered' = delivered
    BY <1>2 DEF SendFails, FinishRefused, FinishError, Stop
  <2>2. PICK worker : /\ workers' = [workers EXCEPT ![w] = worker]
                      /\ worker.at = "completing" => /\ workers[w].at = "completing"
                                                     /\ worker.job = workers[w].job
    <3>1. CASE SendFails(w)
      <4>1. [workers[w] EXCEPT !.at = "failing"].at = "failing"
        BY <1>t DEF WorkerType
      <4> QED
        BY <3>1, <4>1 DEF SendFails
    <3>2. CASE FinishRefused(w) \/ FinishError(w)
      <4>1. AfterError(workers[w]).at # "completing"
        BY <1>t DEF AfterError, IdleWorker, WorkerType
      <4> QED
        BY <3>2, <4>1 DEF FinishRefused, FinishError
    <3>3. CASE Stop(w)
      <4>1. /\ [workers[w] EXCEPT !.stopping = TRUE].at = workers[w].at
            /\ [workers[w] EXCEPT !.stopping = TRUE].job = workers[w].job
        BY <1>t DEF WorkerType
      <4> QED
        BY <3>3, <4>1 DEF Stop
    <3> QED
      BY <1>2, <3>1, <3>2, <3>3
  <2>3. \A v \in Workers : workers'[v].at = "completing" =>
          workers[v].at = "completing" /\ workers'[v].job = workers[v].job
    BY <1>t, <2>2
  <2> QED
    BY <2>1, <2>3, QuietRecordInv
<1>3. ASSUME NEW j \in Jobs, BecomeDue(j) \/ Overrun(j) \/ CancelFollowUp(j) PROVE RecordInv'
  <2>1. workers' = workers /\ sentKeys' = sentKeys /\ delivered' = delivered
    BY <1>3 DEF BecomeDue, Overrun, CancelFollowUp
  <2>2. PICK row : /\ jobs' = [jobs EXCEPT ![j] = row]
                   /\ row.recorded = jobs[j].recorded /\ row.attempts = jobs[j].attempts
                   /\ row.status = "completed" <=> jobs[j].status = "completed"
    <3>1. CASE BecomeDue(j) \/ Overrun(j)
      <4>1. /\ [jobs[j] EXCEPT !.due = TRUE].recorded = jobs[j].recorded
            /\ [jobs[j] EXCEPT !.due = TRUE].attempts = jobs[j].attempts
            /\ [jobs[j] EXCEPT !.due = TRUE].status = jobs[j].status
        BY <1>t DEF JobType
      <4> QED
        BY <3>1, <4>1 DEF BecomeDue, Overrun
    <3>2. CASE CancelFollowUp(j)
      BY <1>t, <3>2, CancelledRow DEF CancelFollowUp, Open
    <3> QED
      BY <1>3, <3>1, <3>2
  <2>3. \A i \in Jobs : /\ jobs'[i].recorded = jobs[i].recorded
                        /\ jobs'[i].attempts = jobs[i].attempts
                        /\ jobs'[i].status = "completed" <=> jobs[i].status = "completed"
    BY <1>t, <2>2
  <2> QED
    BY <2>1, <2>3, QuietRecordInv
<1>4. ASSUME NEW w \in Workers, NEW j \in Jobs, ClaimDueFollowUp(w, j) \/ ClaimUnanswered(w, j)
      PROVE  RecordInv'
  <2>1. /\ Claimable(jobs[j]) /\ jobs' = [jobs EXCEPT ![j] = Leased(jobs[j], w)]
        /\ sentKeys' = sentKeys /\ delivered' = delivered
        /\ \/ workers' = workers
           \/ workers' = [workers EXCEPT ![w].at = "sending", ![w].job = j,
                                         ![w].key = AttemptKey(jobs[j])]
    BY <1>4 DEF ClaimDueFollowUp, ClaimUnanswered
  <2>2. /\ Leased(jobs[j], w).recorded = jobs[j].recorded
        /\ Leased(jobs[j], w).attempts = jobs[j].attempts
        /\ Leased(jobs[j], w).status # "completed" /\ jobs[j].status # "completed"
    BY <1>t, <2>1, LeasedRow DEF Claimable, Open
  <2>3. \A i \in Jobs : /\ jobs'[i].recorded = jobs[i].recorded
                        /\ jobs'[i].attempts = jobs[i].attempts
                        /\ jobs'[i].status = "completed" <=> jobs[i].status = "completed"
    BY <1>t, <2>1, <2>2
  <2>4. \A v \in Workers : workers'[v].at = "completing" => workers'[v] = workers[v]
    BY <1>t, <2>1 DEF WorkerType
  <2> QED
    BY <2>1, <2>3, <2>4, QuietRecordInv
<1>5. ASSUME NEW w \in Workers, Finish(w) \/ FinishUnanswered(w) PROVE RecordInv'
  BY <1>5, FinishRecordInv
<1>6. ASSUME NEW w \in Workers, Crash(w) \/ Exit(w) PROVE RecordInv'
  <2>1. Replaced(w)
    BY <1>6 DEF Crash, Exit
  <2>2. /\ delivered' = delivered /\ sentKeys' = [sentKeys EXCEPT ![w] = {}]
        /\ workers' = [workers EXCEPT ![w] = IdleWorker(FALSE)]
        /\ jobs' = [j \in Jobs |-> IF jobs[j].owner = w THEN [jobs[j] EXCEPT !.owner = Gone] ELSE jobs[j]]
    BY <2>1 DEF Replaced
  <2>3. \A i \in Jobs : /\ jobs'[i].recorded = jobs[i].recorded
                        /\ jobs'[i].attempts = jobs[i].attempts
                        /\ jobs'[i].status = jobs[i].status
    BY <1>t, <2>2 DEF JobType
  <2>4. \A v \in Workers : workers'[v].at = "completing" => workers'[v] = workers[v]
    BY <1>t, <2>2, IdleWorkerRow
  <2>5. \A v \in Workers : sentKeys'[v] \subseteq sentKeys[v]
    BY <1>t, <2>2
  <2> QED
    BY <2>2, <2>3, <2>4, <2>5, QuietRecordInv
<1>7. CASE UNCHANGED vars
  BY <1>7, QuietRecordInv DEF vars
<1> QED
  BY <1>1, <1>2, <1>3, <1>4, <1>5, <1>6, <1>7 DEF Next, RunOnce

LEMMA RecordInvHolds == Spec => [](IInv /\ RecordInv)
<1>1. Init => IInv /\ RecordInv
  BY InitIInv, InitRecordInv
<1>2. (IInv /\ RecordInv) /\ [Next]_vars => (IInv /\ RecordInv)'
  BY NextIInv, StepRecordInv
<1> QED
  BY <1>1, <1>2, PTL DEF Spec

\* Whatever is lost between a send and its record, the counter of a follow-up, its entries and
\* its status tell one story. (finishFollowUp, claim_follow_up_job)
THEOREM AttemptsAreAlwaysOnRecord == Spec => []AttemptsAreOnRecord
<1>1. IInv /\ RecordInv => AttemptsAreOnRecord
  <2> SUFFICES ASSUME IInv, RecordInv, NEW j \in Jobs
               PROVE  /\ {entry.key : entry \in jobs[j].recorded} = 1 .. jobs[j].attempts
                      /\ Cardinality(jobs[j].recorded) = jobs[j].attempts
                      /\ {entry.key : entry \in {e \in jobs[j].recorded : e.result = "sent"}} =
                           IF jobs[j].status = "completed" THEN {jobs[j].attempts} ELSE {}
                      /\ jobs[j].status = "leased" => jobs[j].attempts < MaxAttempts
                      /\ jobs[j].status = "completed" => delivered[j] > 0
    BY DEF AttemptsAreOnRecord
  <2>1. EntriesCount(j) /\ jobs[j] \in JobType
    BY DEF RecordInv, IInv, TypeOK
  <2>2. \A key \in 1 .. MaxAttempts : KeyTaken(jobs[j], key) <=> key <= jobs[j].attempts
    BY DEF IInv, KeysCountAttempts
  <2>3. {entry.key : entry \in jobs[j].recorded} = 1 .. jobs[j].attempts
    <3>1. \A entry \in jobs[j].recorded : entry.key \in 1 .. MaxAttempts /\ KeyTaken(jobs[j], entry.key)
      BY <2>1 DEF JobType, KeyTaken
    <3>2. \A key \in 1 .. jobs[j].attempts : KeyTaken(jobs[j], key)
      BY <2>1, <2>2, WorkerAssumptions DEF JobType
    <3>3. \A entry \in jobs[j].recorded : entry.key \in 1 .. jobs[j].attempts
      BY <2>1, <2>2, <3>1, WorkerAssumptions DEF JobType
    <3> QED
      BY <3>2, <3>3 DEF KeyTaken
  <2>4. {entry.key : entry \in {e \in jobs[j].recorded : e.result = "sent"}} =
          IF jobs[j].status = "completed" THEN {jobs[j].attempts} ELSE {}
    BY <2>1 DEF EntriesCount, SentKeysOf, SentEntries
  <2> QED
    BY <2>1, <2>3, <2>4 DEF EntriesCount, IInv, LeasedJobsHaveAttempts
<1> QED
  BY <1>1, RecordInvHolds, PTL

-----------------------------------------------------------------------------
(* Messages: each follow-up has a budget of one message and one more for   *)
(* every fault. A worker that is sending holds a message of the budget; so *)
(* does a follow-up that may be claimed again, or will be without any      *)
(* further fault.                                                          *)

Sending(j) == {w \in Workers : workers[w].at = "sending" /\ workers[w].job = j}

\* The worker that has the job will send it or record that it sent it.
Safe(j) ==
  \/ jobs[j].status \notin Open
  \/ /\ ~jobs[j].due
     /\ \E w \in Workers : /\ workers[w].at \in {"sending", "completing"} /\ workers[w].job = j
                           /\ ~workers[w].stopping /\ OwnsLease(jobs[j], w)

Pending(j) == IF Safe(j) THEN 0 ELSE 1

Budget(j) ==
  /\ IsFiniteSet(Sending(j))
  /\ delivered[j] + Cardinality(Sending(j)) + Pending(j) <= 1 + faults

BudgetInv == \A j \in Jobs : Budget(j)

LEMMA BudgetTypes ==
  ASSUME IInv, NEW j \in Jobs
  PROVE  delivered[j] \in Nat /\ faults \in Nat
         /\ Pending(j) \in {0, 1} /\ (Pending(j) = 0 <=> Safe(j))
BY WorkerAssumptions DEF IInv, TypeOK, Pending

LEMMA InitBudgetInv == Init => BudgetInv
<1> SUFFICES ASSUME Init, NEW j \in Jobs PROVE Budget(j)
  BY DEF BudgetInv
<1>1. Sending(j) = {}
  BY IdleWorkerRow DEF Init, Sending
<1>2. delivered[j] = 0 /\ faults = 0 /\ Pending(j) \in {0, 1}
  BY DEF Init, Pending
<1> QED
  BY <1>1, <1>2, FS_EmptySet DEF Budget

\* A step without a new message takes no more than the fault it costs.
LEMMA BudgetKept ==
  ASSUME IInv, IInv', NEW j \in Jobs, Budget(j), Sending(j)' \subseteq Sending(j),
         delivered'[j] = delivered[j],
         \/ faults' = faults + 1
         \/ faults' = faults /\ (Safe(j) => Safe(j)')
  PROVE  Budget(j)'
<1> DEFINE S == Sending(j)
           T == Sending(j)'
<1>1. IsFiniteSet(S) /\ delivered[j] + Cardinality(S) + Pending(j) <= 1 + faults /\ T \subseteq S
  BY DEF Budget
<1> HIDE DEF S, T
<1>2. /\ IsFiniteSet(T) /\ Cardinality(T) <= Cardinality(S)
      /\ Cardinality(S) \in Nat /\ Cardinality(T) \in Nat
  BY <1>1, FS_Subset, FS_CardinalityType
<1>3. /\ delivered[j] \in Nat /\ faults \in Nat
      /\ Pending(j) \in {0, 1} /\ (Pending(j) = 0 <=> Safe(j))
  BY BudgetTypes
<1>4. Pending(j)' \in {0, 1} /\ (Pending(j)' = 0 <=> Safe(j)')
  BY DEF Pending
<1>5. delivered'[j] + Cardinality(T) + Pending(j)' <= 1 + faults'
  <2>1. CASE faults' = faults + 1
    BY <1>1, <1>2, <1>3, <1>4, <2>1
  <2>2. CASE faults' = faults /\ (Safe(j) => Safe(j)')
    <3>1. Pending(j)' <= Pending(j)
      BY <1>3, <1>4, <2>2
    <3> QED
      BY <1>1, <1>2, <1>3, <1>4, <2>2, <3>1
  <2> QED
    BY <2>1, <2>2
<1> QED
  BY <1>2, <1>5 DEF Budget, T

\* A claim passes the message that a follow-up may yet cost on to the worker that sends it.
LEMMA BudgetClaimed ==
  ASSUME IInv, NEW j \in Jobs, NEW w \in Workers, Budget(j), w \notin Sending(j),
         Sending(j)' = Sending(j) \cup {w}, ~Safe(j), Safe(j)',
         delivered'[j] = delivered[j], faults' = faults
  PROVE  Budget(j)'
<1> DEFINE S == Sending(j)
           T == Sending(j)'
<1>1. /\ IsFiniteSet(S) /\ delivered[j] + Cardinality(S) + Pending(j) <= 1 + faults
      /\ T = S \cup {w} /\ w \notin S
  BY DEF Budget
<1> HIDE DEF S, T
<1>2. IsFiniteSet(T) /\ Cardinality(T) = Cardinality(S) + 1 /\ Cardinality(S) \in Nat
  BY <1>1, FS_AddElement, FS_CardinalityType
<1>3. delivered[j] \in Nat /\ faults \in Nat /\ Pending(j) = 1
  BY BudgetTypes DEF Pending
<1>4. Pending(j)' = 0
  BY DEF Pending
<1>5. delivered'[j] + Cardinality(T) + Pending(j)' <= 1 + faults'
  BY <1>1, <1>2, <1>3, <1>4
<1> QED
  BY <1>2, <1>5 DEF Budget, T

\* A worker that has stopped sending has used its message or passes it back to the follow-up.
LEMMA BudgetSpent ==
  ASSUME IInv, NEW j \in Jobs, NEW w \in Sending(j), Budget(j),
         Sending(j)' = Sending(j) \ {w}, faults' = faults,
         \/ delivered'[j] = delivered[j]
         \/ delivered'[j] = delivered[j] + 1 /\ (Safe(j) => Safe(j)')
  PROVE  Budget(j)'
<1> DEFINE S == Sending(j)
           T == Sending(j)'
<1>1. /\ IsFiniteSet(S) /\ delivered[j] + Cardinality(S) + Pending(j) <= 1 + faults
      /\ T = S \ {w} /\ w \in S
  BY DEF Budget
<1> HIDE DEF S, T
<1>2. IsFiniteSet(T) /\ Cardinality(T) = Cardinality(S) - 1 /\ Cardinality(S) \in Nat
  BY <1>1, FS_RemoveElement, FS_CardinalityType
<1>3. /\ delivered[j] \in Nat /\ faults \in Nat
      /\ Pending(j) \in {0, 1} /\ (Pending(j) = 0 <=> Safe(j))
  BY BudgetTypes
<1>4. Pending(j)' \in {0, 1} /\ (Pending(j)' = 0 <=> Safe(j)')
  BY DEF Pending
<1>5. delivered'[j] + Cardinality(T) + Pending(j)' <= 1 + faults'
  <2>1. CASE delivered'[j] = delivered[j]
    BY <1>1, <1>2, <1>3, <1>4, <2>1
  <2>2. CASE delivered'[j] = delivered[j] + 1 /\ (Safe(j) => Safe(j)')
    <3>1. Pending(j)' <= Pending(j)
      BY <1>3, <1>4, <2>2
    <3> QED
      BY <1>1, <1>2, <1>3, <1>4, <2>2, <3>1
  <2> QED
    BY <2>1, <2>2
<1> QED
  BY <1>2, <1>5 DEF Budget, T

-----------------------------------------------------------------------------
(* The steps against the budget                                            *)

\* A safe follow-up stays so while its worker and its lease are left alone.
LEMMA SafeStays ==
  ASSUME NEW j \in Jobs, Safe(j),
         jobs[j].status \notin Open => jobs'[j].status \notin Open,
         jobs[j].status \in Open => jobs'[j] = jobs[j],
         \A w \in Workers :
           workers[w].at \in {"sending", "completing"} /\ workers[w].job = j /\ ~workers[w].stopping
             /\ OwnsLease(jobs[j], w) =>
           workers'[w].at \in {"sending", "completing"} /\ workers'[w].job = j /\ ~workers'[w].stopping
  PROVE  Safe(j)'
<1>1. CASE jobs[j].status \notin Open
  BY <1>1 DEF Safe
<1>2. CASE jobs[j].status \in Open
  <2>1. PICK w \in Workers : /\ workers[w].at \in {"sending", "completing"} /\ workers[w].job = j
                             /\ ~workers[w].stopping /\ OwnsLease(jobs[j], w)
    BY <1>2 DEF Safe
  <2>2. jobs'[j] = jobs[j] /\ ~jobs[j].due
    BY <1>2 DEF Safe
  <2> QED
    BY <2>1, <2>2 DEF Safe, OwnsLease
<1> QED
  BY <1>1, <1>2

\* Steps that cost a fault.
LEMMA FaultKeepsBudget ==
  ASSUME IInv, IInv', BudgetInv, NEW w \in Workers,
         \/ \E j \in Jobs : ClaimUnanswered(w, j) \/ Overrun(j)
         \/ FinishUnanswered(w) \/ FinishError(w) \/ Crash(w) \/ Stop(w)
  PROVE  BudgetInv'
<1> SUFFICES ASSUME NEW j \in Jobs PROVE Budget(j)'
  BY DEF BudgetInv
<1>1. faults' = faults + 1 /\ delivered' = delivered
  BY DEF ClaimUnanswered, Overrun, FinishUnanswered, FinishError, Crash, Stop, Replaced, Fault
<1>2. \A v \in Workers : workers'[v].at = "sending" =>
        workers[v].at = "sending" /\ workers'[v].job = workers[v].job
  <2>1. AfterError(workers[w]).at # "sending" /\ IdleWorker(FALSE).at # "sending"
    BY DEF AfterError, IdleWorker, IInv, TypeOK, WorkerType
  <2>2. \/ workers' = workers
        \/ workers' = [workers EXCEPT ![w] = AfterError(workers[w])]
        \/ workers' = [workers EXCEPT ![w] = IdleWorker(FALSE)]
        \/ workers' = [workers EXCEPT ![w] = [workers[w] EXCEPT !.stopping = TRUE]]
    BY DEF ClaimUnanswered, Overrun, FinishUnanswered, FinishError, Crash, Stop, Replaced
  <2>3. workers \in [Workers -> WorkerType]
    BY DEF IInv, TypeOK
  <2>4. /\ [workers[w] EXCEPT !.stopping = TRUE].at = workers[w].at
        /\ [workers[w] EXCEPT !.stopping = TRUE].job = workers[w].job
    BY <2>3 DEF WorkerType
  <2>5. \A v \in Workers : v # w => workers'[v] = workers[v]
    BY <2>2, <2>3
  <2>6. workers'[w] \in {workers[w], AfterError(workers[w]), IdleWorker(FALSE),
                         [workers[w] EXCEPT !.stopping = TRUE]}
    BY <2>2, <2>3
  <2> QED
    BY <2>1, <2>4, <2>5, <2>6
<1>3. Sending(j)' \subseteq Sending(j)
  BY <1>2 DEF Sending
<1> QED
  BY <1>1, <1>3, BudgetKept DEF BudgetInv

LEMMA TimeAndCancelKeepBudget ==
  ASSUME IInv, IInv', BudgetInv, NEW i \in Jobs, BecomeDue(i) \/ CancelFollowUp(i)
  PROVE  BudgetInv'
<1> SUFFICES ASSUME NEW j \in Jobs PROVE Budget(j)'
  BY DEF BudgetInv
<1>1. workers' = workers /\ faults' = faults /\ delivered' = delivered
  BY DEF BecomeDue, CancelFollowUp
<1>2. \A k \in Jobs : k # i => jobs'[k] = jobs[k]
  BY DEF BecomeDue, CancelFollowUp, IInv, TypeOK
<1>3. Sending(j)' = Sending(j)
  BY <1>1 DEF Sending
<1>4. Safe(j) => Safe(j)'
  <2>1. CASE j # i
    BY <1>1, <1>2, <2>1, SafeStays
  <2>2. CASE j = i /\ BecomeDue(i)
    BY <2>2 DEF BecomeDue, InUse, Safe
  <2>3. CASE j = i /\ CancelFollowUp(i)
    <3>1. jobs'[j].status = "cancelled"
      BY <2>3, CancelledRow DEF CancelFollowUp, IInv, TypeOK
    <3> QED
      BY <3>1 DEF Safe, Open
  <2> QED
    BY <2>1, <2>2, <2>3
<1> QED
  BY <1>1, <1>3, <1>4, BudgetKept DEF BudgetInv

LEMMA ClaimKeepsBudget ==
  ASSUME IInv, IInv', BudgetInv, NEW w \in Workers, NEW i \in Jobs, ClaimDueFollowUp(w, i)
  PROVE  BudgetInv'
<1> SUFFICES ASSUME NEW j \in Jobs PROVE Budget(j)'
  BY DEF BudgetInv
<1>1. /\ workers[w].at = "idle" /\ ~workers[w].stopping /\ Claimable(jobs[i])
      /\ jobs' = [jobs EXCEPT ![i] = Leased(jobs[i], w)]
      /\ workers' = [workers EXCEPT ![w].at = "sending", ![w].job = i, ![w].key = AttemptKey(jobs[i])]
      /\ delivered' = delivered /\ faults' = faults
  BY DEF ClaimDueFollowUp
<1>2. /\ workers'[w].at = "sending" /\ workers'[w].job = i /\ workers'[w].stopping = workers[w].stopping
      /\ \A v \in Workers : v # w => workers'[v] = workers[v]
  BY <1>1 DEF IInv, TypeOK, WorkerType
<1>3. /\ jobs'[i].status = "leased" /\ jobs'[i].owner = w /\ jobs'[i].due = FALSE
      /\ \A k \in Jobs : k # i => jobs'[k] = jobs[k]
  <2>1. /\ Leased(jobs[i], w).status = "leased" /\ Leased(jobs[i], w).owner = w
        /\ Leased(jobs[i], w).due = FALSE
    BY LeasedRow DEF IInv, TypeOK
  <2> QED
    BY <1>1, <2>1 DEF IInv, TypeOK
<1>4. CASE j = i
  <2>1. w \notin Sending(j) /\ Sending(j)' = Sending(j) \cup {w}
    BY <1>1, <1>2, <1>4 DEF Sending
  <2>2. ~Safe(j)
    BY <1>1, <1>4 DEF Safe, Claimable
  <2>3. Safe(j)'
    BY <1>1, <1>2, <1>3, <1>4 DEF Safe, OwnsLease
  <2> QED
    BY <1>1, <2>1, <2>2, <2>3, BudgetClaimed DEF BudgetInv
<1>5. CASE j # i
  <2>1. Sending(j)' = Sending(j)
    BY <1>1, <1>2, <1>5 DEF Sending
  <2>2. Safe(j) => Safe(j)'
    BY <1>1, <1>2, <1>3, <1>5, SafeStays
  <2> QED
    BY <1>1, <2>1, <2>2, BudgetKept DEF BudgetInv
<1> QED
  BY <1>4, <1>5

LEMMA SendKeepsBudget ==
  ASSUME IInv, IInv', BudgetInv, NEW w \in Workers, Send(w) \/ SendFails(w)
  PROVE  BudgetInv'
<1> SUFFICES ASSUME NEW j \in Jobs PROVE Budget(j)'
  BY DEF BudgetInv
<1>1. workers[w].at = "sending" /\ jobs' = jobs /\ faults' = faults
  BY DEF Send, SendFails
<1>2. /\ workers'[w].at = IF Send(w) THEN "completing" ELSE "failing"
      /\ workers'[w].job = workers[w].job /\ workers'[w].stopping = workers[w].stopping
      /\ \A v \in Workers : v # w => workers'[v] = workers[v]
  <2>1. CASE Send(w)
    BY <2>1 DEF Send, IInv, TypeOK, WorkerType
  <2>2. CASE ~Send(w)
    BY <2>2 DEF SendFails, IInv, TypeOK, WorkerType
  <2> QED
    BY <2>1, <2>2
<1>3. /\ ~Send(w) => delivered' = delivered
      /\ delivered'[j] # delivered[j] => Send(w) /\ delivered'[j] = delivered[j] + 1
      /\ j # workers[w].job => delivered'[j] = delivered[j]
  BY DEF Send, SendFails, IInv, TypeOK
<1>4. CASE j = workers[w].job
  <2>1. w \in Sending(j) /\ Sending(j)' = Sending(j) \ {w}
    BY <1>1, <1>2, <1>4 DEF Sending
  <2>2. Send(w) /\ Safe(j) => Safe(j)'
    BY <1>1, <1>2, SafeStays
  <2> QED
    BY <1>1, <1>3, <2>1, <2>2, BudgetSpent DEF BudgetInv
<1>5. CASE j # workers[w].job
  <2>1. Sending(j)' = Sending(j)
    BY <1>2, <1>5 DEF Sending
  <2>2. Safe(j) => Safe(j)'
    BY <1>1, <1>2, <1>5, SafeStays
  <2> QED
    BY <1>1, <1>3, <1>5, <2>1, <2>2, BudgetKept DEF BudgetInv
<1> QED
  BY <1>4, <1>5

\* A sent message completes its follow-up; recording a failure, and being refused, saves nothing.
LEMMA FinishKeepsBudget ==
  ASSUME IInv, IInv', BudgetInv, NEW w \in Workers, Finish(w) \/ FinishRefused(w)
  PROVE  BudgetInv'
<1> SUFFICES ASSUME NEW j \in Jobs PROVE Budget(j)'
  BY DEF BudgetInv
<1> DEFINE mine == workers[w].job
<1>1. /\ workers[w].at \in {"completing", "failing"} /\ delivered' = delivered /\ faults' = faults
      /\ mine \in Jobs
  BY DEF Finish, FinishRefused, MayRecord, IInv, TypeOK, WorkerType
<1>2. /\ workers'[w].at # "sending"
      /\ \A v \in Workers : v # w => workers'[v] = workers[v]
  <2>1. AfterError(workers[w]).at # "sending" /\ IdleWorker(FALSE).at # "sending"
    BY <1>1 DEF AfterError, IdleWorker, IInv, TypeOK, WorkerType
  <2> QED
    BY <2>1 DEF Finish, FinishRefused, IInv, TypeOK
<1>3. Sending(j)' = Sending(j)
  BY <1>1, <1>2 DEF Sending
<1>4. CASE FinishRefused(w)
  <2>1. jobs' = jobs /\ ~MayRecord(w)
    BY <1>4 DEF FinishRefused
  <2>2. Safe(j) => Safe(j)'
    BY <1>1, <1>2, <2>1, SafeStays DEF MayRecord
  <2> QED
    BY <1>1, <1>3, <2>2, BudgetKept DEF BudgetInv
<1>5. CASE Finish(w)
  <2>1. MayRecord(w) /\ Record(w) /\ ~KeyTaken(jobs[mine], workers[w].key)
    BY <1>5, FinishWorkers, RecordIInv
  <2>2. OwnsLease(jobs[mine], w)
    BY <2>1 DEF MayRecord
  <2>3. \A k \in Jobs : k # mine => jobs'[k] = jobs[k]
    BY <2>1 DEF Record, IInv, TypeOK
  <2>4. Safe(j) => Safe(j)'
    <3>1. CASE j # mine
      <4>1. jobs'[j] = jobs[j]
        BY <2>3, <3>1
      <4>2. \A v \in Workers : workers[v].job = j => v # w
        BY <3>1
      <4> QED
        BY <1>2, <4>1, <4>2, SafeStays
    <3>2. CASE j = mine /\ workers[w].at = "completing"
      <4>1. jobs'[mine] = Recorded(jobs[mine], workers[w].key, "sent")
        BY <1>1, <2>1, <3>2 DEF Record, ResultOf, IInv, TypeOK
      <4>2. /\ jobs[mine] \in JobType /\ jobs[mine].attempts < MaxAttempts
            /\ workers[w].key = jobs[mine].attempts + 1
        BY <1>1, <2>2 DEF IInv, TypeOK, AttemptKeyIsFresh, LeasedJobsHaveAttempts, OwnsLease
      <4>3. workers[w].key \in 1 .. MaxAttempts
        BY <4>2, WorkerAssumptions DEF JobType
      <4>4. jobs'[mine].status = "completed"
        BY <2>1, <4>1, <4>2, <4>3, RecordedRow
      <4> QED
        BY <3>2, <4>4 DEF Safe, Open
    <3>3. CASE j = mine /\ workers[w].at = "failing"
      BY <2>2, <3>3 DEF Safe, OwnsLease, Open
    <3> QED
      BY <1>1, <3>1, <3>2, <3>3
  <2> QED
    BY <1>1, <1>3, <2>4, BudgetKept DEF BudgetInv
<1> QED
  BY <1>4, <1>5

LEMMA ExitKeepsBudget ==
  ASSUME IInv, IInv', BudgetInv, NEW w \in Workers, Exit(w)
  PROVE  BudgetInv'
<1> SUFFICES ASSUME NEW j \in Jobs PROVE Budget(j)'
  BY DEF BudgetInv
<1>1. workers[w].at = "idle" /\ Replaced(w) /\ faults' = faults /\ delivered' = delivered
  BY DEF Exit, Replaced
<1>2. \A v \in Workers : v # w => workers'[v] = workers[v]
  BY <1>1 DEF Replaced, IInv, TypeOK
<1>3. workers'[w].at = "idle"
  BY <1>1, IdleWorkerRow DEF Replaced, IInv, TypeOK
<1>4. Sending(j)' = Sending(j)
  BY <1>1, <1>2, <1>3 DEF Sending
<1>5. Safe(j) => Safe(j)'
  <2> SUFFICES ASSUME Safe(j) PROVE Safe(j)'
    OBVIOUS
  <2>1. /\ jobs'[j].status = jobs[j].status /\ jobs'[j].due = jobs[j].due
        /\ \A v \in Workers : v # w => (OwnsLease(jobs'[j], v) <=> OwnsLease(jobs[j], v))
    BY <1>1, ReplacedIInv DEF IInv, TypeOK
  <2> QED
    BY <1>1, <1>2, <2>1 DEF Safe
<1> QED
  BY <1>1, <1>4, <1>5, BudgetKept DEF BudgetInv

LEMMA StepBudgetInv == IInv /\ IInv' /\ BudgetInv /\ [Next]_vars => BudgetInv'
<1> SUFFICES ASSUME IInv, IInv', BudgetInv, [Next]_vars PROVE BudgetInv'
  OBVIOUS
<1>1. ASSUME NEW w \in Workers, RunOnce(w) PROVE BudgetInv'
  BY <1>1, ClaimKeepsBudget, SendKeepsBudget, FinishKeepsBudget DEF RunOnce
<1>2. ASSUME NEW w \in Workers, Exit(w) PROVE BudgetInv'
  BY <1>2, ExitKeepsBudget
<1>3. ASSUME NEW w \in Workers,
             \/ \E j \in Jobs : ClaimUnanswered(w, j)
             \/ FinishUnanswered(w) \/ FinishError(w) \/ Crash(w) \/ Stop(w)
      PROVE  BudgetInv'
  BY <1>3, FaultKeepsBudget
<1>4. ASSUME NEW j \in Jobs, Overrun(j) PROVE BudgetInv'
  BY <1>4, WorkerAssumptions, FaultKeepsBudget
<1>5. ASSUME NEW j \in Jobs, BecomeDue(j) \/ CancelFollowUp(j) PROVE BudgetInv'
  BY <1>5, TimeAndCancelKeepBudget
<1>6. CASE UNCHANGED vars
  BY <1>6 DEF vars, BudgetInv, Budget, Sending, Pending, Safe, OwnsLease
<1> QED
  BY <1>1, <1>2, <1>3, <1>4, <1>5, <1>6 DEF Next

\* For any number of workers and faults, a customer gets at most one message of a follow-up and one
\* more for each fault: nothing but an overrun, a crash, a stop or a failed transaction duplicates.
\* (runOnce, completeFollowUp)
THEOREM DuplicatesAreAlwaysFaults == Spec => []DuplicatesAreFaults
<1>1. Init => IInv /\ BudgetInv
  BY InitIInv, InitBudgetInv
<1>2. (IInv /\ BudgetInv) /\ [Next]_vars => (IInv /\ BudgetInv)'
  BY NextIInv, StepBudgetInv
<1>3. IInv /\ BudgetInv => DuplicatesAreFaults
  <2> SUFFICES ASSUME IInv, BudgetInv, NEW j \in Jobs PROVE delivered[j] <= 1 + faults
    BY DEF DuplicatesAreFaults
  <2>1. /\ delivered[j] + Cardinality(Sending(j)) + Pending(j) <= 1 + faults
        /\ Cardinality(Sending(j)) \in Nat
    BY FS_CardinalityType DEF BudgetInv, Budget
  <2> QED
    BY <2>1, BudgetTypes
<1> QED
  BY <1>1, <1>2, <1>3, PTL DEF Spec
=============================================================================
