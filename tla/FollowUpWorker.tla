--------------------------- MODULE FollowUpWorker ---------------------------
(***************************************************************************)
(* The worker processes that deliver follow-ups (server/worker.ts and      *)
(* server/jobs/followUpWorker.ts) over the leases of the PostgreSQL store. *)
(* A worker claims a due job in one transaction, sends the message, and    *)
(* records the result in a second transaction, which the store refuses     *)
(* unless that worker still owns the lease. Between the two, leases run    *)
(* out, owners cancel, processes die and transactions fail.                *)
(*                                                                         *)
(* Time is abstracted to "the time this job waits for has come": due_at,   *)
(* retry_at or lease_expires_at, whichever the job's status makes count.   *)
(***************************************************************************)
EXTENDS Integers, FiniteSets

CONSTANTS Jobs,         \* identities of follow-ups, all of them scheduled
          Workers,      \* places where a worker process runs
          MaxAttempts,  \* max_attempts of a follow-up
          Faults,       \* the faults of the environment that may happen
          MaxFaults     \* bound of their number

\* lostAnswer: a transaction commits and its answer does not arrive.
FaultKinds == {"overrun", "crash", "stop", "storeError", "lostAnswer"}

ASSUME WorkerAssumptions ==
  /\ MaxAttempts \in Nat \ {0}
  /\ Faults \subseteq FaultKinds
  /\ MaxFaults \in Nat
  /\ Jobs # {} /\ Workers # {}
  /\ Workers \cap {"NOBODY", "GONE"} = {}

VARIABLES jobs,       \* follow_up_jobs rows with their follow_up_attempts
          workers,    \* where each worker process is in runOnce
          sentKeys,   \* what the dispatcher of each process remembers
          delivered,  \* how many messages the customer got, for each job
          faults      \* faults so far

vars == <<jobs, workers, sentKeys, delivered, faults>>

-----------------------------------------------------------------------------
(* Rows and processes *)

Open == {"scheduled", "failed", "leased"}

\* lease_owner of a job: none, a process that is gone for good (a worker id is
\* drawn at random when the process starts), or the process that runs now.
Nobody == "NOBODY"
Gone   == "GONE"

\* due: the time that the job waits for has come. recorded: its attempt keys
\* with their results.
JobType == [status : Open \cup {"completed", "cancelled"}, attempts : 0 .. MaxAttempts,
            owner : Workers \cup {Nobody, Gone}, due : BOOLEAN,
            recorded : SUBSET [key : 1 .. MaxAttempts, result : {"sent", "failed"}]]

\* sending: the job is claimed; completing, failing: its result is to be recorded.
WorkerType == [at : {"idle", "sending", "completing", "failing"}, job : Jobs,
               key : 0 .. MaxAttempts, stopping : BOOLEAN]

\* Every variable holds rows of its table or states of its processes.
TypeOK ==
  /\ jobs \in [Jobs -> JobType]
  /\ workers \in [Workers -> WorkerType]
  /\ sentKeys \in [Workers -> SUBSET (Jobs \X (1 .. MaxAttempts))]
  /\ delivered \in [Jobs -> Nat]
  /\ faults \in 0 .. MaxFaults

ScheduledJob == [status |-> "scheduled", attempts |-> 0, owner |-> Nobody, due |-> FALSE,
                 recorded |-> {}]

\* Which job an idle worker carries does not matter.
IdleWorker(stopping) ==
  [at |-> "idle", job |-> CHOOSE j \in Jobs : TRUE, key |-> 0, stopping |-> stopping]

Init ==
  /\ jobs = [j \in Jobs |-> ScheduledJob]
  /\ workers = [w \in Workers |-> IdleWorker(FALSE)]
  /\ sentKeys = [w \in Workers |-> {}]
  /\ delivered = [j \in Jobs |-> 0]
  /\ faults = 0

Fault(kind) ==
  /\ kind \in Faults
  /\ faults < MaxFaults
  /\ faults' = faults + 1

-----------------------------------------------------------------------------
(* The store *)

\* Plausible error: max_attempts is not looked at.
ClaimableForEver(job) == job.status \in Open /\ job.due

\* Plausible error: a lease is taken over before it has run out.
ClaimableAtOnce(job) ==
  /\ job.status \in Open
  /\ job.status # "leased" => job.due
  /\ job.attempts < MaxAttempts

\* claim_follow_up_job, the WHERE clause. Its order does not matter: attempts are
\* bounded, so no job starves another.
Claimable(job) == job.status \in Open /\ job.due /\ job.attempts < MaxAttempts

Leased(job, w) == [job EXCEPT !.status = "leased", !.owner = w, !.due = FALSE]

OwnsLease(job, w) == job.status = "leased" /\ job.owner = w

KeyTaken(job, key) == \E entry \in job.recorded : entry.key = key

\* Plausible error: a failed attempt is not counted.
OnlySentCounts(job, key, result) ==
  [job EXCEPT !.status = IF result = "sent" THEN "completed" ELSE "failed",
              !.attempts = IF result = "sent" THEN job.attempts + 1 ELSE job.attempts,
              !.owner = Nobody, !.due = FALSE,
              !.recorded = job.recorded \cup {[key |-> key, result |-> result]}]

\* finishFollowUp behind the check of the lease: a key that is there already
\* ends the transaction without a change and without an error.
Recorded(job, key, result) ==
  IF KeyTaken(job, key) THEN job
  ELSE [job EXCEPT !.status = IF result = "sent" THEN "completed" ELSE "failed",
                   !.attempts = job.attempts + 1, !.owner = Nobody, !.due = FALSE,
                   !.recorded = job.recorded \cup {[key |-> key, result |-> result]}]

Cancelled(job) == [job EXCEPT !.status = "cancelled", !.owner = Nobody, !.due = FALSE]

\* A worker is busy with a job that it holds the lease of.
InUse(j) == \E w \in Workers :
              workers[w].at # "idle" /\ workers[w].job = j /\ OwnsLease(jobs[j], w)

\* due_at, retry_at or lease_expires_at passes, a lease only when nobody uses it.
BecomeDue(j) ==
  /\ jobs[j].status \in Open
  /\ ~jobs[j].due
  /\ ~InUse(j)
  /\ jobs' = [jobs EXCEPT ![j].due = TRUE]
  /\ UNCHANGED <<workers, sentKeys, delivered, faults>>

\* A lease runs out under a worker that uses it: the send took longer, or a
\* clock is ahead (the times compared are those of the workers).
Overrun(j) ==
  /\ Fault("overrun")
  /\ InUse(j)
  /\ ~jobs[j].due
  /\ jobs' = [jobs EXCEPT ![j].due = TRUE]
  /\ UNCHANGED <<workers, sentKeys, delivered>>

\* cancelFollowUp, or the cancellation that is part of a takeover, a reply or an
\* opt-out: leases are no obstacle.
CancelFollowUp(j) ==
  /\ jobs[j].status \in Open
  /\ jobs' = [jobs EXCEPT ![j] = Cancelled(jobs[j])]
  /\ UNCHANGED <<workers, sentKeys, delivered, faults>>

-----------------------------------------------------------------------------
(* A worker *)

\* Plausible error: the key of the first attempt names every attempt.
OneKey(job) == 1

\* The attempt that the claimed row makes this one: attemptCount + 1.
AttemptKey(job) == job.attempts + 1

\* claimDueFollowUp by a worker that goes on to send.
ClaimDueFollowUp(w, j) ==
  /\ workers[w].at = "idle" /\ ~workers[w].stopping
  /\ Claimable(jobs[j])
  /\ jobs' = [jobs EXCEPT ![j] = Leased(jobs[j], w)]
  /\ workers' = [workers EXCEPT ![w].at = "sending", ![w].job = j,
                                ![w].key = AttemptKey(jobs[j])]
  /\ UNCHANGED <<sentKeys, delivered, faults>>

\* The claim is committed but the worker sees an error: runOnce throws, the
\* loop goes on and the job stays leased.
ClaimUnanswered(w, j) ==
  /\ workers[w].at = "idle" /\ ~workers[w].stopping
  /\ Claimable(jobs[j])
  /\ Fault("lostAnswer")
  /\ jobs' = [jobs EXCEPT ![j] = Leased(jobs[j], w)]
  /\ UNCHANGED <<workers, sentKeys, delivered>>

\* The dispatcher of this process sent the message under this key before.
Remembered(w) == <<workers[w].job, workers[w].key>> \in sentKeys[w]

\* dispatcher.send.
Send(w) ==
  LET j == workers[w].job
  IN  /\ workers[w].at = "sending"
      /\ workers' = [workers EXCEPT ![w].at = "completing"]
      /\ delivered' = IF Remembered(w) THEN delivered ELSE [delivered EXCEPT ![j] = @ + 1]
      /\ sentKeys' = [sentKeys EXCEPT ![w] = @ \cup {<<j, workers[w].key>>}]
      /\ UNCHANGED <<jobs, faults>>

\* dispatcher.send rejects, and nothing was delivered. (The mock never does.)
SendFails(w) ==
  /\ workers[w].at = "sending"
  /\ workers' = [workers EXCEPT ![w].at = "failing"]
  /\ UNCHANGED <<jobs, sentKeys, delivered, faults>>

\* The result that completeFollowUp or failFollowUp is about to record.
ResultOf(w) == IF workers[w].at = "completing" THEN "sent" ELSE "failed"

\* A call that throws: out of the try block into its catch, which records a
\* failure; out of the catch block into the loop, which writes a line and goes on.
AfterError(worker) ==
  IF worker.at = "completing" THEN [worker EXCEPT !.at = "failing"] ELSE IdleWorker(worker.stopping)

\* A stopping process has ended its pool: no call reaches the store.
MayRecord(w) ==
  /\ workers[w].at \in {"completing", "failing"}
  /\ ~workers[w].stopping
  /\ OwnsLease(jobs[workers[w].job], w)

Record(w) ==
  LET j == workers[w].job
  IN  jobs' = [jobs EXCEPT ![j] = Recorded(jobs[j], workers[w].key, ResultOf(w))]

\* completeFollowUp or failFollowUp.
Finish(w) ==
  /\ MayRecord(w)
  /\ Record(w)
  /\ workers' = [workers EXCEPT ![w] = IdleWorker(FALSE)]
  /\ UNCHANGED <<sentKeys, delivered, faults>>

\* The same, committed without an answer.
FinishUnanswered(w) ==
  /\ MayRecord(w)
  /\ Fault("lostAnswer")
  /\ Record(w)
  /\ workers' = [workers EXCEPT ![w] = AfterError(workers[w])]
  /\ UNCHANGED <<sentKeys, delivered>>

\* FOLLOW_UP_LEASE_LOST, or the pool of a stopping process.
FinishRefused(w) ==
  /\ workers[w].at \in {"completing", "failing"}
  /\ ~MayRecord(w)
  /\ workers' = [workers EXCEPT ![w] = AfterError(workers[w])]
  /\ UNCHANGED <<jobs, sentKeys, delivered, faults>>

\* The transaction fails and is rolled back.
FinishError(w) ==
  /\ MayRecord(w)
  /\ Fault("storeError")
  /\ workers' = [workers EXCEPT ![w] = AfterError(workers[w])]
  /\ UNCHANGED <<jobs, sentKeys, delivered>>

-----------------------------------------------------------------------------
(* Processes *)

\* Another process takes the place: it has an id of its own and remembers nothing.
Replaced(w) ==
  /\ jobs' = [j \in Jobs |-> IF jobs[j].owner = w THEN [jobs[j] EXCEPT !.owner = Gone] ELSE jobs[j]]
  /\ workers' = [workers EXCEPT ![w] = IdleWorker(FALSE)]
  /\ sentKeys' = [sentKeys EXCEPT ![w] = {}]
  /\ UNCHANGED delivered

Crash(w) ==
  /\ Fault("crash")
  /\ Replaced(w)

\* SIGTERM: stop() ends the pool at once, whatever runOnce is doing.
Stop(w) ==
  /\ ~workers[w].stopping
  /\ Fault("stop")
  /\ workers' = [workers EXCEPT ![w].stopping = TRUE]
  /\ UNCHANGED <<jobs, sentKeys, delivered>>

\* The loop ends when runOnce does.
Exit(w) ==
  /\ workers[w].stopping
  /\ workers[w].at = "idle"
  /\ Replaced(w)
  /\ UNCHANGED faults

RunOnce(w) ==
  \/ \E j \in Jobs : ClaimDueFollowUp(w, j)
  \/ Send(w)
  \/ SendFails(w)
  \/ Finish(w)
  \/ FinishRefused(w)

Next ==
  \/ \E w \in Workers : \/ RunOnce(w)
                        \/ Exit(w)
                        \/ \E j \in Jobs : ClaimUnanswered(w, j)
                        \/ FinishUnanswered(w)
                        \/ FinishError(w)
                        \/ Crash(w)
                        \/ Stop(w)
  \/ \E j \in Jobs : BecomeDue(j) \/ Overrun(j) \/ CancelFollowUp(j)

Spec == Init /\ [][Next]_vars

\* The loop of worker.ts polls for ever, a stopped process is replaced and time
\* passes. A send is assumed to settle one way or the other: the code sets no
\* timeout. No fault and no cancellation is ever due.
FairSpec ==
  /\ Spec
  /\ \A w \in Workers : WF_vars(RunOnce(w)) /\ WF_vars(Exit(w))
  /\ \A j \in Jobs : WF_vars(BecomeDue(j))

-----------------------------------------------------------------------------
(* Safety *)

\* The attempt counter, the attempts on record and the status tell one story,
\* whatever was lost in between: keys 1 to n, each once, the last one sent if
\* the job is completed and none sent otherwise; a leased job can still record
\* its attempt; and a job is completed only if the customer got a message.
AttemptsAreOnRecord ==
  \A j \in Jobs :
    LET job == jobs[j]
    IN  /\ {entry.key : entry \in job.recorded} = 1 .. job.attempts
        /\ Cardinality(job.recorded) = job.attempts
        /\ {entry.key : entry \in {e \in job.recorded : e.result = "sent"}} =
             IF job.status = "completed" THEN {job.attempts} ELSE {}
        /\ job.status = "leased" => job.attempts < MaxAttempts
        /\ job.status = "completed" => delivered[j] > 0

\* A worker that owns the lease of its job records its attempt under a new key,
\* so the silent return for a known key (which would leave the job leased after
\* a successful send) is never taken.
AttemptKeyIsFresh ==
  \A w \in Workers :
    LET worker == workers[w]
    IN  worker.at # "idle" /\ OwnsLease(jobs[worker.job], w) =>
          worker.key = jobs[worker.job].attempts + 1

\* Unless a lease runs out under its worker, at most one worker is sending a
\* follow-up or recording its result, cancellations and crashes included.
ExclusiveDispatch ==
  \A v, w \in Workers :
    workers[v].at # "idle" /\ workers[w].at # "idle" /\ workers[v].job = workers[w].job => v = w

\* Every message beyond the first costs a fault: an expired lease, a crash, a
\* stop or a failed transaction between the send and its record.
DuplicatesAreFaults == \A j \in Jobs : delivered[j] <= 1 + faults

\* The table keeps FollowUpJobs' promises.
TableRows == [j \in Jobs |-> [status |-> jobs[j].status, attempts |-> jobs[j].attempts]]

Table == INSTANCE FollowUpJobs WITH followUps <- TableRows

KeepsTablePromises == Table!Spec

-----------------------------------------------------------------------------
(* Liveness *)

\* Nothing more will be done about the job.
Settled(job) ==
  \/ job.status \in {"completed", "cancelled"}
  \/ job.status = "failed" /\ job.attempts = MaxAttempts

\* After finitely many faults every follow-up is sent, cancelled or out of
\* attempts: no lease is left behind by a worker that died or lost an answer.
EveryJobSettles == \A j \in Jobs : <>[]Settled(jobs[j])

-----------------------------------------------------------------------------
(* Statements of the repository that the code does not keep *)

\* "Attempt operation keys and scenario idempotency prevent duplicate jobs/messages."
\* (docs/REVENUE_OS.md 11)
NoDuplicateMessages == \A j \in Jobs : delivered[j] <= 1
=============================================================================
