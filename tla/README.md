# CLOSER v2 in TLA+

CLOSER is a lead-to-cash and revenue-recovery system for service businesses: a
Fastify server over PostgreSQL (`server/`), a worker process that delivers
follow-ups (`server/worker.ts`), and a browser application (`src/`) that is also
a self-contained demo. This directory holds TLA+ modules translated from that
code, TLC configurations that model-check them on small instances, and theorems
that the TLA+ proof system checks for every value of the constants.

Run inside this directory: `tlc -config <cfg> <module>` for a run of the table
below, `tlapm <module>.tla` for a module of proofs.

Contents: [inventory](#inventory), [modules](#modules-and-the-code-they-model),
[runs](#runs), [fairness](#fairness),
[disagreements](#where-the-code-and-its-documents-disagree),
[other observations](#what-else-the-models-say-about-the-code), [proofs](#proofs),
[limits](#what-is-not-modelled), [plan](#plan).

## Inventory

Production server. Every HTTP request owns one short transaction (READ
COMMITTED, `PostgresProductionStore.runAs`): it claims its idempotency key, calls
one store operation and commits, or throws and rolls everything back.

| Component | State | Operations | Interacts with | Correct when |
|---|---|---|---|---|
| Recovery policy and scoring (`application/recoveryEngine.ts`, `opportunityScoring.ts`) | none (pure) | evaluate an observation: suppression, play, next action, approval, status, next recovery state, scores | called by the store inside the evaluation's transaction | a suppressed opportunity gets no work; autonomy, value and kind of action decide who must approve |
| Opportunity recovery life cycle (`postgresProductionStore.ts`, `domain/opportunity.ts`) | `opportunities`, `conversations.mode`, `handoffs`, consent, `recovery_actions`, `recovery_decisions`, attribution | create, evaluate, approve, opt out, reply, take over, resume, book, append a revenue event | shares rows with follow-ups, bookings and the copilot; the policy decides | one live action at most; no prepared action under a person or in a closed opportunity, and no follow-up opened there except by a request that had read before; the recovery state tells what the live action is; approvals are timely; statuses move inside the domain's table |
| Follow-up jobs and worker (`jobs/followUpWorker.ts`, `worker.ts`, `claim_follow_up_job`) | `follow_up_jobs`, `follow_up_attempts`; in each process the running cycle and what its dispatcher sent | claim, send, complete, fail, cancel; start, stop, crash | the life cycle cancels jobs too | one worker on a follow-up; attempts on record, in order and bounded; settled stays settled; every follow-up settles |
| Owner copilot tools | `copilot_tool_executions` | read tools, prepare recovery, prepare reactivation | calls evaluate and approve; schedules follow-ups | never wider than what an owner may do by hand |
| Concurrent transactions and idempotency (`application/idempotency.ts`, `postgresProductionStore.ts`) | `idempotency_records`, row locks | claim a key, run an operation's statements, complete, commit, roll back | wraps every mutation | one effect for one key; no prepared action survives a takeover or an opt-out that committed; no request waits for ever |
| Bookings calendar | `bookings` | check the slot, book | books the opportunity | no two bookings of one slot |
| Payments and revenue ledger | `payments`, `revenue_entries`, `revenue_attributed_cents` | collect, refund, append an event | recomputes the opportunity's attribution | refunds within the payment; attributed = collected - refunded |
| Tenants, memberships, invitations (`application/authorization.ts`, `invitations.ts`) | `app_users`, `organization_provisioning_requests`, `organization_memberships`, `organization_invitations` | sign in, provision, authorise, invite, revoke, accept, expire | guards every route of a tenant | every membership was granted; an invitation is used once; provisioning names no tenant of somebody else |
| Webhook ingestion (`webhooks/`) | `webhook_events` | verify, record, mark, replay | providers deliver at least once | one effect for one event |
| Rate limiter (`security/rateLimiter.ts`) | a Map of windows | allow a call | every route | no caller above the limit by eviction; a bounded Map |
| In-memory store (`inMemoryProductionStore.ts`) | the same tables, in maps | the same operations | what most tests run against | behaves like the PostgreSQL store |
| HTTP API, authentication, configuration, migrations | none | routing, validation, token checks | every request | one call of one operation for one request; row-level security only refuses |

Browser application (`src/`).

| Component | State | Operations | Correct when |
|---|---|---|---|
| Demo service (`CloserService.ts`) | an aggregate of repositories: lead, conversation, appointments, quotes, jobs, payments, follow-ups, handoffs, memory | every operation of the owner, and of the customer's channel | an open lead has a next action; won means done and paid; a closed conversation is silent |
| Conversation engine (`application/conversation/`) | none (pure); its answer is awaited | decide about a message, validate, run a tool | the assistant does not speak over a person |
| Journey, follow-ups, attribution, reactivation | follow-ups, revenue events | infer stage and next action; schedule by scenario; verify; prepare reactivation | as above |
| Production client (`AuthContext.tsx`, `ProductionOwnerContext.tsx`, `ProductionApiClient.ts`) | the session; the user's businesses, the active one and its snapshot; promises | restore, sign in and out, expire; list businesses, select, load a snapshot, run a command and refresh | what is shown is of the active business, never older than what was shown, and no page waits for nothing |
| Read models, React pages | screens | render | no rule of its own |

What is hard here, and where properties are aimed (each at its line in
`PROJECT.json`, `hazards`):

- *Long sequences of legal calls.* Seven operations write an opportunity's
  status, recovery state and live action in different combinations; nothing in
  the schema keeps them in step, and the domain's own checks
  (`assertOpportunityState`, `assertOpportunityTransition`) are called by no
  store operation. The demo has the same shape: several paths close a lead,
  reopen it, and schedule follow-ups.
- *Requests at the same moment.* READ COMMITTED, locks taken in different orders,
  statements that wait with an old snapshot, unique keys as the only guard.
- *Stale decisions.* Four operations decide from rows that they read without a lock, and a
  takeover, a resume or an opt-out may commit before they write. Actions expire while the
  recovery state they set does not;
  an approval may come after expiry, takeover or opt-out; a decision of the demo's
  engine is awaited and applied to what the opportunity has become.
- *Two transactions around a message.* A follow-up is claimed in one
  transaction, sent, and recorded in another. Leases run out, owners cancel,
  processes die and answers get lost in between.
- *Everything must end.* A lease of a dead process is taken over, attempts are
  counted, retries end; a deadlock costs one request and frees the others.
- *Answers in any order.* The browser numbers its snapshots; answers to older ones,
  to commands and to expired sessions arrive after the user has gone elsewhere.
- *Repeated deliveries.* Webhooks, requests and inbound messages come twice, at
  once, with other contents.

## Modules and the code they model

| Module | Models |
|---|---|
| `RecoveryPolicy` | The pure policy: one operator for each function of `recoveryEngine.ts`, and the recovery score. An observation is a record; elapsed times are reduced to the comparisons the policy makes, money to "reaches the approval threshold" |
| `OpportunityRecovery` | The life cycle over the policy: one action for each store operation |
| `FollowUpJobs` | Abstract: what the `follow_up_jobs` table promises (schedule, claim, record, cancel) |
| `FollowUpWorker` | Worker processes with leases, attempts, dispatch, failures, crashes and stops |
| `StoreTransactions` | Concurrent requests as sequences of statements with locks, snapshots, waits, aborts and idempotency keys |
| `Organizations` | Accounts, provisioning, memberships, invitations, authorised requests |
| `WebhookIngestion` | Deliveries of provider events over the inbox table |
| `RateLimiter` | Fixed windows in a bounded Map |
| `DemoJourney`, `DemoOpportunity`, `DemoCommerce`, `DemoAssistant`, `DemoConversation` | The demo, each module over the one before: the journey's stage and next action; what changes the opportunity; work and money; the assistant's decision; the calls with awaits in them |
| `OwnerSession` | The production client in one browser tab: session, businesses, snapshots, promises |
| `MCOpportunityRecovery`, `MCStoreTransactions`, `MCPlatform`, `MCDemo`, `MCOwnerSession` | Instances for TLC. `MCPlatform` composes the three components around the store's operations, `MCDemo` the parts of the demo |
| `OpportunityRecoveryProofs` | Theorems about the life cycle: invariants, and what a step may never do |
| `FollowUpJobsProofs`, `FollowUpWorkerProofs` | Theorems about the table and the workers |
| `StoreTransactionsProofs` | Theorems about concurrent requests |
| `PlatformProofs` | Theorems about the three components around the store, and their composition |
| `OwnerSessionProofs` | Theorems about the browser's session |
| `DemoLedgerProofs`, `DemoProofs` | Sums over finite sets and the demo's ledger; theorems about the demo |

How they fit: `OpportunityRecovery` and `FollowUpWorker` meet in `FollowUpJobs`,
of which each has an instance over its own rows (`KeepsTablePromises`). The life
cycle sees a follow-up as a claim and a result and knows no leases; the worker sees
cancellations and not where they come from. Both are refinements of the same table,
so neither allows something to happen to a row that the table rules out.
`OpportunityRecovery` takes an operation as one step; `StoreTransactions` takes the
same operations apart into statements, on the rows that they share, and evaluates
the same `RecoveryPolicy` on what a statement saw.

In every module a definition whose comment starts with "Plausible error" is the
variant of the next definition that a slip in the code would give. No action uses
it: it serves to show, one variant for every property, that the property notices.

### OpportunityRecovery

| Variable | Code |
|---|---|
| `customers` | `opted_out`, `operational_contact_allowed`, `marketing_allowed` of each customer |
| `opportunities` | the opportunity row, with the mode of its conversation, whether a handoff is open, what the policy reads of the inquiry (`profile`), of messages and estimates, and whether the lead is LOST. A lead, its conversation and its opportunity are created in one transaction and are one to one |
| `actions` | `recovery_actions`; `validUntil` 0 is null |
| `jobs` | `follow_up_jobs`: status, conversation, `attempt_count` |
| `reads` | for each request in flight that decides from rows it read without a lock: what it is for and what it read |
| `now` | the clock that validity is compared with; `now % DayLength` is the time of day |

| Action | Store operation |
|---|---|
| `CreateOpportunity` | `createJourney`, `createOpportunity` |
| `BeginEvaluation`, `Evaluate` | `evaluateOpportunityRecovery`, and with `ownerApproves` the copilot's `PREPARE_OPPORTUNITY_RECOVERY` |
| `BeginFollowUp`, `CreateFollowUp` | `createFollowUp` |
| `BeginReactivation`, `PrepareReactivation` | the copilot's `PREPARE_REACTIVATION` |
| `BeginRevenueEntry`, `AppendRevenueEntry` | `appendRevenueEntry` (`POST /revenue-events`, payments, refunds), as far as the opportunity is concerned |
| `EndUnchanged` | a request in flight that is refused, fails, or finds a live action and returns it |
| `ApproveRecoveryAction`, `RecordCustomerOptOut`, `RecordCustomerResponse`, `StartHumanTakeover`, `ResumeAssistant`, `CancelFollowUp` | the operations of those names |
| `CreateBooking` | `createBooking`, as far as the opportunity is concerned |
| `ClaimFollowUp`, `FinishFollowUp` | `claimDueFollowUp`; `completeFollowUp`, `failFollowUp` |
| `Tick` | time |

An operation whose first statement locks the row it is about is one step. Four are two:
they read without a lock and write later. The evaluation locks its opportunity, and a
statement that waited for that row reads it again, but the conversation's mode, the consent,
the replies and the attempts come from the snapshot of before (`Observation` says which is
which). `createFollowUp` and the reactivation decide from a mode and a consent that they
never look at again. `appendRevenueEntry` falls back on the attribution it read. `Begin...`
takes the reading, anything may happen, and the second step writes.

A request that throws changes nothing, so it is a stuttering step: guards are
the code's early returns and errors. That includes the CHECK constraints of
migration 0004 (`RowAllowed`): a statement that breaks one takes its
transaction with it. It also includes a subtle case: approving an expired action
writes its cancellation and then throws, so the cancellation is rolled back.

Initial states are an empty tenant, or rows as migration 0004 imports them
(`LegacyStatuses`): the only way to a WON, LOST or SNOOZED opportunity and to
marketing consent, because no operation of the API produces them.

### FollowUpWorker

| Variable | Code |
|---|---|
| `jobs` | the row, its lease owner and its `follow_up_attempts`; `due` says that the time the job waits for (`due_at`, `retry_at`, `lease_expires_at`) has come |
| `workers` | where each process is in `runOnce`, with the claimed job, the attempt key and whether SIGTERM came |
| `sentKeys` | what the process's dispatcher remembers (`DeterministicMockFollowUpDispatcher`) |
| `delivered` | history: messages that the customer got, for each job |
| `faults` | faults so far |

Actions are the steps of `runOnce` (`ClaimDueFollowUp`, `Send`, `SendFails`,
`Finish`, `FinishRefused`), the owner's `CancelFollowUp`, time (`BecomeDue`), and
the faults, each drawn from one budget: `Overrun` (a lease runs out under its
worker), `ClaimUnanswered` and `FinishUnanswered` (a commit without an answer),
`FinishError` (a transaction fails), `Crash` and `Stop`. An exception out of
`completeFollowUp` goes to the `catch` block that also serves a failed send
(`AfterError`), as in the code.

### StoreTransactions

| Variable | Code |
|---|---|
| `offered` | the operations and keys that the clients of this behaviour send |
| `db` | what is committed: conversation mode, consent, two opportunities, actions, follow-ups, a payment with its refunds, a slot, two ledger events, idempotency records |
| `txn` | for each request: its operation and key, the statement it is at, the snapshot of a statement that waits, what the evaluation read, what it wrote, its answer |
| `locks` | row locks in three strengths (`FOR UPDATE` and inserted unique keys, `UPDATE`, the share of a foreign key) |

A *plan* is the sequence of statements of one operation, each with the rows it locks
(`EvaluatePlan`, `ApprovePlan`, `OptOutPlan`, ...). `Arrive` begins a request, `Claim`
inserts its key, `Wait` lets a statement meet a lock, `Run` executes one statement or
throws, `Commit` completes the key and commits, `Victim` is the one that PostgreSQL
fails in a deadlock, `Lose` a crash of the process or its connection. PostgreSQL is
modelled from how the store uses it: a statement takes one snapshot; when it had to
wait, the rows it locks are read again and everything else stays as in the snapshot;
after a failed statement every further one fails until ROLLBACK.

### Organizations, WebhookIngestion, RateLimiter

| Variable | Code |
|---|---|
| `known` | `app_users` |
| `tenants`, `provisioned` | who provisioned each tenant; `organization_provisioning_requests` |
| `members`, `invitations` | `organization_memberships`, `organization_invitations` |
| `requests` | the request that passed `requireMembership` and has not yet run its operation |
| `told` | history: tenants that provisioning called the user's own |
| `delivery` | what each webhook delivery carries, where its transaction is, its answer |
| `events` | `webhook_events` |
| `buckets`, `clock` | the Map and `Date.now()` |
| `granted` | history: when each key was allowed a call |

`Organizations` has the actions `SignIn`, `ProvisionTenant` (a new tenant, or the
replay of a key), `Authorize` and `Answer` (between which a membership may be taken
away), `CreateInvitation`, `RevokeInvitation`, `AcceptInvitation`, `ExpireInvitation`,
and `Deactivate` for an operator of the database, since no route does it. `Routes`
lists every route with the least role it asks for. Row-level security is left out. As the
policies of migration 0003 are written they refuse three requests that the model lets pass:
`INSERT INTO tenants ... RETURNING` also meets the policy `tenant_member_read` (220-223)
before the creator's membership is there; the `FOR UPDATE` that reads an invitation needs a
policy for updates, and only `tenant_isolation` (264-266) is one, which hides the invitation
from an account that is no member yet (404); and the same policy hides the record of a
provisioning from a deactivated member, who gets no replay. The model has every behaviour that
is left and more, so what it shows of every behaviour holds under the policies. `WebhookIngestion` has the
statements of a delivery's transaction (`Verify`, `Record`, `Replay`, `MarkProcessed`,
`CommitDelivery`), its loss and its redelivery. `RateLimiter` has `StartWindow`,
`CountCall` and `Tick`; a refused call changes nothing.

### The demo

`demo` is one opportunity's part of the database: lead, conversation, marketing
consent, handoffs, follow-ups by scenario, memory, appointments, quotes, jobs, payments,
verified revenue. There are no transactions: an operation writes one repository after
another, and when a step throws the writes before it stay. So operators take and return
`demo` (`Reconcile`, `CloseWon`, `TakeOver`, `ReplaceAction`, ...), and an action reads
as the calls its method makes, in order. `kind` is the tenant's kind of business.

| Variable of `DemoConversation` | Code |
|---|---|
| `calls` | asynchronous calls: what each waits for, and what it keeps from before the await |
| `received`, `decided` | provider ids of saved messages; decision records |

`ReceiveCustomerMessage` and `IngestReturn` save a message and wait for the decision;
`Decide` and `DecideThrows` apply it; `SendBusinessMessage` and an automatic reply wait
for the provider, and `Sent` saves the conversation *as it was before the await*, as
`CloserService.ts:1128-1184` does. `CallLost` is a provider that rejects or a page that
is closed. Everything else runs in one piece, because the code has no await there.
The engine's answer is computed at once in today's build; its port is asynchronous, so
an await on it is an interleaving point here.

`DemoSpec` is the demo with every operation at any time. The theorems are about it; TLC
explores `MCSpec`, whose scopes are behaviours of `DemoSpec` (`ScopesAreDemo`).

### OwnerSession

| Variable | Code |
|---|---|
| `auth` | the state of `AuthProvider`: status, user, whether `getSession` is awaited, `expiredSession`, whether the sign-out of an expired session is awaited |
| `owner` | the state of `ProductionOwnerProvider`: its tenants, the active one, the snapshot (reduced to its tenant and number), spinner, error; and which life of the component this is |
| `sequence` | `snapshotRequestSequence`, a ref of each life of the component |
| `stored` | the active tenant in `sessionStorage` |
| `requests` | promises not settled, with what their callbacks captured |
| `asked` | how many requests other than snapshots were sent |

`RestoreSession`, `RestoreFails`, `AuthEvent`, `SignIn`, `SignUpUnconfirmed`, `SignOut` and
`ExpiryEnds` are the session; `SelectTenant`, `Refresh`, `RetryTenants`, `SendCommand`,
`ProvisionTenant` and `AcceptInvitation` the user; `SnapshotArrives`, `TenantsListed`,
`CommandDone`, `Joined` and `Fails` the answers. `Render` is a render followed by its effect:
when the active tenant or the session changed, a snapshot is loaded or dropped. The server
may list any tenants at any time, and any request may fail in any way.

## Runs

| Run | Question | Bounds and why they are enough |
|---|---|---|
| `life` | Do actions, recovery state, conversation and follow-ups stay in step, silent and authorised through every operation, when requests decide from what they read before? | One opportunity, an inquiry or an imported lead (qualified, won, lost; in any mode; with and without messages, a rejection and marketing consent); two actions (a live one and the one it replaces or follows); one follow-up with two attempts; one request in flight, which everything else may overtake; a day of two ticks, one inside the contact window, and `MaxTime` 3, so that actions expire and evaluations fall inside and outside the window; one profile for each way the policy treats an eligible opportunity. Imported leads begin in many states and have tighter bounds (`ImportTime` 2, `ImportAttempts` 1); clients claim attributions of theirs (`MCBounds`). 1,555,213 states |
| `worker_faults` | Do attempts, keys, counts and the end of every follow-up survive any three faults? | Two processes, so that a lease can be taken over and its first owner come back late; one follow-up, `MaxAttempts` 3; all five kinds of fault, `MaxFaults` 3. 30,797 states |
| `worker_exclusive` | Do two workers ever work on one follow-up if leases outlive sends? | Two processes, two follow-ups, two faults of every kind but `Overrun`. 122,217 states |
| `transactions` | Do requests that meet on the same rows take effect once for a key, keep slots, refunds and actions unique, retire what an evaluation or an approval prepared when a stop commits, and all end? | Three requests, each any operation that its behaviour offers. Eight meetings (`Meetings`): evaluation with approval, with takeover and resume, with opt-out; takeover with reply and opt-out; takeover with follow-up and ledger; bookings; refunds; ledger events; with keys used twice. 160,000 states |
| `platform` | Memberships and invitations; webhook deliveries; the limiter | Three accounts of two addresses, a tenant, two invitations; three deliveries of two events at two endpoints with two bodies; three callers for two buckets, limit and window 2, `Horizon` 5 (more than two windows). The components share no state, so a behaviour runs one of them. 1,410,000 states |
| `demo` | Does the demo's opportunity keep its next action, its closing rules, its money, its silence, and a takeover until it is resumed? | One opportunity in five scopes: two appointments of unlike price and deposit on two slots; one quote and its job; the customer's messages with memory; takeovers with two calls that wait; one send at a time mixed with takeovers, one appointment, its payments and refunds. `MaxPayments` 3 (deposit, balance, refund), `MaxHandoffs` 1, `CloseReasons`, `OwnerFacts`; `MaxReceived` 2 or 3 of the messages in `Inbound`, and no owner's messages where the customer's are many (`OwnerIsQuiet`). 561,450 states |
| `owner_tab` | Does the browser show a listed business, never an older snapshot, and no spinner without a cause, for any order of clicks, session events and answers? | Two accounts, two businesses (one to leave and one to go to), `MaxMounts` 2 (an answer outlives the component that asked), `MaxAsked` 2, `MaxLoads` 3 in the first life, so that a business can be selected and the page refreshed while earlier loads are awaited, and 1 in the second. 334,605 states |
| `stale_active`, `duplicate_message`, `ledger_race`, `demo_handoff`, `owner_switch` | Statements of the documents that the code does not keep: TLC shows a counterexample (next section but one) | The smallest instance with the counterexample |

The passing runs explore their instances completely. Every bound is a constant
of the configuration or a named definition of the MC module. The runs scale the code's
numbers down (24 hours become two ticks, five attempts two or three); the theorems
hold for all of them. The deadlock check is off where the system really ends: workers
with every follow-up settled and no fault left, clients that have sent all they send, a
limiter whose clock stops, a demo in which everything is paid and refunded, a tab at the
bounds of its clicks.
In `MCDemo` the scopes bound the composition: work, customer and chat each interleave
with what changes the opportunity, and not with each other, except that `sends` mixes one send
with the work and the money of one appointment. `OnlyRequestsInFlightStray` and
`OnlyStaleEvaluationsStrand` are about any number of requests in flight; one is enough to
race with every operation, and the theorems hold for all.

The properties, by what they protect:

- *Consistency of tables that different operations write:* `OneLiveAction`,
  `LiveActionMatchesRecoveryState`, `ClosedDoesNotRunRecovery` (what `assertOpportunityState`
  says), `StatusMovesAreAllowed` (what `assertOpportunityTransition` says),
  `OnlyStaleEvaluationsStrand` (what waits for a person has a person, but for one race).
- *Silence:* `HandoffSilencesAutomation` for actions, `OnlyRequestsInFlightStray` for
  follow-ups, `ReadingsAreCovered` (why an evaluation may decide from an old reading),
  `RetiredWorkStaysRetired`; under concurrency `OptOutOutrunsRecovery`,
  `TakeoverOutrunsRecovery`; in the demo `ClosedIsSilent`, `TakeoversEndByResumeOrSave`.
- *Authority:* `ReadyIsAuthorised`, `ApprovalsAreTimely`, `AuthorityIsGranted`,
  `InvitationsAreSpentOnce`.
- *Once:* `OneEffectPerKey`, `LiveActionIsUnique`, `SlotIsBookedOnce`,
  `EventsAreProcessedOnce`, `ExclusiveDispatch`.
- *What the browser shows:* `ActiveIsListed`, `NewerSnapshotsOnly`, `SpinnerHasCause`.
- *Counts and money:* `AttemptsAreOnRecord`, `DuplicatesAreFaults`,
  `RefundsWithinPayment`, `CollectedWithinTotal`, `WonMeansDoneAndPaid`, `RateIsLimited`.
- *Progress:* `EveryJobSettles`, `EveryRequestEnds`; in the demo
  `ActiveLeadHasNextAction`, the rule that no open lead is forgotten.

`PROJECT.json` has, for every property, a plausible error in the code under which
TLC finds the property violated.

## Fairness

Two properties need it. Without fairness a system that does nothing would be a
counterexample, which says nothing about the code.

`EveryJobSettles` assumes `FairSpec` of `FollowUpWorker`, weak fairness of

- `RunOnce(w)`: the loop of `worker.ts` polls for ever and swallows the errors of a
  cycle. This includes that a send settles one way or the other, which is an
  assumption about the dispatcher: the code sets no timeout, and a send that never
  settles would stop its worker for good.
- `Exit(w)`: a process that was told to stop ends, and the supervisor that runs
  workers starts another one.
- `BecomeDue(j)`: the time a job waits for comes.

No fault is fair and their number is finite: the claim is that follow-ups settle
once faults stop.

`EveryRequestEnds` assumes `TransactionFairness`: as long as some transaction can take
its next statement, commit or be failed in a deadlock, one of these happens. That is
what PostgreSQL and the event loop give; clients promise nothing, and neither does a
crash.

## Where the code and its documents disagree

Each has a run whose counterexample shows it.

- `stale_active`: the policy suppresses an evaluation because the recovery state
  is RECOVERY_ACTIVE; that state outlives the action it was set for. An evaluation
  after the action has expired cancels it and then records a SUPPRESSED action
  because "recovery is already active"; the opportunity is stuck until a reply, a
  takeover or a booking. `docs/DOMAIN_RULES.md:52` speaks of an existing active
  recovery.
- `duplicate_message`: `docs/REVENUE_OS.md:11` says that attempt keys prevent
  duplicate messages. When the record of a successful send fails, the `catch` block
  records a failed attempt, and the retry sends under a new key.
- `ledger_race`: `docs/HVAC_REVENUE_RECOVERY.md:40` says that refund events subtract
  from recovered totals. Of two revenue events appended at once the later writer
  waits for the opportunity's row and then stores a sum that its statement computed
  from a snapshot without the earlier event.
- `demo_handoff`: `docs/DOMAIN_RULES.md:17` says that a takeover disables automated
  sending. Closing an opportunity does not resolve its handoff; when it is reopened,
  every later takeover finds that old handoff, returns it and changes nothing.
- `owner_switch`: `ProductionPages.tsx:299` tells the owner that every customer shown
  belongs to the active business. A command sent under one business and answered after the
  owner has switched to another loads the snapshot of the first, under a newer number than
  that of the second.

Five more statements are stated in the modules and have no run of their own. Added to the
configuration that is named, as an invariant or a property, each gives the counterexample. For
three of them a property of that run shows that the race is the only way there.

- `StopsPrevail` (to `life`): the product says that opt-out and takeover always prevail
  (`ProductionPages.tsx:220`). `createFollowUp` reads mode and consent without a lock
  (`postgresProductionStore.ts:1596`), and so does the copilot's reactivation; a takeover or
  an opt-out that commits before the insert does not see the row, and
  `claim_follow_up_job` asks for neither. `OnlyRequestsInFlightStray` shows that nothing else
  leaves such a follow-up.
- `ResumeRetiresRequests` (to `life`): `docs/HVAC_REVENUE_RECOVERY.md:33` says that Resume AI
  retires the persisted request to a person, so that the next evaluation cannot reuse stale
  handoff state. An evaluation that took its snapshot under the takeover and waited for the
  opportunity writes such a request after the resume. No handoff is open, so Resume AI is
  refused, and the opportunity waits for nobody. `OnlyStaleEvaluationsStrand` shows that nothing
  else does this.
- `RecoveredHasEvidence` (to `life`): `docs/DOMAIN_RULES.md:54` asks for completed or
  waiting-customer evidence behind RECOVERED. A revenue event overwrites the attribution with
  what its client sends.
- `ResumeIsExplicit` (to `demo`): `docs/DOMAIN_RULES.md:17` says that Resume AI is never
  automatic. `sendMessage` saves the conversation it read before its await
  (`CloserService.ts:1177`): a takeover in between is lost, and the assistant has the conversation
  again. `TakeoversEndByResumeOrSave` shows that nothing else takes it from a person.
- `WonIsPaid` (to `demo`): `docs/DOMAIN_RULES.md:31` and `:35` let a won opportunity be owed for
  only until a refund reopens it. A send begun under a takeover and answered after the win
  restores HUMAN_ACTIVE; the journey then infers HUMAN_REVIEW before it looks at the balance, and
  a refund does not reopen the opportunity. `WonMeansDoneAndPaid` says what is left.

## What else the models say about the code

Met while modelling, visible in the actions named, and not shown by a run of its own.

Recovery and follow-ups:

- Booked work is not suppressed as closed work (`docs/DOMAIN_RULES.md:52`); it merely
  has no play.
- Nothing reads `max_attempts` of a play; many attempts only lower a score, while
  `docs/HVAC_REVENUE_RECOVERY.md:33` says that attempt limits override a play.
- The copilot's reactivation asks only whether the lead is LOST, so a customer who
  declined is reactivated; `docs/REVENUE_OS.md:13` limits it to three other reasons.
- The cancellation of an expired action is rolled back by the error that reports it.
- A follow-up that is being created survives a reply that commits between its check and its
  insert, as it survives a takeover (`StopsPrevail`); no document denies it.
- A message may reach a customer after a takeover or an opt-out that came between
  claim and send.
- SIGTERM ends the connection pool under a running cycle (`Stop`): the result of the
  send cannot be recorded, the lease is left to expire and the message is sent again,
  while `docs/PRODUCTION_SETUP.md:91` says that the worker exits cleanly.

Concurrent requests:

- `OptOutOutrunsRecovery` and `TakeoverOutrunsRecovery` are about actions only and say nothing
  of follow-ups that are being created (`StopsPrevail`).
- A constraint that fails inside an idempotent operation aborts the transaction;
  `abandonIdempotency` then issues a DELETE in it, which throws and hides the error: a
  client that should get 409 gets 500 (`FailureAnswer`).
  `productionFoundation.test.ts:459` expects 409 of two bookings at once.
- `IDEMPOTENCY_IN_PROGRESS` (`docs/PRODUCTION_ARCHITECTURE.md:74`) never happens over
  PostgreSQL: the claim of the key is part of the transaction, so the second request
  waits and then replays.
- An evaluation that waited for a lock decides with the conversation's mode as it was
  before it waited (`context`); `TakeoverOutrunsRecovery` holds all the same, because
  the takeover retires what it finds after it has the opportunity's lock.

Tenants, webhooks and limits:

- An owner who accepts a member invitation is demoted (`AcceptInvitation`): the
  invitation's role replaces the one there was.
- The replay of a provisioning always answers "owner", whatever became of the
  membership; the replay of an invitation returns no link. A membership is read
  without a lock, so a request authorised before a change still runs.
- Webhook event ids are unique for a provider across tenants: a second tenant's event
  with an id already used is a conflict (`SameEvent`).
- A full Map of the limiter refuses new callers, and a caller may make up to twice the
  limit of calls across the boundary of two windows. `RateIsLimited` says just that.

The demo:

- `sendMessage` saves the conversation it read before its await (`Sent`), which undoes
  a takeover, a closing or a resume in between. Three properties hold only because they leave
  room for it: `TakeoversEndByResumeOrSave` names the save as a way a takeover ends,
  `WonMeansDoneAndPaid` asks for payment only while the conversation is closed, and
  `ClosedIsSilent` is about closed conversations, so that a lost lead whose conversation was
  opened by a save, and whose follow-up is scheduled again, is outside it.
- A message whose decision failed is refused for ever
  (`MESSAGE_ALREADY_RECEIVED`, `CloserService.ts:612-617`).
- A redelivered inbound event reopens a lost lead before it is recognised as a
  duplicate (`IngestReturn`, 917-922; `docs/CONVERSATION_ENGINE.md:19`).
- A late message is decided from a newer one's context; a decision applied to a closed
  lead sets a next action on it.
- With two pieces of work only the newest is looked at: completing the older of two
  appointments closes the opportunity won while the newer is open; a refund of the
  older does not reopen it; sending a quote on a won lead leaves a pending action
  (`docs/DOMAIN_RULES.md:35`). `WonMeansDoneAndPaid` is therefore about one piece of work.
- A deposit follow-up stays scheduled after the deposit is paid
  (`docs/COMMERCIAL_JOURNEY.md:26`; `cancelFollowUpsForReference` is called by nothing).
- A cancel, decline or expire whose later step throws keeps its status change.
- Operational consent is never FALSE in the demo, and some statuses of its types
  (Paused, Qualified, Archived, Viewed, ChangeRequested, NoShow, InProgress) are
  reached by no operation.

The browser:

- `SpinnerHasCause` is about a user with a business. Without one a spinner can stay for
  good: a command of a user whose access was refused starts a load after the list came back
  empty, and a session event in between raises the number that the answer must carry.
- An answer 401 to a promise of an earlier account signs the present one out
  (`ExpireSession` does not ask whose token it was).

## Proofs

`tlapm` checks every theorem from the assumptions named in the modules
(`RecoveryAssumptions`, `WorkerAssumptions`, `OfferedAssumption`, `PaymentAmountAssumption`,
`RequestsAssumption`, `OrganizationsAssumption`, `RateLimiterAssumption`,
`SessionAssumption`, and in the demo `NamesAssumption`, `CadenceAssumption`,
`MoneyAssumption`, `FactsAssumption`, `OwnerAssumption`, `MessageAssumption`), which TLC
evaluates on the runs. They type the constants and ask for at least one attempt, a day of at
least one tick, finitely many requests, and that no row is called "none".

*The life cycle* (`OpportunityRecoveryProofs`). `TypeCorrect` proves the type
invariant, action by action, from one lemma for each row operator. The safety
invariants depend on one another: that a new live action is the only one needs that
a live action belongs to an open opportunity, that needs opt-outs and takeovers to reach
every live action, and so on. They are inductive only together, as `RecoveryInvariant`; the
proof restates it row by row as `Sound` (what holds of an action, of a live action, of a
follow-up, of an opportunity, of a request in flight), because a step changes few rows and
the others keep what they had. `SoundIsEnough` gives `RecoveryInvariant` back, `NextSound` has
one lemma for each operation, and `RecoveryCorrect` and the theorems of the single invariants
follow. What the policy contributes is stated once: `EligibleIsOpen`, `PreparedIsEligible`,
`HumanRequestIsJustified`, `HumanIsAskedFor`, `RejectedIsNotEligible`, `AutonomyIsRespected`.

An evaluation decides from a reading that may be out of date, and nothing about the reading
itself says that this is safe. `ReadingsAreCovered` is the part of the invariant that does: what
has changed since shows in the row that the evaluation locked. Consent is only ever lost, and an
opt-out closes every opportunity it finds. A takeover sets HUMAN_REQUIRED unless the
opportunity is closed; after that a reply keeps the state, an approval finds nothing waiting, a
booking sets BOOKED, which has no play, and another evaluation asks for the person again unless
something suppresses it that suppresses this one as well. The other direction fails: a reading
of a takeover that has been resumed leads to a request to nobody. `OnlyStaleEvaluationsEverStrand`
shows, action by action, that nothing else does, and `OnlyInFlightRequestsEverStray` the same of
the follow-ups that a takeover or an opt-out does not see.

What a step may do: `StatusChanges` and `ActionMoves` list all that a step does to a
status and to an action. From them: `StatusMovesAlwaysAllowed`, `RetiredWorkIsFinal`,
`ApprovalsAreAlwaysTimely` (which needs `Sound`, that consent is only lost by opting out,
and that what waits for an approval has an end) and `LifeCycleImplementsTable`, the refinement
of `FollowUpJobs`.

*The table* (`FollowUpJobsProofs`): `AttemptsAreAlwaysBounded`,
`SettledAlwaysStaysSettled`.

*The worker* (`FollowUpWorkerProofs`). The type invariant bounds attempts, which
needs that a leased job has an attempt left, which needs that a busy worker that
still owns its lease records under a key not yet taken: `IInv` is the conjunction.
It gives `WorkerTypes`, `AttemptKeysAreAlwaysFresh` and, as a refinement,
`WorkerImplementsTable`. `DispatchIsExclusive` assumes that no lease runs out under
its worker and adds that a busy worker holds a lease that has not run out or works
on a follow-up that nobody will claim again.

What workers count: `AttemptsAreAlwaysOnRecord` adds to `IInv` the invariant `RecordInv`:
the entries of a follow-up are numbered 1 to its attempt count, and a worker that records a
success has delivered. `DuplicatesAreAlwaysFaults` is not inductive as it stands, because a
message is counted when it is sent while the fault that leads to it came before. `BudgetInv`
keeps the account: messages delivered, plus workers about to send (`Sending`), plus one
while the follow-up may be claimed (`Pending`), are at most one more than the faults. A send
moves a unit from the second term to the first, a claim from the third to the second, and
every step that puts one back is a fault.

*Concurrent requests* (`StoreTransactionsProofs`), for any number of requests. Between
transactions the committed rows are consistent (`CommittedRows`); a transaction in progress
breaks that on purpose, so `TInv` says of each what makes its commit restore it (`Sound`): it
holds a lock on every row it wrote or owns the row (`Holding`); what it wrote is lawful over
what is *now* committed (`WroteOpportunity`, `WroteActions`, `Created`); the statements
behind it have established what its plan needs (`Place`); and the snapshot of a statement
that waits is out of date only in directions that do no harm (`Saw`): opt-outs and actions
are never taken back. That others leave all of this alone rests on `LocksExclude`: rows
somebody holds change only by their holder. `FoundIs` and `WritesIs` expand each statement once, and
one lemma for each kind of statement shows that it keeps `Sound`; commits are shown for each
operation. From `TInv`: `KeysHaveOneEffect`, `SlotsAreBookedOnce`, `RefundsStayWithin`,
`LiveActionsAreUnique`, `OptOutWins`, `TakeoverWins` and the types.

*Tenants* (`PlatformProofs`). `OrganizationInv` adds to `AuthorityIsGranted`
(as `MembersAreBacked`) that provisioning records name the caller's own tenant, that
whoever has a request in flight or has sent an invitation once was a member
(`RequestersAreMembers`, `InvitersAreMembers`): rows of memberships are deactivated and
never deleted, which is what makes this inductive. `InvitationsAreAlwaysSpentOnce` is an
action property, proved action by action.

*Webhooks* (`PlatformProofs`). `WebhookInv`: one delivery of an event at most
has an uncommitted row, and then none is recorded; one at most was processed; a recorded
event has its winner and every answered delivery carries the recorded facts.

*The limiter* (`PlatformProofs`). That 2 x limit + 1 grants of a key span a window
follows from `LimiterInv`, which relates a key's history to its bucket: all grants but the
last `count` came before the current window, and all but a further limit a whole window
before that (`InWindow`); a key without a bucket had a limit of grants at most in the last
window (`PastWindow`); and grants are spaced (`Spaced`). `PlatformTypes` is the composition:
a behaviour of `MCPlatform` moves one of the components and leaves the others at rest.

*The browser* (`OwnerSessionProofs`). `SessionInv` types the session, the component and
its promises; every promise has a number that was given, so that the last snapshot is the
only one that is current (`RequestsOK`). A spinner's cause is a promise that ends it
(`Caused`), and the cases are those where such a promise goes without ending it: its answer
starts the next one (`ListKeeps`, `JoinedKeeps`), or a newer load makes it stale and takes
its place (`LoadKeeps`, `RenderKeeps`).

*The demo* (`DemoProofs`, `DemoLedgerProofs`). Operations are compositions of operators on
one opportunity's rows, so the invariant is a predicate on such rows (`Sound`), each operator
is shown to keep it, and an operation is the chain of its steps (`Kept`). Within an operation
a rule may be broken for a while (a lead without its next action), which is why operators have their own
hypotheses. `DemoInv` adds what the waiting calls hold: a call that sends has read a conversation
that was not closed and no newer than what there is (`Outgoing`), which is why saving it
afterwards does not open or close anything that `ClosedIsSilent` speaks of. What the journey
and the assistant infer is chosen by the first rule that holds, for which
`FirstRuleDecides` is proved from the least index.

The ledger: what is collected for a piece of work is the sum of what is left of its
payments, and a payment's refunds are never more than the payment (`Ledgered`). A new
payment adds its amount to the one sum and a refund takes it from one summand
(`PaymentLedgered`, `RefundLedgered`); hence `CollectedStaysWithinTotal` and
`RefundsStayWithinPayments`. The sums are folds over sets, whose recursion takes any element
first: `SubsetInduction`, stated with the set of good subsets so that the prover can use it,
shows that the order does not matter.

What is won: `WonInv` says that the orders of saving name exactly the rows that exist
(`Booked`) and that a win whose only work is one row is finished, and paid while the
conversation is closed (`Earned`). With one row the journey looks at that row
(`SoleIsCurrent`). Reconciling therefore earns a win again from less than that: the work must be
finished, whatever was collected (`ReconciledEarned`), because a finished row that is owed for
makes the stage of a closed conversation AWAITING_BALANCE, which reopens. So payments and
refunds need only leave the work alone, completing a row finishes it (`FinishedByCompleting`),
saving a row that is not completed shows that there was no such win (`Rebooked`), and new work
comes to open opportunities only. The other operators change neither work nor money, and neither
win nor close a win (`Carries`). The save of a message that was being sent is one of them: it
writes a conversation that was not closed, and so it may end that a win is paid in full, but
not that its work is done. From these `WinsAreEarned`.

Only model-checked: `EveryJobSettles` and `EveryRequestEnds`, because liveness under
fairness is out of the prover's reach, and `TakeoversEndByResumeOrSave`.

## What is not modelled

- *Recovery:* rows that migration 0005 derives from earlier decisions; jobs, opt-outs
  and paused conversations older than migration 0004; intent, revenue and urgency
  scores, which are stored and shown but decide nothing; audit and timeline rows. In the life
  cycle an opt-out is one step: an opportunity that is created or evaluated between its
  statements is only in `StoreTransactions`, which has no creation and no follow-ups. A request
  takes the time of its second step, where the code takes it when the request arrives.
- *Transactions:* more than three requests at once; the statements of provisioning,
  invitations and webhooks (their modules have them in coarser steps); SQL outside the
  rows that requests meet on. A `FOR UPDATE` of a missing row locks nothing and is not
  a step.
- *Calendar:* partial overlaps (a slot is a value) and reading the calendar.
- *Copilot:* the tools that read; replays belong to idempotency.
- *Demo:* sends mixed with quotes, jobs or two appointments in TLC's runs (the theorems have
  every mixture); other leads' work on the same slots, staff and opening hours, photos, several
  facts in one message, the recognition of topics and facts in text, wording and
  confidence, priorities, objections, revenue events except their verification, the
  demo copilot, sign-in, settings, and persistence in local storage.
- *Browser:* the forms and pages, what they load themselves (an opportunity's page keeps
  its own state), the refresh of tokens inside the authentication library.
- *The in-memory store:* a second program with rules of its own that only tests run.
  What is said of the PostgreSQL store says nothing about it.
- *Row-level security:* the policies decide what a request finds, and refuse some that the
  models let pass (see `Organizations` above). They only take behaviours away.
- *No state of its own:* HTTP routing and validation, token checks, configuration,
  health checks, read models, copy, React pages.

## Plan

Done:

1. `RecoveryPolicy`, `OpportunityRecovery`: the life cycle and its theorems.
2. `FollowUpJobs`, `FollowUpWorker`: the table, its two refinements, liveness, and the
   theorems about attempts and duplicates.
3. `StoreTransactions`: locks, snapshots, deadlocks, idempotency, slots and the ledger, with
   its theorems.
4. `Organizations`, `WebhookIngestion`, `RateLimiter`, with their theorems.
5. The demo: journey, commerce, assistant, conversation, with its theorems.
6. `OwnerSession`: the browser's session and its snapshots, with its theorems.

Left:

7. `TakeoversEndByResumeOrSave` as a theorem: it needs that a tenant's work is of one kind, so
   that the piece of work that is completed is the one the journey looks at.
8. An abstract specification of exactly-once requests that `StoreTransactions` implements.
9. The in-memory store's life cycle as a second implementation, to find where tests
   against it say nothing about production.
10. The demo's persistence and two tabs over one local storage.
