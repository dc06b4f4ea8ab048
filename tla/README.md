# Proofwork: formal models

TLA+ modules that model the part of Proofwork in which a mistake is expensive and hard
to test: how a request becomes an authority, how a report about it becomes a task, the checks of
that task until its period ends, the decisions of its owner, the durable recovery of a subscription
cancellation with the gate that authorizes it and the job queue that drives it, and the life of the
demo workspaces in which visitors try all of this. TLC checks them on small instances; TLAPS proves
the main safety properties for every value of the constants. Line numbers refer to the repository
this directory belongs to; `PROJECT.json` lists, for every definition, the lines it stands for.

## 1. The system

Proofwork verifies a claim such as "the agent cancelled the subscription at period end"
against the billing source, and repairs a missing schedule under a policy.

| Component | State it keeps | Operations | Interacts through |
| --- | --- | --- | --- |
| Job queue (`packages/database/src/jobs.ts`) | `app.jobs`: status, attempt count, lease token and deadline, dedupe key | enqueue, lease, heartbeat, reclaim, complete, fail, cancel | the table; a partial unique index allows one live job per key |
| Worker (`apps/worker/src/index.ts`) | jobs in flight in memory | poll, run, heartbeat, maintenance | the queue; calls the handlers below |
| Verification (`verification.ts`, `evaluator.ts`) | observations, decisions, the task's projection and processing version, proposals | begin processing, read the source, record the evaluation | fencing by processing version and lease; creates, keeps or supersedes proposals; enqueues |
| Recovery engine (`recovery.ts`) | `app.recovery_operations`: state, response, dispatch count, resolution, attribution | precheck, gate, prepare, reserve, dispatch, persist, verify, resolve, retry, wait | billing source, proposals, queue |
| Recovery gate (`packages/domain/src/recovery.ts`) | none (a pure function) | evaluate at creation and at dispatch | called by verification and by the engine |
| Approvals (`decideApproval`) | `app.approval_decisions` | approve, reject | proposals, queue |
| Owner commands (`workspaces.ts`, `tasks.ts`, `requests.ts`, `connections.ts`) | pause, policy versions, retirement, request status, connection version | pause/resume, new policy, retire, supersede, move, recheck | proposals, queue |
| Billing source (`apps/billing-sandbox`, `packages/adapters`) | subscriptions, the ledger of idempotency keys | read, schedule cancellation, look up an operation | HTTP with timeouts |
| Requests and previews (`requests.ts`, `register-request-page.tsx`) | `app.registration_previews`, `app.authorized_requests`; the form | list, preview, confirm, correct, retire | reads the source; confirming consumes a preview and ends the version before |
| Claims (`claims.ts`, the routes, `submit-report-page.tsx`) | `app.receipts`, tasks, tokens, rate limits; the page's submission key | report, look up, retry, create and revoke tokens | creates the task of a request and queues its first check |
| Decisions (`recovery.ts`, `approvals-page.tsx`, owner commands) | proposals and the rows they are locked with; the mounted card | fetch, choose, approve, reject | row locks of PostgreSQL |
| Demos (`demo.ts`, the sandbox's admin API) | workspaces with an age, accounts of the sandbox, the visitor's session | create, undo, add a scenario, reset, purge | two services without a common transaction; triggers that refuse deletions |
| Stripe, sessions, audit, insights, activity, other pages | their own tables | single reads and commands | see section 6 |

What is hard here:

* **Interleaving.** Several workers run jobs of one task. The queue deduplicates by key, but a
  RECOVER and a RECONCILE job of one operation have different keys, a lapsed lease leaves the
  old run going, and the demo controls queue competing jobs.
* **Crashes between steps.** The handler of a RECOVER job is six transactions and three network
  calls; a worker may die between any two.
* **The network.** A write that timed out was lost, or was applied, or is still on its way.
* **Time.** Proposals expire, the period end approaches, evidence gets old, leases lapse.
* **Commands.** The owner withdraws authority at any moment of this.
* **Stale pages and lost answers.** A page shows what it fetched, sends commands about it later,
  and may give up on a command that the server carries out.
* **Row locks.** Decisions, commands, retirements and checks lock the same rows in different orders:
  they wait for each other, look again at rows found before they waited, and may deadlock.
* **Two services.** Creating, resetting and purging a demo are rows of calls to the database and to
  the sandbox, any of which may fail, beside workers that write in that demo.

Correct means, per component:

* *Queue:* one live job per key; a run that lost its lease changes nothing; no more than
  `max_attempts` runs; every job finishes.
* *Gate:* dispatch is allowed in exactly the documented case; waiting alone never allows.
* *Engine:* one unresolved operation per subscription; nothing is sent without a decision, a
  consumed proposal and a counted dispatch; what is closed as unsent was not sent; a confirmed
  failure is never applied; a resolved operation is not dispatched again; credit is true;
  every dispatch is resolved or escalated.
* *Verification:* one live proposal per task, whoever creates or ends one; what is shown is never
  replaced by older evidence; a check that is shown as due has a job.
* *Evaluator:* one repairable situation; an end inside the window is recognised, and for good.
* *Commands:* withdrawn authority stops writes; resuming brings authorized work back.
* *Source:* a key has one effect, however often and late it arrives.
* *Requests:* an authority is what its preview showed; a preview is used once and in time; the
  versions of a group are one line of which only the last may be active.
* *Claims:* who is told that a report was accepted finds it stored; a retry gets its receipt whatever
  ended since; of calls that race with one key one is new; a task has the receipt that opened it.
* *Decisions:* an approval that stands was given under the policy that applies, whatever overlaps.
* *Demos:* the record of a write that may have been sent is never deleted; a demo past its retention
  is purged, or has such a write.

## 2. The modules

| Module | Models | State |
| --- | --- | --- |
| `RecoveryGate` | `evaluateRecoveryGate` as the operator `Gate` over records, one operator per group of conditions, in the code's order | none |
| `GateInTime` | a gate context between two uses of the gate: the clock goes on, the evidence ages | `ctx` |
| `JobQueue` | `jobs.ts`, `runJob` and the maintenance that reclaims leases | one entry per row: `status`, `key`, `attempt`, `token`, `lapsed`, `due`; `runs` is the workers' memory |
| `KeyedQueue` | the abstract promise of the queue to those who use it: command, take, end, reclaim | `ready`, `held` (pairs of a key and a lease), `going` (leases whose runs go on) |
| `WriteLedger` | the abstract promise about writes: grant, open, attempt, take effect, close | `granted`, `report`, `attempts`, `effect` |
| `Evaluator` | `evaluate`, the ordered decision list, as `Reason` and `Evaluate` over records, and the comparison that is stored with a decision (`Comparison`), which is computed apart from it | none |
| `Monitoring` | the checks of one task from its claim to its last: VERIFY, RECHECK and MONITOR jobs, fencing, retries, the next check | `now`, `source`, `task`, `row[key]`, `run[w]`, `events` |
| `Registration` | the form, the preview, the two parts of a confirmation, corrections, retirement, connections | `source`, `connection`, `selected`, `preview[p]`, `request[r]`, `call[c]`, `form[t]`, `now`, `events` |
| `Ingestion` | agents and the page that report, the route with tokens and rate limit, `acceptClaim` | `credential`, `hits`, `request`, `task`, `job`, `receipt[q][k]`, `call[c]`, `page`, `events` |
| `Decisions` | the transactions about one task's proposals, lock by lock, and the approvals page | `policy`, `paused`, `active`, `retired`, `proposal[p]`, `call[c]`, `page`, `begun` |
| `DemoLifecycle` | creation, undo, scenarios, reset and purge of demos beside workers | `workspace[d]`, `connection`, `request`, `task`, `operation`, `account[d]`, `session`, `call[c]`, `worker[w]`, `purge`, `events` |
| `Recovery` | one task from its first verification to the resolution of its operations, with commands, source and time | see below |
| `RecoveryRefinement` | the mappings from `Recovery` to `WriteLedger` and `KeyedQueue` | none of its own |
| `MC*` | constants, symmetry and, for liveness, a bounded number of crashes | `crashes` in `MCRecoveryLive` |
| `*Proofs` | theorems about the module they extend | none of their own |

`Recovery` instantiates `RecoveryGate` and asks it with records built as the handlers build
their `GateContext`; `RecoveryRefinement` extends `Recovery` and instantiates `WriteLedger`.
The queues inside `Recovery` (`job`) and `Monitoring` (`row`) are abstractions that `JobQueue` justifies.
`KeyedQueue` is the contract between them: a key is free, ready, or held by one lease; a taken
job gets a lease like no other; only the run with that lease, or the maintenance, gives the key free; nothing
is queued beside a leased job. `JobQueue` implements it with rows, tokens, attempts and
deadlines (a lease is a row and its token); `Recovery` and `Monitoring` take, settle and queue their jobs
as it allows (a lease is a worker and its key). The three refinements are proved; what one side has
more of than the other, priorities, attempts, or what a job does, is behind the contract.

`Monitoring` is beside `Recovery`, not inside it: `Recovery` abstracts time to deadlines and an
evaluation to what its control depends on, `Monitoring` has a clock and the whole evaluator, and stops
where a mismatch hands the task to the engine (`IN_RECOVERY`).

`Registration`, `Ingestion` and `Decisions` are the neighbours of those two. What they hand over is a
state the next one starts from: an active request, a task with a live VERIFY row, an authorized
proposal. What they abstract from the neighbour is a few environment actions: in `Ingestion` a
worker takes and ends a check, in `Registration` an owner retires, in `Decisions` a check proposes.

### `Registration`

`RunPreview` and `PreviewAnswers`, `PreviewFails` are `previewRequest` and its answer, which the page
shows whatever is selected by then. A confirmation is `Confirm`, `ConfirmChecks` (all that is read
before the transaction; `Confirmable` is what the form asks of the page first), `ConfirmTx` or `ConfirmRefused`, and `Answer`; `Unreachable` is a page
that gives up while the server goes on. `ConfigureSource`, `ActivateConnection` are the commands on
connections (`MayActivate` is what the page asks before the second), `SourceChanges` and `Tick` the world. `from`, the preview of an authority, is not a column:
it only serves the properties.

### `Ingestion`

`AgentCalls` and `Submit` start a call, `Authenticate`, `CountHit`, `LookUp`, then `Accept`, `Reject` or
`UniqueViolation` with `Resolve`, and `Answer` are the handler cut at its awaits. The unique index
undoes the whole transaction of a call whose key was taken since the lookup, so `UniqueViolation` leaves no
task. The page takes a new key for a new payload and keeps it over failures; `known` remembers whether the
receipt was there when the call arrived. `TokenCommand` is what the settings page offers for tokens.

### `Decisions`

The only module in which a transaction is not one step. `Plan` lists the locks of each, in the code's
order: `FOR UPDATE` and `FOR SHARE`, the rows an `UPDATE` writes, the rows that foreign keys of an
`INSERT` lock; a lock that follows a stronger one on the same row, or that no other plan can block,
is left out. `Conflicts` is PostgreSQL's table of row lock modes. `Scan` finds the proposal,
`Lock` waits for the transactions that hold it (`Blockers`) and looks again at what was found,
`BreakDeadlock` is the database aborting one of a set that wait for each other, and the commits
(`DecideApproval`, `CreatePolicyVersion`, `SetWritesPaused`, `RetireTask`, `RetireRequest`,
`RecordEvaluation`) make the writes visible. `BeginCheck` loads the context of a check, in one step where the
code reads it in several statements; checks run one at a time, since `Monitoring` shows that of two the older is
fenced. `FetchApprovals`, `SetFilter`, `Choose`, `Decide` and `DecisionAnswered` are the page, whose card is
keyed by its proposal and so forgets its state when another is shown.

### `DemoLifecycle`

A handler of the API is cut at every await: `Explore`, `EnsureAccount`, `Connect`, then `Seed`, `Read`,
`Register`, `Claim` per scenario; `Reset`, `ResetTx`, `ResetAccount` and the scenarios again; `Fails` leads a
creation to `Undo` and `UndoAccount`, `Crashes` leads nowhere. A worker's tick is `PurgeQuery`, `PurgeOne`,
`PurgeAccount`. `DeleteRaises` are the triggers that refuse to delete an unresolved operation. A
worker's recovery is shortened to `Prepare`, `Reconcile`, `Reserve`, `Send`, `Verify`. A subscription is
its number and which one of that number it is (`seed`), since a reset seeds the numbers anew.

### `Monitoring`

`task` has the columns of `app.tasks` that checks write: `processing_state`, the shown reason, the
observation time behind it (`evidence`), `read_retry_count`, `retired_at`, and `begun`, the run whose
processing version the row has. `row[k]` is the live job of a dedupe key, LAPSED when its lease is over
and not reclaimed. The actions are `Lease`, `Load`, `Begin`, `Read`, `Record`, `RecordFenced`, `Settle`
(`processVerificationJob` cut at its awaits, `recordEvaluation`, `completeJob`), `Heartbeat`,
`LeaseLapses`, `Reclaim`, `Crash`, the commands `RequestRecheck`, `AdditionalReceipt` and `RetireTask`,
`SourceChanges` and `Tick`. The context that `Load` takes (`retries`, `retired`) is used by `Record`
as in the code, however old it is then.

### State of `Recovery`

| Variable | Code |
| --- | --- |
| `prop[p]`, `decision[p]`, `expired[p]` | `app.recovery_proposals` (status, policy version, held by a pause), `app.approval_decisions`, `expires_at <= now` |
| `op[p]` | the operation of proposal `p`: state, response (`outcome_certainty` with `last_error_code`), `dispatch_count`, `resolved_at`, attribution, `escalated_at` |
| `paused`, `policy`, `active`, `retired`, `moved`, `cutoff` | workspace pause, current policy version, request status, `retired_at`, connection version, T less the cutoff is past |
| `owner` | the run whose processing version the task has |
| `job`, `manual` | live rows of `app.jobs` by dedupe key, the trigger of the VERIFY row |
| `scheduled`, `shifted`, `ledger`, `late` | the subscription, the source's ledger of keys, requests whose sender gave up |
| `work[w]` | a handler's local variables: where it stands, context, the operation as loaded or returned, the read, its evaluation, an answer |

A handler is cut at every `await` that reaches the database or the network. Each transaction is
one action: the transactions that decide about a proposal or an operation lock its row, its task
or its workspace, and a conflict is a wait or an abort by the database (an aborted job fails and
is retried, as after a crash). Statements that only write the audit trail or the task's shown
state are left out.

| Action | Code |
| --- | --- |
| `Lease`, `StartVerification`, `StartRecovery`, `StartOperation` | `leaseJobs` and the head of the three handlers |
| `Begin`, `Read`, `RecordFenced`, `RecordEvidence`, `RecordCandidate` | `beginProcessing`, `readSource`, `recordEvaluation` |
| `Gate`, `HandleBlockedGate`, `Prepare`, `CloseBeforeDispatch` | `processRecoverJob`, `handleBlockedGate`, `reconcileOperation` |
| `Reserve`, `ReservationRefused`, `Send`, `PersistResponse` | `dispatchAndVerify` |
| `SourceAnswers`, `SourceDenies`, `WriteTimesOut`, `LateDelivery` | the sandbox's schedule-cancellation, the adapter, `httpRequest` |
| `Lookup`, `Resolve`, `Retry`, `Wait` | `verifyOperationFromSource` |
| `EndRun`, `Crash`, `ReclaimLease`, `ExpireProposals`, `EnsureReconciliationQueued` | `settleJob`, the worker's maintenance |
| `Decide`, `PauseWrites`, `ResumeWrites`, `CreatePolicyVersion`, `RetireTask`, `WithdrawRequest`, `MoveConnection`, `RequestRecheck`, `QueueCompetingRecovery` | the commands of the same names |
| `ProposalExpires`, `CutoffPasses`, `SourceChanges` | time, and others who change the subscription |

The constant `Env` names what may happen besides undisturbed progress (crashes, lapsing leases,
outages, each command, ...). A run takes the part of it that its question needs; the proofs hold
for every `Env`.

## 3. The runs

| Run | Question | Bounds |
| --- | --- | --- |
| `gate` | is the gate exact, do its stages agree, and is it monotone in time? | all contexts with times up to 5, both limits 1 |
| `jobs` | dedupe, fencing, budget; do the rows implement the keyed queue; does every job finish? | 2 rows, 2 keys, 2 workers, 2 runs each, 2 attempts |
| `workers` | can two runs of one task prepare, send or close twice? | 2 workers that lose leases and go on, a competing job per proposal, 2 proposals, 1 dispatch |
| `owner` | does withdrawn authority stop writes; is one proposal live? | every command, 2 proposals, 2 policy versions, 1 dispatch |
| `source` | is a failure final; does Recovery implement WriteLedger? | every fault of the source and crashes, 1 proposal, 2 dispatches |
| `monitoring` | is what checks show true, never older than before, explained by the comparison beside it, and final at the end? | 2 workers, 5 ticks with the period end at 2, 2 events, 8 snapshots, 2 read retries |
| `registration` | is an authority what its preview showed, once and in time; is a group one line? | 1 page, 2 confirmations at a time, 3 previews, 3 requests, 1 subscription, 2 sources, 2 ticks, 1 event |
| `ingestion` | is an acceptance true, a retry answered, a task with its receipt? | 1 token and the page, 2 keys, 2 requests, 2 calls at a time, 2 calls a window, 2 events |
| `demo` | is the record of an unresolved write kept; is a due demo purged? | 2 demos of 2 numbers, 1 starter scenario, 1 call, 2 workers, 2 dispatches, 2 seeds, 2 events |
| `decisions` | is an approval that stands current; is one proposal live? | 2 proposals, 3 transactions that overlap in every way |
| `live` | is every dispatch settled, every authorization used or ended? | 1 crash, 2 workers, 1 proposal, 2 dispatches |

Bounds. Two workers are the least with which a stale and a current run meet; more only add
stale runs, each of which is independent of the others. Two dispatches stand for the three of the
code: a first and a last, with a retry between; the proofs are for any number. One proposal is
enough for a question about one operation; two are needed where an earlier one must be remembered
(a prior verified recovery, a superseded proposal, a second operation). When no unused proposal is
left a verification supersedes the live one and creates nothing, a bound of the model that only
ends a behaviour early. In `monitoring` five ticks have a time before, at and after the period end, in
and after the grace period; two events are enough for a second check beside the first and a change
between them. The horizon of a behaviour of `Recovery` ends before the period end and before 24 hours.
In `registration` two confirmations are what meets at one preview; three requests are a
version, its correction and one more; a preview is valid until the next tick and the period of the
subscription ends soon or later, so that both deadlines are crossed. One event is one lost answer,
change, command or configuration at any point: what several do together is left to the
proofs, which are for any number of them. In `ingestion` the third call of a window is refused, two calls race
with one key, and two events allow a token to be created and then one thing to end. In `demo` one number
is a starter's and one is random; two demos let one block or outlive the other in the same purge;
two dispatches are a first and a last. In `decisions` three transactions are a decision, a check
and a command, or any other three.

Deadlock checking is off where the system may rest: no job, no command left. It is on in `decisions`, whose
page always polls; that transactions never wait for each other for good is what `BreakDeadlock` takes from
the database.

### Disagreements

One run, `monitoring_stops`, checks a sentence of the documentation that the code does not keep
(`AwaitedCheckIsQueued`): a MONITOR job queues its successor under its own key while its row is live, so nothing
is queued and a scheduled cancellation is not looked at again. It fails a second way when leases lapse: a run
that lost its lease begins after the run that has it, so that the version fences the one and the lease the
other; both reads are discarded, the job completes, and the task stays in VERIFYING.

The following were met in the models or while writing them; they have no run of their own. Those of the first
list are behaviours of `Recovery` and `Decisions`:

* An operation whose worker died before the request was sent is escalated, which makes its missing
  response look like an accepted one (`recovery.ts:563`, `636`, against the comment at 561-562 and
  RECOVERY-CONTRACT.md:53); a schedule made by a person is then credited to Proofwork.
* A late response overwrites the state VERIFIED of a resolved operation (`recovery.ts:493`); the reversal of
  its schedule no longer counts as one and policy writes again (VERIFICATION-CONTRACT.md:53).
* Retiring a task does not stop the dispatch of an operation that was already prepared: the reservation at
  `recovery.ts:411` does not read `retired_at` (RECOVERY-CONTRACT.md:66, `tasks.ts:240`).
* Resuming while the RECOVER job is about to end as paused loses the authorization: its job is
  deduplicated away (`workspaces.ts:332`, `jobs.ts:59`, RECOVERY-CONTRACT.md:13).
* `FailedNeverApplied` holds in the run `source` and is proved for environments that refuse no
  credential. With `"denied"` in `Env` it does not hold: a first request times out and is on its way,
  the retry is refused for its credential, the failure is confirmed, and the first request is applied.
* An approval may stand for a retired request or task: `decideApproval` reads the request without a lock
  (`recovery.ts:102-107`) and does not read `retired_at`, and a retirement looks for proposals before a check has
  committed one (`requests.ts:300-313`). The gate still stops the write for a request.

Seen in the code of the pages and routes that `Registration`, `Ingestion` and `DemoLifecycle` model:

* Enter in the registration form confirms without the tick that USER-GUIDE.md:44 asks for, and previews
  although the button is disabled, which leads to a second active request for a subscription
  (UX-CONTRACT.md:46). The answer of a preview is shown whatever is selected by then. A confirmation whose
  answer is lost is answered as expired when it is sent again, although the request is registered.
* `connections.ts:115-131` may change the account of a connection without a new configuration version.
* A token that is revoked after a call was authenticated does not stop that call (settings-page.tsx:587); a
  token whose creation was not answered stays live and nobody holds it.
* The recheck of an additional receipt is deduplicated while a check is live (API-CONTRACT.md:126).
* A creation that fails between making its account and its connection, or a purge whose call to the sandbox
  fails, leaves an account there that nothing deletes (`demo.ts:290`, DATA-MODEL.md:72); a purge ends at the first demo that raises
  and leaves the rest of its batch to the next tick.
* The limit of a purge applies before blocked demos are skipped (`demo.ts:301`, DATA-MODEL.md:72), and nothing
  orders the query: as many blocked demos as the limit, 50, can keep all others from being purged.
  With `PurgeLimit` below the number of demos the model refutes `DuePurged` in this way; the run
  `demo` has the limit at that number.

## 4. Fairness

* `JobQueue`: weak fairness of polling for each due row, of deadlines that nobody extends, of the
  end of each run (every network call has a timeout; a dead process has ended), and of reclaiming
  (maintenance runs every 15 seconds). A heartbeat may go on for as long as its run.
* `Recovery`: weak fairness of each worker's progress, of reclaiming each dead lease, and of the
  reconciliation scan for each operation. Nothing is assumed of owners, of time, of late requests
  or of the source's answers. Crashes are bounded (`MaxCrashes`), because workers that crash for
  ever settle nothing. Liveness instances do not use symmetry.
* `DemoLifecycle`: weak fairness of the three steps of the purge, which every tick of a worker's maintenance runs
  (`apps/worker/src/index.ts`); failures of it are events, which are bounded. Nothing is assumed of visitors,
  of handlers or of the jobs.
* `Monitoring`, `Registration`, `Ingestion` and `Decisions` state no fairness and only safety is asked of them.

## 5. The proofs

Everything below is checked by TLAPS from the definitions and the assumptions on constants
(`RecoveryAssumption`, `QueueAssumption`, `LimitsAssumption`, `StartAssumption`, `EvaluatorAssumption`,
`MonitoringAssumption`, `RegistrationAssumption`, `IngestionAssumption`, `DecisionsAssumption`,
`DemoAssumption`; the theorems about the write ledger assume `MaxAttempts \in Nat` themselves). They say
what the code justifies: limits are natural numbers, a value that stands for null is not one of the others,
there is a starter scenario, and the proposals of a task are finitely many. Every invariant and action property
of the passing runs is stated by a theorem for every value of the constants.

* `ContractProofs`: the gate allows a dispatch exactly in the stated case, a refusal does not turn into
  permission because time passes, and what is authorized at creation passes the gate at dispatch; as facts about
  all contexts, and as the three properties of the run `gate` for every set of contexts to start from. The three invariants of
  the write ledger, and that the keyed queue is exclusive: one holder per key, one key per lease, no ready
  job beside a held one.
* `JobQueueProofs`: the type invariant and all safety properties of the queue, `FinishedForever` and
  `StaleRunsHarmless` with them, which no run lists; and that it implements `KeyedQueue`. The inductive
  invariant says that the token of a row is its attempt count while it is leased and that runs hold
  tokens no larger than it, which is why two runs cannot match one row, and why a lease is like no other.
* `MonitoringProofs`: the decision list of the evaluator names a candidate exactly in the one repairable
  situation, the stored comparison explains every result, an end inside the window stands whenever it is read,
  the next check of a schedule is in time, for all times and limits; the type invariant and the five other properties
  of the run `monitoring`, for all workers, limits, clocks, subscriptions and environments; and that it
  uses its jobs as `KeyedQueue` allows.
* `RegistrationProofs`: the type invariant and the four properties of the run `registration`, for all pages,
  calls, rows, sources, bounds and environments.
* `IngestionProofs`: the type invariant and the three properties of the run `ingestion`, for all producers,
  keys, requests and calls.
* `DecisionsProofs`: the type invariant, `ApprovalIsCurrent`, and that one proposal is live, for any number of
  transactions and proposals, whichever transaction a deadlock aborts.
* `DemoLifecycleProofs`: the type invariant and `UnresolvedIsKept`; that a purged demo has left nothing and nothing that
  still runs brings any of it back (`PurgedIsGone`); that the record of an unresolved write keeps its task
  and request (`UnresolvedIsAnchored`); for any demos, handlers, workers and failures.
* `RecoveryProofs`: `Invariance`, and from it the type invariant, `OneUnresolvedOperation`,
  `OneLiveProposal`, `BlockedNeverSent`, `OnlyAuthorizedWrites`, `ResolvedNeverRedispatched` and
  `WithdrawnAuthorityStopsWrites`, for every set of workers, number of proposals, policy history,
  dispatch budget and environment. Every behaviour uses its jobs as `KeyedQueue` allows; and, in an
  environment that refuses no credentials, every behaviour is one of `WriteLedger` and a confirmed failure is never applied.

The argument of `RecoveryProofs`. None of the properties is inductive: whether an operation that is
closed as unsent was sent depends on what a handler may do next with the copy it holds. The
invariant `IInv` adds two parts to the types and the two uniqueness properties. `OperationsOK`
says what counters and states mean together: what does not exist was neither counted, sent nor
resolved; an operation comes from a consumed, decided proposal; what is at the source or late was
counted; a BLOCKED operation is resolved and was never counted. `RunsOK` says what a handler may rely on at each point, e.g. one
that is about to send has reserved, so the count is positive and no other step can close the
operation as unsent. The step from `IInv` to `IInv'` is proved action by action.

The argument of `MonitoringProofs`. That what is shown does not go back to older evidence is not
inductive: it depends on what runs hold that have not recorded yet. The invariant adds that of the runs
with a read only the one that began last may record (`Current`), that its read is not older than what is
shown, and that a recorded end is the source's, in every later read as well (`EndedIsKnown`). Most steps
neither read nor record (`Quiet`) and are dispatched by one lemma.

The argument of the refinement of `WriteLedger`. A report is read from `resolved_at` and the attribution, which no
late response overwrites, and not from the state, which one does. A closing as refused must be
true of the source's ledger. The strengthening therefore relates a recorded or remembered refusal
to the ledger: the response REJECTED, in the row or in a handler, implies that the source refused
the key (`OutcomesOK`, `RunKnows`). That is what a refused credential breaks, so the
theorem assumes that `Env` has none.

The argument of the three refinements of `KeyedQueue`. A step that leaves the runs and the leases alone is a
command or nothing, because rows of one key are never both ready and leased (in `JobQueue` that is
`OneLivePerKey`; in the others a key has one row). A lease is new in `JobQueue` because every run of the row
has a smaller token, elsewhere because the worker is idle and the key is ready. A settlement frees what the run's
own lease holds: one row that its token matches, or none. In `Monitoring` this needs that a row has an owner exactly
while it is leased (`LeasesOK`).

The argument of `DemoLifecycleProofs`. Nothing that is at work on a demo outlives it: until the visitor has the
cookie a creation is alone with its demo (`CreatesAlone`), a handler that is not undoing works on a workspace that is there
(`HandlersOK`), and a demo that a tick has chosen to purge is past its age and has no handler left (`PurgeOK`).
Workers do work on: what they write needs the row of its operation, which the deletion took away (`PurgedIsGone`).

The argument of `RegistrationProofs`. What a confirmation holds after its checks is the preview's
(`CallKnowsItsPreview`), because a configuration version is only counted up (`ConfigIsCounted`); what a preview
says of the version before is true of it (`PreviewKnowsItsPrior`); and a group is named by its first row (`GroupIsARow`), so that a new first
version starts a group that nobody else names. The transaction checks again that the
preview is live, in time, and the version before active, which makes each of them used once.

The argument of `IngestionProofs`. A receipt is never changed and its request has a task
(`ReceiptsHaveTasks`); a call in the transaction did not know its receipt, one that resolves has seen it, one
that says that a report was accepted finds it stored (`CallsKnow`); and no two calls say of one key that it is
new (`OneIsNew`), because an insertion finds the key free and an answer follows an insertion.

The argument of `DecisionsProofs` is that of two-phase locking, with its exceptions. A transaction that has
locked the workspace excludes those that lock it in a conflicting mode (`WorkspaceIsHeld`), one that has locked a
proposal excludes the others (`ProposalsAreHeld`), so what it holds is live until it ends (`HeldIsLive`).
Hence a decision past its checks is about a proposal of the current policy (`DecidedIsCurrent`), and a new policy
that looks for proposals after an approval finds it (`ApprovedIsFound`). A check that proposes has
found and holds what is live (`LiveIsFound`), because only a check creates proposals and checks come one
at a time.

What remains of the type invariant in `DecisionsProofs` is about the page (`PageInv`): it waits only for calls it
made, and an answered decision among them has a proposal to take the id of, since a decision that
locks no waiting proposal is refused. With `OneLive` that gives `TypeOK`.

Only model-checked: liveness (`EveryJobFinishes`, `DispatchIsSettled`, `AuthorizationIsUsed`, `DuePurged`), which
is out of the prover's reach.

## 6. What is not modelled

* The normalization of provider payloads, and of a stored comparison the rows that only repeat identifiers or facts.
* `recovery_state`, first-verified and monitoring-end times, and connection health after registration: columns
  for display that no handler reads; in `Monitoring`, an unresolved operation beside the checks.
* Of the settings page all but the commands it offers and when it offers them: a policy, a pause or a connection is a
  command with any argument, a dialog's reason is left out; profile and workspace
  creation, onboarding, reviews and manual notes.
* The Stripe adapter, which has the interface of the sandbox adapter and calls an external provider; sessions
  and cookies; audit, insights and activity, which are read-only or append-only; the pages that only fetch and
  send single commands. Reasons are given per component in `PROJECT.json`.
* Row locks outside `Decisions`: there a transaction is one step, and one that the database aborts has no effect
  and fails its job or command. The queue's `SKIP LOCKED` and the locks of the engine's own transactions are
  not in `Decisions`.
* Behaviours past 24 hours of an operation, and rechecks without end, which can fence every reconciliation.

## 7. Plan

1. Done: `RecoveryGate`, `GateInTime`, `JobQueue`, `KeyedQueue`, `WriteLedger`, `Recovery`, its refinements, `Evaluator`,
   `Monitoring`, `Registration`, `Ingestion`, `Decisions`, `DemoLifecycle`, and the proofs about them.
2. `TaskProjection`: `recovery_state` and the engine's writes of `processing_state` against the operations
   behind them, unresolved operations beside checks, connection health.
3. Two tasks with requests for one subscription, the unresolved-operation index between them, and their
   composition with the write ledger per subscription.
