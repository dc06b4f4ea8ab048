------------------------------ MODULE JobQueue ------------------------------
(***************************************************************************)
(* The durable job queue of packages/database/src/jobs.ts (table app.jobs) *)
(* and the worker loop of apps/worker/src/index.ts that drains it.         *)
(*                                                                         *)
(* Job is the set of rows; a row is used once.  A lease token is a fresh   *)
(* UUID in the code; here it is the attempt number the lease began with,   *)
(* which is as unique because every lease of a row raises attempt_count.   *)
(* A lease's deadline is a flag: lapsed[j] says that leased_until is past, *)
(* due[j] that due_at is.  Priorities and the limit per workspace order    *)
(* the leases and are left out: any due row may be leased.                 *)
(*                                                                         *)
(* A run is a worker's memory of a leased job (runJob's argument).  A run  *)
(* that outlives its lease goes on and settles with the token it holds.    *)
(***************************************************************************)
EXTENDS Naturals, FiniteSets

CONSTANTS
    Job,            \* rows of app.jobs
    Key,            \* dedupe keys
    CommandKey,     \* the keys whose pending jobs a command may cancel
    Worker,         \* worker processes
    MaxAttempts,    \* jobs.max_attempts
    Concurrency     \* WORKER_CONCURRENCY

ASSUME QueueAssumption ==
    /\ CommandKey \subseteq Key
    /\ MaxAttempts \in Nat \ {0}
    /\ Concurrency \in Nat \ {0}

VARIABLES
    status,     \* status[j]: "NONE" until the row is inserted
    key,        \* key[j]: dedupe_key
    attempt,    \* attempt[j]: attempt_count
    token,      \* token[j]: lease_token, 0 when null
    lapsed,     \* lapsed[j]: leased_until < now()
    due,        \* due[j]: due_at <= now()
    runs        \* jobs the workers are running

vars == <<status, key, attempt, token, lapsed, due, runs>>

Finished == {"SUCCEEDED", "FAILED", "DEAD", "CANCELED"}
Statuses == {"NONE", "READY", "LEASED"} \cup Finished
Run == [worker : Worker, job : Job, token : Nat \ {0}]

Live(j) == status[j] \in {"READY", "LEASED"}
Matches(r) == token[r.job] = r.token    \* where id = .. and lease_token = ..

TypeOK ==
    /\ status \in [Job -> Statuses]
    /\ key \in [Job -> Key]
    /\ attempt \in [Job -> Nat]
    /\ token \in [Job -> Nat]
    /\ lapsed \in [Job -> BOOLEAN]
    /\ due \in [Job -> BOOLEAN]
    /\ runs \subseteq Run

Init ==
    /\ status = [j \in Job |-> "NONE"]
    /\ key \in [Job -> Key]
    /\ attempt = [j \in Job |-> 0]
    /\ token = [j \in Job |-> 0]
    /\ lapsed = [j \in Job |-> FALSE]
    /\ due = [j \in Job |-> FALSE]
    /\ runs = {}
-----------------------------------------------------------------------------
\* Mutant: the unique index forgets leased rows.
EnqueueBesideLeased(k) ==
    /\ \A j \in Job : key[j] = k => status[j] # "READY"
    /\ \E j \in Job, d \in BOOLEAN :
        /\ status[j] = "NONE"
        /\ status' = [status EXCEPT ![j] = "READY"]
        /\ key' = [key EXCEPT ![j] = k]
        /\ due' = [due EXCEPT ![j] = d]
    /\ UNCHANGED <<attempt, token, lapsed, runs>>

\* enqueueJob, now or with a future due_at: nothing is inserted when a live job
\* has the key (the partial unique index jobs_dedupe_live).
Enqueue(k) ==
    /\ \A j \in Job : key[j] = k => ~Live(j)
    /\ \E j \in Job, d \in BOOLEAN :
        /\ status[j] = "NONE"
        /\ status' = [status EXCEPT ![j] = "READY"]
        /\ key' = [key EXCEPT ![j] = k]
        /\ due' = [due EXCEPT ![j] = d]
    /\ UNCHANGED <<attempt, token, lapsed, runs>>

\* due_at is reached.
BecomeDue(j) ==
    /\ status[j] = "READY" /\ ~due[j]
    /\ due' = [due EXCEPT ![j] = TRUE]
    /\ UNCHANGED <<status, key, attempt, token, lapsed, runs>>

\* Mutant: the lease token names the row, not the lease.
LeaseWithRowToken(w, j) ==
    /\ status[j] = "READY" /\ due[j]
    /\ Cardinality({r \in runs : r.worker = w}) < Concurrency
    /\ status' = [status EXCEPT ![j] = "LEASED"]
    /\ attempt' = [attempt EXCEPT ![j] = @ + 1]
    /\ token' = [token EXCEPT ![j] = 1]
    /\ lapsed' = [lapsed EXCEPT ![j] = FALSE]
    /\ runs' = runs \cup {[worker |-> w, job |-> j, token |-> 1]}
    /\ UNCHANGED <<key, due>>

\* leaseJobs: FOR UPDATE SKIP LOCKED gives a due row to one worker that has
\* capacity.  A batch is a sequence of these steps.
Lease(w, j) ==
    /\ status[j] = "READY" /\ due[j]
    /\ Cardinality({r \in runs : r.worker = w}) < Concurrency
    /\ status' = [status EXCEPT ![j] = "LEASED"]
    /\ attempt' = [attempt EXCEPT ![j] = @ + 1]
    /\ token' = [token EXCEPT ![j] = attempt[j] + 1]
    /\ lapsed' = [lapsed EXCEPT ![j] = FALSE]
    /\ runs' = runs \cup {[worker |-> w, job |-> j, token |-> attempt[j] + 1]}
    /\ UNCHANGED <<key, due>>

\* leased_until passes, whether or not the run is still going.
LeaseLapses(j) ==
    /\ status[j] = "LEASED" /\ ~lapsed[j]
    /\ lapsed' = [lapsed EXCEPT ![j] = TRUE]
    /\ UNCHANGED <<status, key, attempt, token, due, runs>>

\* heartbeatLease extends a lease that the run still holds; it also revives one
\* that has lapsed and was not reclaimed yet.
Heartbeat(r) ==
    /\ Matches(r) /\ status[r.job] = "LEASED"
    /\ lapsed' = [lapsed EXCEPT ![r.job] = FALSE]
    /\ UNCHANGED <<status, key, attempt, token, due, runs>>

\* Mutant: only leases whose job may be tried again.
ExpiredRetryable ==
    {j \in Job : status[j] = "LEASED" /\ lapsed[j] /\ attempt[j] < MaxAttempts}

\* reclaimExpiredLeases: every lapsed lease at once.
Expired == {j \in Job : status[j] = "LEASED" /\ lapsed[j]}

\* Mutant: one attempt too many.
ReclaimedOnceMore(j) == IF attempt[j] > MaxAttempts THEN "DEAD" ELSE "READY"

\* The status of a reclaimed row.
Reclaimed(j) == IF attempt[j] >= MaxAttempts THEN "DEAD" ELSE "READY"

ReclaimExpiredLeases ==
    /\ Expired # {}
    /\ status' = [j \in Job |-> IF j \in Expired THEN Reclaimed(j)
                                ELSE status[j]]
    /\ token' = [j \in Job |-> IF j \in Expired THEN 0 ELSE token[j]]
    /\ lapsed' = [j \in Job |-> IF j \in Expired THEN FALSE ELSE lapsed[j]]
    /\ due' = [j \in Job |-> IF j \in Expired THEN TRUE ELSE due[j]]
    /\ UNCHANGED <<key, attempt, runs>>

\* Mutant: the row is settled by its id alone.
SettleById(r, s) ==
    /\ status' = [status EXCEPT ![r.job] = s]
    /\ token' = [token EXCEPT ![r.job] = 0]
    /\ lapsed' = [lapsed EXCEPT ![r.job] = FALSE]
    /\ due' = [due EXCEPT ![r.job] = FALSE]

\* The row's change when run r settles it to s: nothing unless r still holds
\* the lease.
Settle(r, s) ==
    IF Matches(r)
    THEN /\ status' = [status EXCEPT ![r.job] = s]
         /\ token' = [token EXCEPT ![r.job] = 0]
         /\ lapsed' = [lapsed EXCEPT ![r.job] = FALSE]
         /\ due' = [due EXCEPT ![r.job] = FALSE]
    ELSE UNCHANGED <<status, token, lapsed, due>>

\* completeJob: the handler returned.
CompleteJob(r) ==
    /\ Settle(r, "SUCCEEDED")
    /\ runs' = runs \ {r}
    /\ UNCHANGED <<key, attempt>>

\* failJob with errorClass PERMANENT.
FailPermanent(r) ==
    /\ Settle(r, "FAILED")
    /\ runs' = runs \ {r}
    /\ UNCHANGED <<key, attempt>>

\* Mutant: the row gets the outcome that failJob returns.
FailRetryableAsOutcome(r) ==
    /\ Settle(r, IF r.token >= MaxAttempts THEN "DEAD" ELSE "RETRY")
    /\ runs' = runs \ {r}
    /\ UNCHANGED <<key, attempt>>

\* failJob with errorClass RETRYABLE: back to READY with a later due_at until
\* the attempts are used up.  The count is the one the run was leased with.
FailRetryable(r) ==
    /\ Settle(r, IF r.token >= MaxAttempts THEN "DEAD" ELSE "READY")
    /\ runs' = runs \ {r}
    /\ UNCHANGED <<key, attempt>>

\* The worker process dies, or settling itself fails: the row stays leased.
Abandon(r) ==
    /\ runs' = runs \ {r}
    /\ UNCHANGED <<status, key, attempt, token, lapsed, due>>

\* cancelPendingTaskJobs: what is not leased yet, for the command's kinds.
CancelPendingTaskJobs ==
    LET cancelled == {j \in Job : status[j] = "READY" /\ key[j] \in CommandKey}
    IN  /\ cancelled # {}
        /\ status' = [j \in Job |-> IF j \in cancelled THEN "CANCELED"
                                    ELSE status[j]]
        /\ UNCHANGED <<key, attempt, token, lapsed, due, runs>>

RunStep(r) ==
    \/ Heartbeat(r)
    \/ CompleteJob(r)
    \/ FailPermanent(r)
    \/ FailRetryable(r)
    \/ Abandon(r)

Next ==
    \/ \E k \in Key : Enqueue(k)
    \/ \E j \in Job : BecomeDue(j) \/ LeaseLapses(j)
    \/ \E w \in Worker, j \in Job : Lease(w, j)
    \/ \E r \in runs : RunStep(r)
    \/ ReclaimExpiredLeases
    \/ CancelPendingTaskJobs

\* A handler ends: every network call has a timeout and a dead process holds
\* nothing.
RunEnds(w, j) ==
    \E r \in runs :
        /\ r.worker = w /\ r.job = j
        /\ CompleteJob(r) \/ FailPermanent(r) \/ FailRetryable(r) \/ Abandon(r)

\* Some run still holds, and extends, the lease of j.
Held(j) == \E r \in runs : r.job = j /\ Matches(r)

\* Time passes for deadlines that nobody extends, the workers poll, and
\* maintenance reclaims.
Fairness ==
    /\ \A j \in Job :
        /\ WF_vars(BecomeDue(j))
        /\ WF_vars(~Held(j) /\ LeaseLapses(j))
        /\ WF_vars(\E w \in Worker : Lease(w, j))
        /\ \A w \in Worker : WF_vars(RunEnds(w, j))
    /\ WF_vars(ReclaimExpiredLeases)

Spec == Init /\ [][Next]_vars /\ Fairness
-----------------------------------------------------------------------------
(***************************************************************************)
(* Properties.                                                             *)
(***************************************************************************)

\* The live-dedupe index: never two live jobs for one key, so one task is not
\* verified, and one proposal not executed, by two jobs at once.
OneLivePerKey ==
    \A i, j \in Job : Live(i) /\ Live(j) /\ key[i] = key[j] => i = j

\* Fencing: at most one run of a job can still settle it, however many stale
\* runs of lost leases are going on.
AtMostOneOwner ==
    \A q, r \in runs : q.job = r.job /\ Matches(q) /\ Matches(r) => q = r

\* The attempt budget: a job that may be leased again has an attempt left, and
\* none is ever run more than max_attempts times.
AttemptBudget ==
    \A j \in Job :
        /\ attempt[j] <= MaxAttempts
        /\ status[j] = "READY" => attempt[j] < MaxAttempts

\* A run that lost its lease leaves the row alone when it ends, whatever the
\* row has become since: leased by another worker, finished or canceled.
StaleRunsHarmless ==
    [][\A r \in runs \ runs' :
        ~Matches(r) => /\ status'[r.job] = status[r.job]
                       /\ token'[r.job] = token[r.job]]_vars

\* A finished job never comes back to life.
FinishedForever ==
    [][\A j \in Job : status[j] \in Finished => status'[j] = status[j]]_vars

\* The queue as its users see it: the keys of the rows, and leases that are known
\* by row and token.
ReadyKeys == {key[j] : j \in {i \in Job : status[i] = "READY"}}
HeldKeys == {<<key[j], <<j, token[j]>>>> : j \in {i \in Job : status[i] = "LEASED"}}
GoingLeases == {<<r.job, r.token>> : r \in runs}

Keyed == INSTANCE KeyedQueue WITH
    ready <- ReadyKeys, held <- HeldKeys, going <- GoingLeases

\* Rows, tokens, attempts and deadlines give each key one job with one holder:
\* no run settles a job that is not, or no longer, its own.
ImplementsKeyedQueue == Keyed!Spec

\* No permanent "processing": every enqueued job is eventually finished, though
\* workers crash, leases lapse and runs fail.
EveryJobFinishes ==
    \A j \in Job : status[j] = "READY" ~> status[j] \in Finished
=============================================================================
