----------------------------- MODULE Monitoring ------------------------------
(***************************************************************************)
(* One task between its claim and its last check: the VERIFY, RECHECK and  *)
(* MONITOR jobs of packages/database/src/verification.ts, what they record *)
(* on the task, and which check they queue next.                           *)
(*                                                                         *)
(* A job has the key "verify:<task>" (VERIFY, RECHECK) or "monitor:<task>" *)
(* (MONITOR).  What a mismatch leads to is the subject of Recovery: here   *)
(* the task is then IN_RECOVERY, for every processing state that follows   *)
(* one, and no operation of the subscription is unresolved.                *)
(*                                                                         *)
(* Workers cut the handler at each await: load the context, begin, read,   *)
(* record, settle.  Time is counted in ticks up to MaxNow.                 *)
(***************************************************************************)
EXTENDS Evaluator, Sequences

CONSTANTS
    Worker,         \* workers with one run each
    PeriodEnd,      \* the authorized period end T
    RetryDelays,    \* LIMITS.READ_RETRY_DELAYS_SECONDS
    Subscription,   \* the snapshots the source may show
    ReadError,      \* the errors a read may end with
    MaxNow,         \* bound: the last tick
    MaxEvents,      \* bound: changes of the source, commands, crashes, lapses
    Env             \* what may happen besides undisturbed progress

ASSUME MonitoringAssumption ==
    /\ "NONE" \notin Worker
    /\ PeriodEnd \in Nat
    /\ RetryDelays \in Seq(Nat)
    /\ Subscription \subseteq Snapshots(Nat)
    /\ ReadError \subseteq SourceErrors
    /\ MaxNow \in Nat /\ MaxEvents \in Nat
    /\ Env \subseteq {"source", "recheck", "claim", "retire", "crash", "lapse"}

Time == 0..MaxNow

Keys == {"VERIFY", "MONITOR"}

ProcessingStates == {"QUEUED", "VERIFYING", "MONITORING", "WAITING_RECHECK",
                     "ESCALATED", "IDLE", "IN_RECOVERY"}

Reasons == {"NONE", "MISSING_CONTEXT", "REQUEST_NOT_ACTIVE", "SOURCE_UNAVAILABLE",
            "SOURCE_NOT_FOUND", "SOURCE_ACCESS_DENIED", "SOURCE_DATA_INVALID",
            "EVIDENCE_STALE", "IDENTITY_MISMATCH", "END_TIME_MISSING",
            "END_TIME_INVALID", "ENDED_ON_TIME", "ENDED_EARLY", "ENDED_LATE",
            "UNSUPPORTED_SHAPE", "PERIOD_CHANGED", "CONFLICTING_CANCEL_DATE",
            "CANCELLATION_SCHEDULED", "SCHEDULE_MISSING",
            "CANCELLATION_MODE_MISMATCH", "FINALIZATION_PENDING", "NOT_ENDED"}

VARIABLES
    now,        \* the clock
    source,     \* the subscription as a read would show it
    events,     \* how much of the bound is used
    task,       \* the task's row
    row,        \* row[k]: the live job with key k
    run         \* run[w]: the local variables of w's handler

vars == <<now, source, events, task, row, run>>

\* No live job: every finished one is alike.
NoRow == [status |-> "NONE", owner |-> "NONE", manual |-> FALSE, due |-> 0]

NoRead == [error |-> "NOT_CONFIGURED", retry_after |-> 0, observed |-> 0,
           snapshot |-> [complete |-> FALSE, matches |-> FALSE,
                         supported |-> FALSE, canceled |-> FALSE,
                         ended |-> NoTime, flag |-> FALSE,
                         cancel_at |-> NoTime, period_end |-> NoTime]]

\* A worker without a job.
Idle == [pc |-> "IDLE", key |-> "NONE", manual |-> FALSE, retries |-> 0,
         retired |-> FALSE, read |-> NoRead]

\* The active request of the task.
Request == [status |-> "ACTIVE", T |-> PeriodEnd]

Tasks ==
    [processing : ProcessingStates, reason : Reasons, evidence : Time,
     retries : 0..Len(RetryDelays), retired : BOOLEAN,
     begun : Worker \cup {"NONE"}]

Rows ==
    [status : {"NONE", "READY", "LEASED", "LAPSED"}, owner : Worker \cup {"NONE"},
     manual : BOOLEAN, due : Nat]

Runs ==
    [pc : {"IDLE", "LOAD", "BEGIN", "READ", "RECORD", "DONE"},
     key : Keys \cup {"NONE"}, manual : BOOLEAN,
     retries : 0..Len(RetryDelays), retired : BOOLEAN, read : Reads(Nat)]

\* Every variable has its type; a task's retries never exceed the schedule.
TypeOK ==
    /\ now \in Time /\ source \in Subscription /\ events \in 0..MaxEvents
    /\ task \in Tasks /\ row \in [Keys -> Rows] /\ run \in [Worker -> Runs]

\* One of the bounded events.
Event(e) ==
    /\ e \in Env /\ events < MaxEvents
    /\ events' = events + 1

\* A claim was accepted: the task waits for its first verification.
Init ==
    /\ now = 0 /\ source \in Subscription /\ events = 0
    /\ task = [processing |-> "QUEUED", reason |-> "NONE", evidence |-> 0,
               retries |-> 0, retired |-> FALSE, begun |-> "NONE"]
    /\ row = [k \in Keys |-> IF k = "VERIFY" THEN [NoRow EXCEPT !.status = "READY"]
                             ELSE NoRow]
    /\ run = [w \in Worker |-> Idle]
-----------------------------------------------------------------------------
(***************************************************************************)
(* The handler, processVerificationJob.                                    *)
(***************************************************************************)

\* leaseJobs: a due row goes to a worker that has no run.
Lease(w, k) ==
    /\ run[w].pc = "IDLE"
    /\ row[k].status = "READY" /\ row[k].due <= now
    /\ row' = [row EXCEPT ![k].status = "LEASED", ![k].owner = w, ![k].due = 0]
    /\ run' = [run EXCEPT ![w] = [Idle EXCEPT !.pc = "LOAD", !.key = k,
                                              !.manual = row[k].manual]]
    /\ UNCHANGED <<now, source, events, task>>

\* loadTaskContext: a retired task is only checked when a person asked for it.
Load(w) ==
    LET skipped == task.retired /\ ~run[w].manual IN
    /\ run[w].pc = "LOAD"
    /\ run' = [run EXCEPT ![w] = [@ EXCEPT !.pc = IF skipped THEN "DONE" ELSE "BEGIN",
                                           !.retries = task.retries,
                                           !.retired = task.retired]]
    /\ UNCHANGED <<now, source, events, task, row>>

\* beginProcessing: what was begun before is fenced from now on.
Begin(w) ==
    /\ run[w].pc = "BEGIN"
    /\ task' = [task EXCEPT !.begun = w, !.processing = "VERIFYING"]
    /\ run' = [run EXCEPT ![w].pc = "READ"]
    /\ UNCHANGED <<now, source, events, row>>

\* readSource
Read(w) ==
    /\ run[w].pc = "READ"
    /\ \E e \in ReadError \cup {"NONE"} :
        run' = [run EXCEPT ![w].pc = "RECORD",
                           ![w].read = [error |-> e, retry_after |-> 0,
                                        observed |-> now, snapshot |-> source]]
    /\ UNCHANGED <<now, source, events, task, row>>

\* The lease token is still the run's; the lease is also not over.
Owns(w) == row[run[w].key].owner = w
Holds(w) == Owns(w) /\ row[run[w].key].status = "LEASED"

\* Mutant: only the lease is looked at.
FencedByLease(w) == ~Holds(w)

\* Newer processing owns the task, or the lease is lost.
Fenced(w) == task.begun # w \/ ~Holds(w)

\* recordEvaluation of a fenced read: the observation is kept as discarded.
RecordFenced(w) ==
    /\ run[w].pc = "RECORD" /\ Fenced(w)
    /\ run' = [run EXCEPT ![w].pc = "DONE", ![w].read = NoRead]
    /\ UNCHANGED <<now, source, events, task, row>>

\* nextCheckAt of recordEvaluation: retries follow the task's own schedule.
\* A read that succeeded but is stale starts the schedule anew.
RetryCount(w) == IF run[w].read.error = "NONE" THEN 0 ELSE run[w].retries

NextCheckAt(w, e) ==
    IF e.verdict = "SATISFIED_SCHEDULED" \/ e.reason = "FINALIZATION_PENDING"
        THEN e.next
    ELSE IF e.transient /\ RetryCount(w) < Len(RetryDelays)
        THEN now + RetryDelays[RetryCount(w) + 1]
    ELSE NoTime

\* The processing state that recordEvaluation derives.
ProcessingAfter(w, e) ==
    IF e.verdict = "MISMATCH" THEN "IN_RECOVERY"
    ELSE IF e.verdict = "SATISFIED_SCHEDULED" THEN "MONITORING"
    ELSE IF e.verdict # "UNVERIFIABLE" THEN "IDLE"
    ELSE IF NextCheckAt(w, e) # NoTime THEN "WAITING_RECHECK"
    ELSE "ESCALATED"

\* enqueueJob: a live job with the key is returned instead of a new one.
Enqueued(r, k, due) ==
    IF r[k].status # "NONE" THEN r
    ELSE [r EXCEPT ![k] = [NoRow EXCEPT !.status = "READY", !.due = due]]

\* Mutant: the last failure counts as one more retry.
ProjectionOneMore(w, e) ==
    [task EXCEPT
        !.processing = IF run[w].retired THEN "IDLE" ELSE ProcessingAfter(w, e),
        !.reason = e.reason, !.evidence = run[w].read.observed,
        !.retries = IF e.transient THEN RetryCount(w) + 1 ELSE RetryCount(w)]

\* What recordEvaluation leaves on the task.  Whether the task was retired is
\* what the context said.
Projection(w, e) ==
    [task EXCEPT
        !.processing = IF run[w].retired THEN "IDLE" ELSE ProcessingAfter(w, e),
        !.reason = e.reason, !.evidence = run[w].read.observed,
        !.retries = IF e.transient /\ NextCheckAt(w, e) # NoTime
                    THEN RetryCount(w) + 1 ELSE RetryCount(w)]

\* recordEvaluation: the decision, the task's projection and the next check.
Record(w) ==
    LET e == Evaluate(Request, run[w].read, now) IN
    /\ run[w].pc = "RECORD" /\ ~Fenced(w)
    /\ task' = Projection(w, e)
    /\ row' = IF NextCheckAt(w, e) = NoTime \/ run[w].retired THEN row
              ELSE Enqueued(row, IF e.transient THEN "VERIFY" ELSE "MONITOR",
                            NextCheckAt(w, e))
    /\ run' = [run EXCEPT ![w].pc = "DONE", ![w].read = NoRead]
    /\ UNCHANGED <<now, source, events>>

\* completeJob: the token must be the run's, but the lease may be over.
Settle(w) ==
    /\ run[w].pc = "DONE"
    /\ row' = IF Owns(w) THEN [row EXCEPT ![run[w].key] = NoRow] ELSE row
    /\ run' = [run EXCEPT ![w] = Idle]
    /\ UNCHANGED <<now, source, events, task>>

\* The process dies.
Crash(w) ==
    /\ Event("crash") /\ run[w].pc # "IDLE"
    /\ run' = [run EXCEPT ![w] = Idle]
    /\ UNCHANGED <<now, source, task, row>>

\* leased_until passes: nobody extends the lease of a run that is gone, and a
\* heartbeat of one that goes on may come too late.
LeaseLapses(k) ==
    /\ row[k].status = "LEASED"
    /\ IF run[row[k].owner].key # k THEN UNCHANGED events ELSE Event("lapse")
    /\ row' = [row EXCEPT ![k].status = "LAPSED"]
    /\ UNCHANGED <<now, source, task, run>>

\* heartbeatLease of a lease that is over and not reclaimed yet.
Heartbeat(w) ==
    /\ run[w].pc # "IDLE" /\ Owns(w) /\ ~Holds(w)
    /\ row' = [row EXCEPT ![run[w].key].status = "LEASED"]
    /\ UNCHANGED <<now, source, events, task, run>>

\* reclaimExpiredLeases: the job is to be run again.
Reclaim(k) ==
    /\ row[k].status = "LAPSED"
    /\ row' = [row EXCEPT ![k].status = "READY", ![k].owner = "NONE", ![k].due = now]
    /\ UNCHANGED <<now, source, events, task, run>>
-----------------------------------------------------------------------------
(***************************************************************************)
(* Commands, the source and time.                                          *)
(***************************************************************************)

\* requestRecheck: a live check is moved forward instead of adding another.
RequestRecheck ==
    /\ Event("recheck") /\ ~task.retired
    /\ IF row["VERIFY"].status = "NONE"
       THEN /\ row' = [row EXCEPT !["VERIFY"] = [NoRow EXCEPT !.status = "READY",
                                                    !.manual = TRUE, !.due = now]]
            /\ task' = [task EXCEPT !.processing = "QUEUED", !.retries = 0]
       ELSE /\ row["VERIFY"].status = "READY"
            /\ row' = [row EXCEPT !["VERIFY"].manual = TRUE,
                                  !["VERIFY"].due = Sooner(@, now)]
            /\ UNCHANGED task
    /\ UNCHANGED <<now, source, run>>

\* acceptClaim for a task that exists: another receipt asks for another read.
AdditionalReceipt ==
    /\ Event("claim") /\ ~task.retired
    /\ row["VERIFY"].status = "NONE"
    /\ row' = Enqueued(row, "VERIFY", now)
    /\ UNCHANGED <<now, source, task, run>>

\* retireTask: the checks that wait are canceled, what runs goes on.
RetireTask ==
    /\ "retire" \in Env /\ ~task.retired
    /\ row' = [k \in Keys |-> IF row[k].status = "READY" THEN NoRow ELSE row[k]]
    /\ task' = [task EXCEPT !.retired = TRUE, !.processing = "IDLE"]
    /\ UNCHANGED <<now, source, events, run>>

\* An ended subscription stays ended, on the date it ended.
SourceChanges ==
    /\ Event("source") /\ ~source.canceled
    /\ \E s \in Subscription :
        /\ s # source /\ (s.canceled => s.ended = now)
        /\ source' = s
    /\ UNCHANGED <<now, task, row, run>>

Tick ==
    /\ now < MaxNow
    /\ now' = now + 1
    /\ UNCHANGED <<source, events, task, row, run>>

Progress(w) ==
    \/ \E k \in Keys : Lease(w, k)
    \/ Load(w) \/ Begin(w) \/ Read(w) \/ RecordFenced(w) \/ Record(w) \/ Settle(w)

Next ==
    \/ \E w \in Worker : Progress(w) \/ Heartbeat(w) \/ Crash(w)
    \/ \E k \in Keys : LeaseLapses(k) \/ Reclaim(k)
    \/ RequestRecheck \/ AdditionalReceipt \/ RetireTask
    \/ SourceChanges \/ Tick

Spec == Init /\ [][Next]_vars
-----------------------------------------------------------------------------
(***************************************************************************)
(* Properties.                                                             *)
(***************************************************************************)

\* What a run is about to record is a recovery candidate exactly when the
\* conditions hold, for evidence of any age.
CandidateIsExact ==
    \A w \in Worker :
        run[w].pc = "RECORD" =>
            (Evaluate(Request, run[w].read, now).candidate
                <=> CandidateConditions(Request, run[w].read, now))

\* What a run is about to record agrees with the comparison that is stored with it,
\* row by row, though rules and rows are computed apart.
ComparisonExplains ==
    \A w \in Worker :
        run[w].pc = "RECORD" => Explained(Request, run[w].read, now)

\* The shown result never rests on older evidence than the one before it,
\* whichever of the concurrent checks commits last ("late workers cannot
\* overwrite newer state", verification.ts).
EvidenceNeverGoesBack == [][task'.evidence >= task.evidence]_vars

\* A task shown as ended on time has ended, at the source, inside the window.
EndedOnTimeIsTrue ==
    task.reason = "ENDED_ON_TIME" =>
        /\ source.canceled
        /\ PeriodEnd <= source.ended /\ source.ended <= PeriodEnd + FinalizationGrace

\* No later check of a task that ended on time calls it anything else, except
\* that it could not look.
EndedOnTimeIsFinal ==
    [][task.reason = "ENDED_ON_TIME" =>
         task'.reason \in {"ENDED_ON_TIME"} \cup Untrustworthy]_vars

\* A task that waits for a check, or shows one under way, has a job for it
\* (ARCHITECTURE.md, "Monitoring: scheduled cancellations are re-read at least
\* daily"; the comment of reclaimExpiredLeases, jobs.ts, "never leaves permanent
\* 'processing'").
AwaitedCheckIsQueued ==
    task.processing \in {"QUEUED", "VERIFYING", "MONITORING", "WAITING_RECHECK"}
        /\ ~task.retired
    => \E k \in Keys : row[k].status # "NONE"
-----------------------------------------------------------------------------
\* The rows as the jobs of a KeyedQueue, which JobQueue implements: a worker has
\* one run, so a lease is known by worker and key.
ReadyKeys == {k \in Keys : row[k].status = "READY"}
HeldKeys == {<<k, <<row[k].owner, k>>>> :
                k \in {j \in Keys : row[j].status \in {"LEASED", "LAPSED"}}}
GoingLeases == {<<w, run[w].key>> : w \in {v \in Worker : run[v].pc # "IDLE"}}

Keyed == INSTANCE KeyedQueue WITH
    Key <- Keys, ready <- ReadyKeys, held <- HeldKeys, going <- GoingLeases

\* Checks, commands, crashes and late heartbeats use the jobs as a keyed queue
\* allows.
UsesKeyedQueue == Keyed!Spec
=============================================================================
