------------------------------ MODULE Recovery ------------------------------
(***************************************************************************)
(* The recovery of one task: packages/database/src/recovery.ts and         *)
(* verification.ts, run by worker slots, with the commands of an owner     *)
(* (workspaces.ts, tasks.ts, requests.ts, connections.ts, demo.ts) and the *)
(* billing source (apps/billing-sandbox, adapters/src/sandbox.ts).         *)
(*                                                                         *)
(* One task, its request, workspace, connection and subscription.  A       *)
(* Proposal is used once, in order, and has at most one operation, which   *)
(* it names: op[p] is the operation of proposal p.  A worker slot runs one *)
(* job at a time; its handler is cut where it awaits: each database        *)
(* transaction, source read, source write and lookup is a step.  All       *)
(* transactions that touch the task's proposals and operations also lock   *)
(* the task row or a row named in the step, so a transaction is atomic.    *)
(*                                                                         *)
(* Time is the set of deadlines that have passed: expired[p] for a         *)
(* proposal's expires_at (an operation's authorized_until is never later), *)
(* cutoff for the period end less the recovery cutoff.  The horizon ends   *)
(* before the period end.  What is only shown (verdicts, audit, processing *)
(* and recovery projections of the task) is left out.                      *)
(*                                                                         *)
(* Env lists what may happen in a run besides undisturbed progress.        *)
(***************************************************************************)
EXTENDS Integers

CONSTANTS
    Worker,         \* worker slots
    NoWorker,
    MaxProposals,   \* bound: proposals of the task
    MaxPolicy,      \* bound: policy versions of the workspace
    PolicyMode,     \* PolicyMode[v]: the mode of version v
    MaxDispatches,  \* LIMITS.MAX_WRITE_DISPATCHES
    Env             \* what the environment may do

Capabilities ==
    {"outage", "slow", "crash", "lapse", "dead", "lost", "late", "reject",
     "denied", "external", "reverse", "shift", "expiry", "cutoff", "pause",
     "policy", "retire", "withdraw", "move", "recheck", "monitor", "compete",
     "refuse"}

ASSUME RecoveryAssumption ==
    /\ NoWorker \notin Worker
    /\ "NONE" \notin Worker /\ "READY" \notin Worker
    /\ MaxProposals \in Nat \ {0}
    /\ MaxPolicy \in Nat \ {0}
    /\ PolicyMode \in
          [1..MaxPolicy -> {"OBSERVE_ONLY", "REQUIRE_APPROVAL", "AUTO_RECOVER"}]
    /\ MaxDispatches \in Nat \ {0}
    /\ Env \subseteq Capabilities

VARIABLES
    \* app.recovery_proposals and app.approval_decisions
    prop, decision, expired,
    \* app.recovery_operations
    op,
    \* app.workspaces, app.authorized_requests, app.tasks, app.connections
    paused, policy, active, retired, moved, cutoff, owner,
    \* app.jobs, by dedupe key
    job, manual,
    \* the subscription at the source, its ledger of keys, requests in the network
    scheduled, shifted, ledger, late,
    \* the workers' memory
    work

proposals == <<prop, decision, expired>>
authority == <<paused, policy, active, retired, moved, cutoff>>
queue == <<job, manual>>
source == <<scheduled, shifted, ledger, late>>
vars == <<proposals, op, authority, owner, queue, source, work>>

Proposal == 1..MaxProposals
NoProposal == 0

LiveStatuses == {"AWAITING_APPROVAL", "AUTHORIZED", "BLOCKED"}
ProposalStatuses ==
    LiveStatuses \cup {"NONE", "CONSUMED", "REJECTED", "EXPIRED", "SUPERSEDED"}
OpenStates == {"PREPARED", "DISPATCHED", "AWAITING_VERIFICATION",
               "OUTCOME_UNKNOWN"}
FinalStates == {"VERIFIED", "FAILED_CONFIRMED", "RESOLVED_EXTERNALLY",
                "BLOCKED"}

\* jobs: one row per dedupe key is live at a time (JobQueue); NONE is no live
\* row, a worker is the one whose lease token the row has.
JobKey == ({"RECOVER", "COMPETE", "RECONCILE"} \X Proposal)
             \cup ({"VERIFY", "MONITOR"} \X {NoProposal})

\* outcome: outcome_certainty and last_error_code, which are CERTAIN and null,
\* as after an accepted write, until a response is recorded.
NoOp == [state |-> "NONE", outcome |-> "CLEAN", count |-> 0,
         resolved |-> FALSE, attribution |-> "NONE", escalated |-> FALSE]

Operation ==
    [state : {"NONE"} \cup OpenStates \cup FinalStates,
     outcome : {"CLEAN", "REJECTED", "UNCERTAIN"}, count : 0..MaxDispatches,
     resolved : BOOLEAN, attribution : {"NONE", "PROOFWORK", "UNATTRIBUTED"},
     escalated : BOOLEAN]

NoCtx == [active |-> TRUE, policy |-> 1, paused |-> FALSE,
          retired |-> FALSE, moved |-> FALSE]

Context == [active : BOOLEAN, policy : 1..MaxPolicy, paused : BOOLEAN,
            retired : BOOLEAN, moved : BOOLEAN]

Idle == [pc |-> "IDLE", job |-> <<"VERIFY", NoProposal>>, flow |-> "VERIFY",
         ctx |-> NoCtx, seen |-> NoOp, read |-> "NONE", eval |-> "NONE",
         note |-> "NONE"]

Pcs == {"IDLE", "BEGIN", "READ", "RECORD", "GATE", "BLOCKED", "PREPARE",
        "CLOSE", "RESERVE", "SEND", "WAITING", "PERSIST", "LOOKUP", "SETTLE",
        "DONE", "FAIL"}

Flows == {"VERIFY", "PRECHECK", "RESUME", "CONFIRM"}
Reads == {"NONE", "SATISFIED", "MISSING", "OTHER", "UNREADABLE"}
Evals == Reads \cup {"INACTIVE", "STALE", "FENCED"}
\* note: what the next step needs of the last one's answer.
Notes == {"NONE", "ALREADY_SATISFIED", "REQUEST_NOT_ACTIVE", "NOT_CANDIDATE",
          "PRIOR_REVERSAL", "OPERATION_UNRESOLVED", "OBSERVE_ONLY",
          "CUTOFF_REACHED", "APPROVAL_EXPIRED", "APPROVAL_STALE",
          "CONNECTION_CHANGED", "EVIDENCE_TOO_OLD", "WRITES_PAUSED",
          "APPROVAL_REQUIRED", "ACCEPTED", "REJECTED", "UNCERTAIN",
          "APPLIED", "REFUSED", "UNKNOWN"}

Run == [pc : Pcs, job : JobKey, flow : Flows, ctx : Context, seen : Operation,
        read : Reads, eval : Evals, note : Notes]

TypeOK ==
    /\ prop \in [Proposal -> [status : ProposalStatuses, policy : 1..MaxPolicy,
                              held : BOOLEAN]]
    /\ decision \in [Proposal -> {"NONE", "APPROVE", "REJECT", "AUTO_POLICY"}]
    /\ expired \in [Proposal -> BOOLEAN]
    /\ op \in [Proposal -> Operation]
    /\ paused \in BOOLEAN /\ policy \in 1..MaxPolicy /\ active \in BOOLEAN
    /\ retired \in BOOLEAN /\ moved \in BOOLEAN /\ cutoff \in BOOLEAN
    /\ owner \in Worker \cup {NoWorker}
    /\ job \in [JobKey -> {"NONE", "READY"} \cup Worker]
    /\ manual \in BOOLEAN
    /\ scheduled \in BOOLEAN /\ shifted \in BOOLEAN
    /\ ledger \in [Proposal -> {"NONE", "APPLIED", "REFUSED"}]
    /\ late \subseteq Proposal
    /\ work \in [Worker -> Run]

\* A claim was just accepted (claims.ts): the first verification is queued.
Init ==
    /\ prop = [p \in Proposal |-> [status |-> "NONE", policy |-> 1,
                                   held |-> FALSE]]
    /\ decision = [p \in Proposal |-> "NONE"]
    /\ expired = [p \in Proposal |-> FALSE]
    /\ op = [p \in Proposal |-> NoOp]
    /\ paused = FALSE /\ policy = 1 /\ active = TRUE
    /\ retired = FALSE /\ moved = FALSE /\ cutoff = FALSE
    /\ owner = NoWorker
    /\ job = [k \in JobKey |-> IF k[1] = "VERIFY" THEN "READY" ELSE "NONE"]
    /\ manual = FALSE
    /\ scheduled = FALSE /\ shifted = FALSE
    /\ ledger = [p \in Proposal |-> "NONE"] /\ late = {}
    /\ work = [w \in Worker |-> Idle]
-----------------------------------------------------------------------------
(***************************************************************************)
(* Helpers.                                                                *)
(***************************************************************************)
Mode == PolicyMode[policy]
Live == {p \in Proposal : prop[p].status \in LiveStatuses}
Unused == {p \in Proposal : prop[p].status = "NONE"}

\* Mutant: only what waits for a response counts.
UnresolvedResponse == {p \in Proposal : op[p].state = "DISPATCHED"}

\* The operations that keep their subscription to themselves: resolved_at is
\* null.
Unresolved == {p \in Proposal : op[p].state # "NONE" /\ ~op[p].resolved}

PriorVerified == \E p \in Proposal : op[p].state = "VERIFIED"

\* An operation's authorized_until is past.
WindowEnded(p) == expired[p] \/ cutoff

\* enqueueJob on the jobs of a transaction: nothing when the key is live.
Enqueued(j, k) == [j EXCEPT ![k] = IF @ = "NONE" THEN "READY" ELSE @]

\* Mutant: an authorized proposal is left alone.
SupersededUndecided == [p \in Proposal |->
    IF prop[p].status \in {"AWAITING_APPROVAL", "BLOCKED"}
    THEN [prop[p] EXCEPT !.status = "SUPERSEDED"] ELSE prop[p]]

\* The live proposals (at most one) set to SUPERSEDED.
Superseded == [p \in Proposal |->
    IF p \in Live THEN [prop[p] EXCEPT !.status = "SUPERSEDED"] ELSE prop[p]]

\* The proposal of the job that worker w runs.
Of(w) == work[w].job[2]

\* The worker still holds its job's lease.
Holds(w) == job[work[w].job] = w

Goto(w, pc) == work' = [work EXCEPT ![w].pc = pc]

\* The gate of RecoveryGate, with time as the deadlines that have passed.
G == INSTANCE RecoveryGate WITH RecoveryCutoff <- 0, PrecheckMaxAge <- 0

\* The gate's context when worker w has evaluated its read to e, at the stage
\* "proposal": policy, pause and connection as the handler loaded them.
ProposalContext(w, e) ==
    LET c == work[w].ctx IN
    [verdict |-> CASE e = "SATISFIED" -> "SATISFIED_SCHEDULED"
                   [] e \in {"UNREADABLE", "STALE"} -> "UNVERIFIABLE"
                   [] OTHER -> "MISMATCH",
     reason |-> IF e = "MISSING" THEN "SCHEDULE_MISSING" ELSE "OTHER",
     candidate |-> e = "MISSING",
     request_status |-> IF c.active THEN "ACTIVE" ELSE "RETIRED",
     request_version |-> 1,
     period_end |-> IF cutoff THEN 0 ELSE 1, now |-> 0,
     mode |-> PolicyMode[c.policy], policy_version |-> c.policy,
     paused |-> c.paused, config_version |-> IF c.moved THEN 2 ELSE 1,
     proposal |-> [status |-> "NONE"], fingerprint |-> "", evidence_age |-> -1,
     unresolved |-> Unresolved # {},
     prior_verified |-> PriorVerified /\ e = "MISSING", stage |-> "proposal"]

\* The same before a write: policy and pause as they are now, the proposal of
\* the job, and a precheck that may have become too old.
DispatchContext(w, old) ==
    LET p == Of(w) IN
    [ProposalContext(w, work[w].eval) EXCEPT
        !.mode = Mode, !.policy_version = policy, !.paused = paused,
        !.proposal = [status |-> "AUTHORIZED",
                      expires_at |-> IF expired[p] THEN 0 ELSE 1,
                      request_version |-> 1, policy_version |-> prop[p].policy,
                      config_version |-> 1, fingerprint |-> "f"],
        !.fingerprint = IF work[w].eval = "MISSING" THEN "f" ELSE "other",
        !.evidence_age = IF old THEN 1 ELSE 0,
        !.prior_verified = FALSE, !.stage = "dispatch"]
-----------------------------------------------------------------------------
(***************************************************************************)
(* A worker's run of a job, up to the evaluation of a source read.         *)
(***************************************************************************)

\* Worker w starts on job k: the task's context and, for a RECOVER or RECONCILE
\* job, the operation that already exists, as they are now.
Start(w, k, pc, flow) ==
    work' = [work EXCEPT ![w] =
       [pc |-> pc, job |-> k, flow |-> flow,
        ctx |-> [active |-> active, policy |-> policy, paused |-> paused,
                 retired |-> retired, moved |-> moved],
        seen |-> IF k[2] = NoProposal THEN NoOp ELSE op[k[2]],
        read |-> "NONE", eval |-> "NONE", note |-> "NONE"]]

\* processVerificationJob: a retired task is only read on demand.
StartVerification(w, k) ==
    /\ k[1] \in {"VERIFY", "MONITOR"}
    /\ IF retired /\ ~(k[1] = "VERIFY" /\ manual)
       THEN Start(w, k, "DONE", "VERIFY") ELSE Start(w, k, "BEGIN", "VERIFY")

\* processRecoverJob without an operation.
StartRecovery(w, k) ==
    /\ k[1] \in {"RECOVER", "COMPETE"} /\ op[k[2]].state = "NONE"
    /\ IF prop[k[2]].status = "AUTHORIZED"
       THEN Start(w, k, "BEGIN", "PRECHECK") ELSE Start(w, k, "DONE", "VERIFY")

\* processRecoverJob and processReconcileJob with an operation.
StartOperation(w, k) ==
    /\ k[1] \in {"RECOVER", "COMPETE", "RECONCILE"}
    /\ LET o == op[k[2]] IN
       \/ /\ o.state # "NONE" /\ ~o.resolved
          /\ IF o.state = "PREPARED" /\ o.count = 0
             THEN Start(w, k, "BEGIN", "RESUME") ELSE Start(w, k, "BEGIN", "CONFIRM")
       \/ /\ o.resolved \/ (o.state = "NONE" /\ k[1] = "RECONCILE")
          /\ Start(w, k, "DONE", "VERIFY")

\* leaseJobs, and what the handler loads first.
Lease(w, k) ==
    /\ work[w].pc = "IDLE" /\ job[k] = "READY"
    /\ k[1] = "MONITOR" => "monitor" \in Env
    /\ job' = [job EXCEPT ![k] = w]
    /\ StartVerification(w, k) \/ StartRecovery(w, k) \/ StartOperation(w, k)
    /\ UNCHANGED <<proposals, op, authority, owner, manual, source>>

\* beginProcessing: the worker becomes the owner of the task's projection.
Begin(w) ==
    /\ work[w].pc = "BEGIN"
    /\ owner' = w
    /\ Goto(w, "READ")
    /\ UNCHANGED <<proposals, op, authority, queue, source>>

\* What the source shows through the connection the handler loaded; another
\* account does not have the subscription.
Shown(w) ==
    {IF work[w].ctx.moved THEN "UNREADABLE"
     ELSE IF shifted THEN "OTHER"
     ELSE IF scheduled THEN "SATISFIED" ELSE "MISSING"}
        \cup (IF "outage" \in Env THEN {"UNREADABLE"} ELSE {})

\* readSource
Read(w) ==
    /\ work[w].pc = "READ"
    /\ \E r \in Shown(w) :
        work' = [work EXCEPT ![w] = [@ EXCEPT !.pc = "RECORD", !.read = r]]
    /\ UNCHANGED <<proposals, op, authority, owner, queue, source>>

\* evaluate: the request's status comes first, then the read, which is stale
\* evidence when the handler is slow.
Evaluations(w) ==
    IF ~work[w].ctx.active THEN {"INACTIVE"}
    ELSE {work[w].read} \cup
         (IF "slow" \in Env /\ work[w].read # "UNREADABLE" THEN {"STALE"} ELSE {})

\* Where each flow continues once its read is evaluated to e.
AfterRecord(w, e) ==
    LET r == work[w] IN
    CASE r.flow = "VERIFY" -> "DONE"
      [] r.flow = "PRECHECK" ->
            IF e = "FENCED" THEN "FAIL"
            ELSE IF e = "SATISFIED" THEN "DONE"
            ELSE IF r.read = "UNREADABLE" THEN "FAIL" ELSE "GATE"
      [] r.flow = "RESUME" ->
            IF e = "FENCED" \/ r.read = "UNREADABLE" THEN "FAIL"
            ELSE IF e = "MISSING" THEN "RESERVE" ELSE "CLOSE"
      [] OTHER ->
            IF r.seen.outcome # "CLEAN" \/ r.seen.state = "DISPATCHED"
            THEN "LOOKUP" ELSE "SETTLE"

Recorded(w, e) ==
    work' = [work EXCEPT ![w] =
                [@ EXCEPT !.pc = AfterRecord(w, e), !.eval = e]]

\* recordEvaluation by a worker that lost the task or its lease: the read is
\* kept for diagnostics only.  A lapsed lease that is not reclaimed yet counts.
RecordFenced(w) ==
    /\ work[w].pc = "RECORD"
    /\ owner # w \/ ~Holds(w) \/ "lapse" \in Env
    /\ Recorded(w, "FENCED")
    /\ UNCHANGED <<proposals, op, authority, owner, queue, source>>

\* The jobs a recorded evaluation may add: daily monitoring of a schedule, a
\* retry of a read that failed, until the read retries are used up.
FollowUps(w, e) ==
    IF work[w].ctx.retired THEN {job}
    ELSE CASE e = "SATISFIED" -> {Enqueued(job, <<"MONITOR", NoProposal>>)}
           [] e \in {"UNREADABLE", "STALE"} ->
                {job, Enqueued(job, <<"VERIFY", NoProposal>>)}
           [] OTHER -> {job}

\* The live proposal still fits what the handler loaded and read.
Reusable(w) ==
    \E p \in Live : /\ prop[p].status \in {"AWAITING_APPROVAL", "AUTHORIZED"}
                    /\ work[w].read = "MISSING"
                    /\ prop[p].policy = work[w].ctx.policy
                    /\ ~expired[p]

\* A new proposal p of status s, bound to the loaded policy version.
Insert(w, s, p) ==
    /\ prop' = [Superseded EXCEPT ![p] = [status |-> s, held |-> s = "BLOCKED",
                                          policy |-> work[w].ctx.policy]]
    /\ IF s = "AUTHORIZED"
       THEN /\ decision' = [decision EXCEPT ![p] = "AUTO_POLICY"]
            /\ job' = Enqueued(job, <<"RECOVER", p>>)
       ELSE UNCHANGED <<decision, job>>

\* The next proposal in order replaces the live one.
Create(w, s) ==
    \/ Unused = {} /\ prop' = Superseded /\ UNCHANGED <<decision, job>>
    \/ \E p \in Unused : (\A q \in Unused : p <= q) /\ Insert(w, s, p)

\* recordEvaluation by the owner, without a proposal to make.
RecordEvidence(w) ==
    /\ work[w].pc = "RECORD" /\ owner = w /\ Holds(w)
    /\ \E e \in Evaluations(w) :
        /\ work[w].flow = "VERIFY" =>
              e # "MISSING" /\ ~(e = "INACTIVE" /\ Reusable(w))
        /\ prop' = IF e \in {"SATISFIED", "OTHER", "INACTIVE"}
                   THEN Superseded ELSE prop
        /\ job' \in FollowUps(w, e)
        /\ Recorded(w, e)
    /\ UNCHANGED <<decision, expired, op, authority, owner, manual, source>>

\* recordEvaluation with allowProposal, for a missing schedule: keep the live
\* proposal when it still fits, or replace it by what the gate allows.
RecordCandidate(w) ==
    /\ work[w].pc = "RECORD" /\ owner = w /\ Holds(w)
    /\ work[w].flow = "VERIFY"
    /\ \E e \in Evaluations(w) :
        /\ e = "MISSING" \/ (e = "INACTIVE" /\ Reusable(w))
        /\ LET d == G!Gate(ProposalContext(w, e)) IN
           IF Reusable(w) THEN UNCHANGED <<prop, decision, job>>
           ELSE CASE d = "APPROVAL_REQUIRED" -> Create(w, "AWAITING_APPROVAL")
                  [] d = "EXECUTION_ALLOWED" -> Create(w, "AUTHORIZED")
                  [] d = "WRITES_PAUSED" -> Create(w, "BLOCKED")
                  [] OTHER -> prop' = Superseded /\ UNCHANGED <<decision, job>>
        /\ Recorded(w, e)
    /\ UNCHANGED <<expired, op, authority, owner, manual, source>>

Record(w) == RecordFenced(w) \/ RecordEvidence(w) \/ RecordCandidate(w)
-----------------------------------------------------------------------------
(***************************************************************************)
(* From an authorized proposal to a prepared operation.                    *)
(***************************************************************************)

\* processRecoverJob asks the dispatch gate with the policy, the pause and the
\* unresolved operations of this moment.
Gate(w) ==
    /\ work[w].pc = "GATE"
    /\ \E old \in IF "slow" \in Env THEN BOOLEAN ELSE {FALSE} :
        LET d == G!Gate(DispatchContext(w, old)) IN
        work' = [work EXCEPT ![w] =
            [@ EXCEPT !.pc = IF d = "EXECUTION_ALLOWED" THEN "PREPARE"
                             ELSE "BLOCKED",
                      !.note = IF d = "EXECUTION_ALLOWED" THEN "NONE" ELSE d]]
    /\ UNCHANGED <<proposals, op, authority, owner, queue, source>>

\* handleBlockedGate: a pause and an unresolved operation keep the
\* authorization; stale bindings are derived again; the rest needs a person.
HandleBlockedGate(w) ==
    /\ work[w].pc = "BLOCKED"
    /\ LET p == Of(w)
           d == work[w].note
           to(s) == IF prop[p].status = "AUTHORIZED"
                    THEN [prop EXCEPT ![p].status = s] ELSE prop
       IN
       \/ /\ d \in {"WRITES_PAUSED", "OPERATION_UNRESOLVED"}
          /\ UNCHANGED <<prop, job>>
       \/ /\ d = "APPROVAL_EXPIRED"
          /\ prop' = IF prop[p].status \in {"AUTHORIZED", "AWAITING_APPROVAL"}
                     THEN [prop EXCEPT ![p].status = "EXPIRED"] ELSE prop
          /\ UNCHANGED job
       \/ /\ d \in {"APPROVAL_STALE", "CONNECTION_CHANGED", "EVIDENCE_TOO_OLD"}
          /\ prop' = to("SUPERSEDED")
          /\ job' = Enqueued(job, <<"VERIFY", NoProposal>>)
       \/ /\ d \in {"ALREADY_SATISFIED", "REQUEST_NOT_ACTIVE", "NOT_CANDIDATE",
                    "OBSERVE_ONLY", "CUTOFF_REACHED", "APPROVAL_REQUIRED"}
          /\ prop' = to("BLOCKED")
          /\ UNCHANGED job
    /\ Goto(w, "DONE")
    /\ UNCHANGED <<decision, expired, op, authority, owner, manual, source>>

\* The proposal must still be authorized and decided; two unique indexes allow
\* one operation per proposal and one unresolved operation per subscription.
Preparable(p) ==
    /\ prop[p].status = "AUTHORIZED"
    /\ decision[p] \in {"APPROVE", "AUTO_POLICY"}
    /\ op[p].state = "NONE"
    /\ Unresolved = {}

\* Mutant: the proposal is not consumed.
PrepareUnconsumed(w) ==
    /\ work[w].pc = "PREPARE" /\ Preparable(Of(w))
    /\ op' = [op EXCEPT ![Of(w)] = [NoOp EXCEPT !.state = "PREPARED"]]
    /\ work' = [work EXCEPT ![w] =
          [@ EXCEPT !.pc = "RESERVE", !.seen = [NoOp EXCEPT !.state = "PREPARED"]]]
    /\ UNCHANGED <<proposals, authority, owner, queue, source>>

\* The prepare transaction.
Prepare(w) ==
    /\ work[w].pc = "PREPARE"
    /\ LET p == Of(w) IN
       IF Preparable(p)
       THEN /\ op' = [op EXCEPT ![p] = [NoOp EXCEPT !.state = "PREPARED"]]
            /\ prop' = [prop EXCEPT ![p].status = "CONSUMED"]
            /\ work' = [work EXCEPT ![w] =
                  [@ EXCEPT !.pc = "RESERVE",
                            !.seen = [NoOp EXCEPT !.state = "PREPARED"]]]
       ELSE Goto(w, "DONE") /\ UNCHANGED <<op, prop>>
    /\ UNCHANGED <<decision, expired, authority, owner, queue, source>>

\* Mutant: the operation is closed as it was loaded.
CloseAsLoaded(w) ==
    /\ work[w].pc = "CLOSE"
    /\ op' = [op EXCEPT ![Of(w)].state = "BLOCKED", ![Of(w)].resolved = TRUE]
    /\ Goto(w, "DONE")
    /\ UNCHANGED <<proposals, authority, owner, queue, source>>

\* reconcileOperation, when the source changed before a prepared operation was
\* dispatched: close it, unless it was dispatched meanwhile.
CloseBeforeDispatch(w) ==
    /\ work[w].pc = "CLOSE"
    /\ op' = IF op[Of(w)].count = 0
             THEN [op EXCEPT ![Of(w)].state = "BLOCKED", ![Of(w)].resolved = TRUE]
             ELSE op
    /\ Goto(w, "DONE")
    /\ UNCHANGED <<proposals, authority, owner, queue, source>>
-----------------------------------------------------------------------------
(***************************************************************************)
(* The write: reserve, send, persist (dispatchAndVerify).                  *)
(***************************************************************************)

\* Mutant: the pause was looked at by the gate already.
AuthorityAfterGate(p) ==
    /\ Mode # "OBSERVE_ONLY" /\ policy = prop[p].policy
    /\ active
    /\ ~moved
    /\ ~WindowEnded(p)

\* The authority of a dispatch, as the reservation re-reads it.
Authority(p) ==
    /\ ~paused
    /\ Mode # "OBSERVE_ONLY" /\ policy = prop[p].policy
    /\ active
    /\ ~moved
    /\ ~WindowEnded(p)

\* Mutant: the resolution is not looked at.
ReservableResolved(p) == Authority(p) /\ op[p].count < MaxDispatches

\* Mutant: the budget is off by one.
ReservableOnceMore(p) ==
    /\ ~op[p].resolved /\ op[p].state \in OpenStates
    /\ Authority(p)
    /\ op[p].count <= MaxDispatches

\* What a reservation needs.
Reservable(p) ==
    /\ ~op[p].resolved /\ op[p].state \in OpenStates
    /\ Authority(p)
    /\ op[p].count < MaxDispatches

\* The reservation refuses: what was never dispatched is closed, what may have
\* been sent goes on being reconciled.
ReservationRefused(w) ==
    /\ work[w].pc = "RESERVE"
    /\ ~Reservable(Of(w)) \/ "slow" \in Env
    /\ LET p == Of(w) IN
       /\ op' = IF op[p].count = 0 /\ ~op[p].resolved
                THEN [op EXCEPT ![p].state = "BLOCKED", ![p].resolved = TRUE]
                ELSE op
       /\ job' = IF op[p].count > 0 THEN Enqueued(job, <<"RECONCILE", p>>)
                 ELSE job
    /\ Goto(w, "DONE")
    /\ UNCHANGED <<proposals, authority, owner, manual, source>>

\* The reservation: the dispatch is counted before anything is sent.
Reserve(w) ==
    /\ work[w].pc = "RESERVE"
    /\ Reservable(Of(w))
    /\ LET o == op[Of(w)] IN
       op' = [op EXCEPT ![Of(w)] = [o EXCEPT !.state = "DISPATCHED",
                                             !.count = o.count + 1]]
    /\ Goto(w, "SEND")
    /\ UNCHANGED <<proposals, authority, owner, queue, source>>

\* The last look at the deadline before the request leaves.
Send(w) ==
    /\ work[w].pc = "SEND"
    /\ IF WindowEnded(Of(w))
       THEN /\ job' = Enqueued(job, <<"RECONCILE", Of(w)>>)
            /\ Goto(w, "DONE")
       ELSE Goto(w, "WAITING") /\ UNCHANGED job
    /\ UNCHANGED <<proposals, op, authority, owner, manual, source>>

\* schedule-cancellation at the source, one transaction: a key that was seen is
\* replayed; else the source applies the write or, with a fault, refuses it.
Handles(p) ==
    IF ledger[p] # "NONE" THEN UNCHANGED <<ledger, scheduled>>
    ELSE \/ /\ ledger' = [ledger EXCEPT ![p] = "APPLIED"]
            /\ scheduled' = TRUE
         \/ /\ "reject" \in Env
            /\ ledger' = [ledger EXCEPT ![p] = "REFUSED"]
            /\ UNCHANGED scheduled

\* A credential that the source does not accept (any more): refused, and not in
\* the ledger.
SourceDenies(w) ==
    /\ "denied" \in Env /\ work[w].pc = "WAITING"
    /\ work' = [work EXCEPT ![w] = [@ EXCEPT !.pc = "PERSIST", !.note = "REJECTED"]]
    /\ UNCHANGED <<proposals, op, authority, owner, queue, source>>

\* The request arrives; the answer comes back or, with "lost", a timeout.
SourceAnswers(w) ==
    /\ work[w].pc = "WAITING"
    /\ Handles(Of(w))
    /\ \E a \in {IF ledger'[Of(w)] = "APPLIED" THEN "ACCEPTED" ELSE "REJECTED"}
                  \cup (IF "lost" \in Env THEN {"UNCERTAIN"} ELSE {}) :
        work' = [work EXCEPT ![w] = [@ EXCEPT !.pc = "PERSIST", !.note = a]]
    /\ UNCHANGED <<proposals, op, authority, owner, queue, shifted, late>>

\* The adapter gives up before the request arrived: it is lost, or still on its
\* way.
WriteTimesOut(w) ==
    /\ work[w].pc = "WAITING"
    /\ \/ "lost" \in Env /\ UNCHANGED late
       \/ "late" \in Env /\ late' = late \cup {Of(w)}
    /\ work' = [work EXCEPT ![w] =
                  [@ EXCEPT !.pc = "PERSIST", !.note = "UNCERTAIN"]]
    /\ UNCHANGED <<proposals, op, authority, owner, queue, scheduled, shifted,
                   ledger>>

\* A request that its sender gave up on reaches the source.
LateDelivery(p) ==
    /\ p \in late
    /\ Handles(p)
    /\ late' = late \ {p}
    /\ UNCHANGED <<proposals, op, authority, owner, queue, shifted, work>>

\* Persist the response.  The update does not ask whether the operation was
\* resolved while the request was out.
PersistResponse(w) ==
    /\ work[w].pc = "PERSIST"
    /\ LET p == Of(w)
           a == work[w].note
           new == [op[p] EXCEPT
                     !.state = IF a = "UNCERTAIN" THEN "OUTCOME_UNKNOWN"
                               ELSE "AWAITING_VERIFICATION",
                     !.outcome = IF a = "ACCEPTED" THEN "CLEAN" ELSE a]
       IN  /\ op' = [op EXCEPT ![p] = new]
           /\ work' = [work EXCEPT ![w] =
                 [@ EXCEPT !.pc = "BEGIN", !.flow = "CONFIRM", !.seen = new,
                           !.read = "NONE", !.eval = "NONE", !.note = "NONE"]]
    /\ UNCHANGED <<proposals, authority, owner, queue, source>>
-----------------------------------------------------------------------------
(***************************************************************************)
(* Resolution from an independent read (verifyOperationFromSource).        *)
(***************************************************************************)

\* lookupOperation: what the ledger of the loaded account says of the key, if the
\* source answers.
Lookup(w) ==
    /\ work[w].pc = "LOOKUP"
    /\ \E a \in {IF work[w].ctx.moved \/ ledger[Of(w)] = "NONE" THEN "UNKNOWN"
                 ELSE ledger[Of(w)]}
                  \cup (IF "outage" \in Env THEN {"UNKNOWN"} ELSE {}) :
        work' = [work EXCEPT ![w] = [@ EXCEPT !.pc = "SETTLE", !.note = a]]
    /\ UNCHANGED <<proposals, op, authority, owner, queue, source>>

\* A successful response is recorded: no DISPATCHED operation has one.
Accepted(s) == s.state \notin {"DISPATCHED", "PREPARED"} /\ s.outcome = "CLEAN"

\* Mutant: a key that the source does not know (yet) was not applied.
RefusedIfUnknown(s, a) == s.outcome = "REJECTED" \/ a \in {"REFUSED", "UNKNOWN"}

\* The response or the source's ledger says that the write was refused.
Refused(s, a) == s.outcome = "REJECTED" \/ a = "REFUSED"

\* The resolutions that the operation as the handler knows it, its read and the
\* lookup lead to.  A read that failed escalates after the write window.
Resolutions(w) ==
    LET r == work[w]
        s == r.seen
    IN
    IF r.eval = "FENCED" \/ r.read = "UNREADABLE"
        THEN {"WAIT"} \cup (IF expired[Of(w)] THEN {"ESCALATE"} ELSE {})
    ELSE IF r.eval = "SATISFIED"
        THEN {IF Accepted(s) \/ r.note = "APPLIED" THEN "VERIFIED"
              ELSE "RESOLVED_EXTERNALLY"}
    ELSE IF Refused(s, r.note) THEN {"FAILED_CONFIRMED"}
    ELSE IF /\ r.eval = "MISSING"
            /\ r.note # "APPLIED" /\ ~Accepted(s)
            /\ s.count < MaxDispatches /\ ~WindowEnded(Of(w))
        THEN {"RETRY"}
    ELSE {"ESCALATE"}

\* RESOLVE: only an operation that nobody resolved before.
Resolve(w) ==
    /\ work[w].pc = "SETTLE"
    /\ \E s \in Resolutions(w) \cap FinalStates :
        op' = IF op[Of(w)].resolved THEN op
              ELSE [op EXCEPT ![Of(w)] =
                     [@ EXCEPT !.state = s, !.resolved = TRUE,
                               !.attribution =
                                 CASE s = "VERIFIED" -> "PROOFWORK"
                                   [] s = "RESOLVED_EXTERNALLY" -> "UNATTRIBUTED"
                                   [] OTHER -> "NONE"]]
    /\ Goto(w, "DONE")
    /\ UNCHANGED <<proposals, authority, owner, queue, source>>

\* RETRY: the same operation and key, with this read as the precheck.
Retry(w) ==
    /\ work[w].pc = "SETTLE"
    /\ "RETRY" \in Resolutions(w)
    /\ Goto(w, "RESERVE")
    /\ UNCHANGED <<proposals, op, authority, owner, queue, source>>

\* Mutant: a person is told only of what a response made uncertain.
WaitQuietly(w) ==
    /\ work[w].pc = "SETTLE"
    /\ \E s \in Resolutions(w) \cap {"WAIT", "ESCALATE"} :
        op' = IF /\ s = "ESCALATE" /\ op[Of(w)].state = "OUTCOME_UNKNOWN"
                 /\ ~op[Of(w)].resolved /\ ~op[Of(w)].escalated
              THEN [op EXCEPT ![Of(w)] = [@ EXCEPT !.state = "OUTCOME_UNKNOWN",
                                                   !.escalated = TRUE]]
              ELSE op
    /\ job' = Enqueued(job, <<"RECONCILE", Of(w)>>)
    /\ Goto(w, "DONE")
    /\ UNCHANGED <<proposals, authority, owner, manual, source>>

\* WAIT: escalate once if a person must look, and reconcile again later (the
\* horizon is shorter than the 24 hours after which this job stops coming).
Wait(w) ==
    /\ work[w].pc = "SETTLE"
    /\ \E s \in Resolutions(w) \cap {"WAIT", "ESCALATE"} :
        op' = IF /\ s = "ESCALATE"
                 /\ ~op[Of(w)].resolved /\ ~op[Of(w)].escalated
              THEN [op EXCEPT ![Of(w)] = [@ EXCEPT !.state = "OUTCOME_UNKNOWN",
                                                   !.escalated = TRUE]]
              ELSE op
    /\ job' = Enqueued(job, <<"RECONCILE", Of(w)>>)
    /\ Goto(w, "DONE")
    /\ UNCHANGED <<proposals, authority, owner, manual, source>>
-----------------------------------------------------------------------------
(***************************************************************************)
(* The end of a run, crashes and maintenance.                              *)
(***************************************************************************)

\* A finished VERIFY row takes its payload with it.
Ends(k, s) ==
    /\ job' = [job EXCEPT ![k] = s]
    /\ manual' = (manual /\ ~(k[1] = "VERIFY" /\ s = "NONE"))

\* Mutant: a failed precheck is a permanent error.
FailPermanently == {"NONE"}

\* failJob of an error that is retried until the attempts are used up.
FailRetried == {"READY"} \cup (IF "dead" \in Env THEN {"NONE"} ELSE {})

\* settleJob: completeJob, or failJob of an error that is retried until the
\* attempts are used up; nothing happens to a job whose lease was lost.
EndRun(w) ==
    /\ \/ /\ work[w].pc = "DONE"
          /\ IF Holds(w) THEN Ends(work[w].job, "NONE") ELSE UNCHANGED queue
       \/ /\ work[w].pc = "FAIL"
          /\ IF Holds(w)
             THEN \E s \in FailRetried : Ends(work[w].job, s)
             ELSE UNCHANGED queue
    /\ work' = [work EXCEPT ![w] = Idle]
    /\ UNCHANGED <<proposals, op, authority, owner, source>>

\* The process dies.  A request that is out may still arrive.
Crash(w) ==
    /\ "crash" \in Env /\ work[w].pc # "IDLE"
    /\ work' = [work EXCEPT ![w] = Idle]
    /\ late' \in {late} \cup
          (IF work[w].pc = "WAITING" THEN {late \cup {Of(w)}} ELSE {})
    /\ UNCHANGED <<proposals, op, authority, owner, queue, scheduled, shifted,
                   ledger>>

\* reclaimExpiredLeases: the leases of dead runs and, with "lapse", of runs
\* whose heartbeats did not get through.
ReclaimLease(k) ==
    /\ job[k] \in Worker
    /\ \/ work[job[k]].pc = "IDLE" \/ work[job[k]].job # k
       \/ "lapse" \in Env
    /\ \E s \in {"READY"} \cup (IF "dead" \in Env THEN {"NONE"} ELSE {}) :
        Ends(k, s)
    /\ UNCHANGED <<proposals, op, authority, owner, source, work>>

\* expireProposals: every proposal past its window that nobody authorized.
ExpireProposals ==
    LET past == {p \in Proposal : /\ expired[p]
                                  /\ prop[p].status \in
                                       {"AWAITING_APPROVAL", "BLOCKED"}}
    IN  /\ past # {}
        /\ prop' = [p \in Proposal |->
              IF p \in past THEN [prop[p] EXCEPT !.status = "EXPIRED"]
              ELSE prop[p]]
        /\ UNCHANGED <<decision, expired, op, authority, owner, queue, source,
                       work>>

\* ensureReconciliationQueued: an unresolved operation that no job looks after.
EnsureReconciliationQueued(p) ==
    /\ p \in Unresolved
    /\ \A k \in {"RECOVER", "COMPETE", "RECONCILE"} : job[<<k, p>>] = "NONE"
    /\ job' = Enqueued(job, <<"RECONCILE", p>>)
    /\ UNCHANGED <<proposals, op, authority, owner, manual, source, work>>
-----------------------------------------------------------------------------
(***************************************************************************)
(* Commands of the owner, and the scenario controls of a demo.             *)
(***************************************************************************)

\* decideApproval
Decide(p, d) ==
    /\ prop[p].status = "AWAITING_APPROVAL" /\ ~expired[p]
    /\ active /\ ~moved
    /\ policy = prop[p].policy /\ Mode # "OBSERVE_ONLY"
    /\ decision[p] = "NONE"
    /\ decision' = [decision EXCEPT ![p] = d]
    /\ prop' = [prop EXCEPT ![p].status =
                    IF d = "APPROVE" THEN "AUTHORIZED" ELSE "REJECTED"]
    /\ job' = IF d = "APPROVE" THEN Enqueued(job, <<"RECOVER", p>>) ELSE job
    /\ UNCHANGED <<expired, op, authority, owner, manual, source, work>>

\* setWritesPaused(true)
PauseWrites ==
    /\ "pause" \in Env /\ ~paused
    /\ paused' = TRUE
    /\ UNCHANGED <<proposals, op, policy, active, retired, moved, cutoff, owner,
                   queue, source, work>>

\* setWritesPaused(false): authorized proposals are queued again, proposals
\* made while paused are derived again from a fresh read.
ResumeWrites ==
    LET authorized == {p \in Live : prop[p].status = "AUTHORIZED" /\ ~expired[p]}
        blocked == {p \in Live : prop[p].status = "BLOCKED" /\ prop[p].held}
    IN  /\ paused
        /\ paused' = FALSE
        /\ prop' = [p \in Proposal |->
              IF p \in blocked THEN [prop[p] EXCEPT !.status = "SUPERSEDED"]
              ELSE prop[p]]
        /\ job' = [k \in JobKey |->
              IF /\ job[k] = "NONE"
                 /\ \/ k[1] = "RECOVER" /\ k[2] \in authorized
                    \/ k[1] = "VERIFY" /\ blocked # {}
              THEN "READY" ELSE job[k]]
        /\ UNCHANGED <<decision, expired, op, policy, active, retired, moved,
                       cutoff, owner, manual, source, work>>

\* createPolicyVersion with another mode: live proposals are bound to an older
\* version now.
CreatePolicyVersion ==
    /\ "policy" \in Env /\ policy < MaxPolicy
    /\ PolicyMode[policy + 1] # Mode
    /\ policy' = policy + 1
    /\ prop' = Superseded
    /\ job' = IF Live = {} THEN job
              ELSE Enqueued(job, <<"VERIFY", NoProposal>>)
    /\ UNCHANGED <<decision, expired, op, paused, active, retired, moved, cutoff,
                   owner, manual, source, work>>

\* retireTask: what is queued is canceled, except reconciliation.
RetireTask ==
    /\ "retire" \in Env /\ ~retired
    /\ retired' = TRUE
    /\ prop' = Superseded
    /\ job' = [k \in JobKey |->
          IF job[k] = "READY" /\ k[1] # "RECONCILE" THEN "NONE" ELSE job[k]]
    /\ manual' = (manual /\ job[<<"VERIFY", NoProposal>>] # "READY")
    /\ UNCHANGED <<decision, expired, op, paused, policy, active, moved, cutoff,
                   owner, source, work>>

\* retireRequest, or a corrected request that supersedes this one.
WithdrawRequest ==
    /\ "withdraw" \in Env /\ active
    /\ active' = FALSE
    /\ prop' = Superseded
    /\ UNCHANGED <<decision, expired, op, paused, policy, retired, moved, cutoff,
                   owner, queue, source, work>>

\* configureLocalSandbox with another account: config_version goes up.
MoveConnection ==
    /\ "move" \in Env /\ ~moved
    /\ moved' = TRUE
    /\ UNCHANGED <<proposals, op, paused, policy, active, retired, cutoff, owner,
                   queue, source, work>>

\* requestRecheck: a queued job is moved forward and becomes a manual one.
RequestRecheck ==
    /\ "recheck" \in Env /\ ~retired
    /\ job[<<"VERIFY", NoProposal>>] \in {"NONE", "READY"}
    /\ job' = Enqueued(job, <<"VERIFY", NoProposal>>)
    /\ manual' = TRUE
    /\ UNCHANGED <<proposals, op, authority, owner, source, work>>

\* queueCompetingRecovery: a second RECOVER job for the latest proposal.
QueueCompetingRecovery(p) ==
    /\ "compete" \in Env
    /\ prop[p].status \in {"AUTHORIZED", "CONSUMED"}
    /\ \A q \in Proposal :
          prop[q].status \in {"AUTHORIZED", "CONSUMED"} => q <= p
    /\ job[<<"COMPETE", p>>] = "NONE"
    /\ job' = Enqueued(job, <<"COMPETE", p>>)
    /\ UNCHANGED <<proposals, op, authority, owner, manual, source, work>>

Command ==
    \/ \E p \in Proposal :
        \/ Decide(p, "APPROVE")
        \/ "refuse" \in Env /\ Decide(p, "REJECT")
        \/ QueueCompetingRecovery(p)
    \/ PauseWrites \/ ResumeWrites \/ CreatePolicyVersion \/ RetireTask
    \/ WithdrawRequest \/ MoveConnection \/ RequestRecheck
-----------------------------------------------------------------------------
(***************************************************************************)
(* Time, and others who change the subscription.                           *)
(***************************************************************************)
ProposalExpires(p) ==
    /\ "expiry" \in Env
    /\ prop[p].status # "NONE" /\ ~expired[p]
    /\ expired' = [expired EXCEPT ![p] = TRUE]
    /\ UNCHANGED <<prop, decision, op, authority, owner, queue, source, work>>

CutoffPasses ==
    /\ "cutoff" \in Env /\ ~cutoff
    /\ cutoff' = TRUE
    /\ UNCHANGED <<proposals, op, paused, policy, active, retired, moved, owner,
                   queue, source, work>>

\* A person or another system schedules the cancellation, or reverses it, or
\* the billing period changes: what the controls of a demo offer.  Its outages are
\* in Read, and a changed customer is left out: like a changed period, a mismatch
\* that is no candidate.
SourceChanges ==
    /\ \/ /\ "external" \in Env /\ ~scheduled
          /\ scheduled' = TRUE /\ UNCHANGED shifted
       \/ /\ "reverse" \in Env /\ scheduled
          /\ scheduled' = FALSE /\ UNCHANGED shifted
       \/ /\ "shift" \in Env /\ ~shifted
          /\ shifted' = TRUE /\ UNCHANGED scheduled
    /\ UNCHANGED <<proposals, op, authority, owner, queue, ledger, late, work>>

Progress(w) ==
    \/ \E k \in JobKey : Lease(w, k)
    \/ Begin(w) \/ Read(w) \/ Record(w)
    \/ Gate(w) \/ HandleBlockedGate(w) \/ Prepare(w) \/ CloseBeforeDispatch(w)
    \/ ReservationRefused(w) \/ Reserve(w) \/ Send(w)
    \/ SourceAnswers(w) \/ SourceDenies(w) \/ WriteTimesOut(w)
    \/ PersistResponse(w) \/ Lookup(w) \/ Resolve(w) \/ Retry(w) \/ Wait(w)
    \/ EndRun(w)

Maintenance ==
    \/ \E k \in JobKey : ReclaimLease(k)
    \/ ExpireProposals
    \/ \E p \in Proposal : EnsureReconciliationQueued(p)

Steady ==
    \/ \E w \in Worker : Progress(w)
    \/ Maintenance
    \/ Command
    \/ \E p \in Proposal : LateDelivery(p) \/ ProposalExpires(p)
    \/ CutoffPasses
    \/ SourceChanges

Next == Steady \/ \E w \in Worker : Crash(w)

\* Workers poll, every step of a handler ends (each call has a timeout), and
\* maintenance runs on a schedule.  Nothing is promised of owners, of time or of
\* the source.
Fairness ==
    /\ \A w \in Worker : WF_vars(Progress(w))
    /\ \A k \in JobKey : WF_vars(ReclaimLease(k) /\ "lapse" \notin Env)
    /\ \A p \in Proposal : WF_vars(EnsureReconciliationQueued(p))

Spec == Init /\ [][Next]_vars
FairSpec == Spec /\ Fairness
-----------------------------------------------------------------------------
(***************************************************************************)
(* Properties.                                                             *)
(***************************************************************************)

\* At most one unresolved operation for the subscription, however many jobs and
\* workers prepare one (RECOVERY-CONTRACT.md, "Durable execution" 3).
OneUnresolvedOperation ==
    \A p, q \in Proposal :
        /\ op[p].state # "NONE" /\ ~op[p].resolved
        /\ op[q].state # "NONE" /\ ~op[q].resolved
        => p = q

\* At most one proposal of the task is live, whoever creates, authorizes,
\* supersedes or releases one (RECOVERY-CONTRACT.md, "Proposal binding").
OneLiveProposal == \A p, q \in Live : p = q

\* The request for p is out, or will be sent without another reservation.
InFlight(p) ==
    \/ p \in late
    \/ \E w \in Worker : Of(w) = p /\ work[w].pc \in {"SEND", "WAITING"}

\* An operation closed as BLOCKED, "never dispatched: safe to resolve from the
\* zero-dispatch record", is not at the source and nothing is on its way, though
\* another worker may have held the same prepared operation.
BlockedNeverSent ==
    \A p \in Proposal :
        op[p].state = "BLOCKED" => ledger[p] = "NONE" /\ ~InFlight(p)

\* What reached the source, or may, was counted first, was prepared from its
\* proposal, and that proposal was approved by a person or by policy.
OnlyAuthorizedWrites ==
    \A p \in Proposal :
        ledger[p] # "NONE" \/ InFlight(p) =>
            /\ op[p].count > 0
            /\ decision[p] \in {"APPROVE", "AUTO_POLICY"}
            /\ prop[p].status = "CONSUMED"

\* A write reported as failed was not applied and never will be: the refusal is
\* in the source's ledger, so a request still on its way replays it.
FailedNeverApplied ==
    \A p \in Proposal :
        op[p].state = "FAILED_CONFIRMED" => ledger[p] # "APPLIED"

\* A resolved operation is never dispatched again, by any job or retry of it.
ResolvedNeverRedispatched ==
    [][\A p \in Proposal : op[p].resolved => op'[p].count = op[p].count]_vars

\* No write of p reaches the source, and none is sent, by this step.
Quiet(p) == ledger'[p] = ledger[p] /\ ~InFlight(p)'

\* Once authority is withdrawn and nothing is in flight, nothing is sent and
\* nothing reaches the source until authority is back: paused writes, an
\* inactive request, a moved connection, another policy.
WithdrawnAuthorityStopsWrites ==
    [][\A p \in Proposal :
         /\ paused \/ ~active \/ moved \/ policy # prop[p].policy
         /\ ~InFlight(p)
         => Quiet(p)]_vars

\* A dispatch does not stay unresolved in silence: it is resolved, or a person
\* is told.
DispatchIsSettled ==
    \A p \in Proposal :
        op[p].count > 0 ~> op[p].resolved \/ op[p].escalated

\* An authorization is used or ended, it does not stay open.
AuthorizationIsUsed ==
    \A p \in Proposal :
        prop[p].status = "AUTHORIZED" ~> prop[p].status # "AUTHORIZED"
=============================================================================
