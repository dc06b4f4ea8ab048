--------------------------- MODULE RecoveryProofs ---------------------------
(***************************************************************************)
(* The safety of the recovery of a task for any number of workers,         *)
(* proposals, policies and dispatches, and for every environment; that it  *)
(* implements the write ledger; and that it uses its jobs as a keyed queue *)
(* allows.                                                                 *)
(***************************************************************************)
EXTENDS RecoveryRefinement, TLAPS

\* Where a handler has an operation in hand.
HasOperation(w) ==
    \/ work[w].pc \in {"CLOSE", "RESERVE", "SEND", "WAITING", "PERSIST",
                       "LOOKUP", "SETTLE"}
    \/ work[w].pc \in {"BEGIN", "READ", "RECORD"}
          /\ work[w].flow \in {"RESUME", "CONFIRM"}

Responses == {"ACCEPTED", "REJECTED", "UNCERTAIN"}

\* A run knows what it works on: the flow fits the job, an operation in hand
\* exists, what is sent was counted, and what is persisted is a response.
RunsOK ==
    \A w \in Worker :
        /\ work[w].flow # "VERIFY" => Of(w) \in Proposal
        /\ work[w].pc \in {"GATE", "BLOCKED", "PREPARE"} =>
              work[w].flow = "PRECHECK"
        /\ HasOperation(w) =>
              work[w].flow # "VERIFY" /\ op[Of(w)].state # "NONE"
        /\ work[w].pc \in {"SEND", "WAITING", "PERSIST"} => op[Of(w)].count > 0
        /\ work[w].pc = "PERSIST" => work[w].note \in Responses

\* An operation consumed an authorized proposal; what is not there was neither
\* sent nor resolved; a blocked one is resolved without a dispatch; the source
\* and the network only know what was counted.
OperationsOK ==
    \A p \in Proposal :
        /\ op[p].state = "NONE" => op[p].count = 0 /\ ~op[p].resolved
        /\ op[p].state # "NONE" =>
              /\ decision[p] \in {"APPROVE", "AUTO_POLICY"}
              /\ prop[p].status = "CONSUMED"
        /\ op[p].state = "BLOCKED" => op[p].count = 0 /\ op[p].resolved
        /\ ledger[p] # "NONE" \/ p \in late => op[p].count > 0

IInv == TypeOK /\ RunsOK /\ OperationsOK /\ OneUnresolvedOperation /\ OneLiveProposal
-----------------------------------------------------------------------------
\* The gate answers with one of its decisions.
LEMMA GateNotes ==
    ASSUME NEW c
    PROVE  G!Gate(c) \in Notes \cup {"EXECUTION_ALLOWED"}
BY DEF G!Gate, G!ContextDecision, G!BindingDecision, G!StageDecision, Notes

LEMMA InitIInv == Init => IInv
<1> SUFFICES ASSUME Init PROVE IInv
  OBVIOUS
<1> USE RecoveryAssumption DEF Init
<1>1. \A w \in Worker : work[w] = Idle
  OBVIOUS
<1>2. Idle \in Run
  BY DEF Idle, Run, Pcs, JobKey, NoCtx, Context, NoOp, Operation, Reads, Evals,
         Notes, NoProposal, Flows
<1>3. TypeOK
  <2>1. NoOp \in Operation
    BY DEF NoOp, Operation
  <2>2. work \in [Worker -> Run]
    BY <1>2
  <2>3. op \in [Proposal -> Operation]
    BY <2>1
  <2>4. prop \in [Proposal -> [status : ProposalStatuses, policy : 1..MaxPolicy,
                               held : BOOLEAN]]
    BY DEF ProposalStatuses
  <2>5. job \in [JobKey -> {"NONE", "READY"} \cup Worker]
    OBVIOUS
  <2> HIDE DEF Init
  <2>6. /\ decision \in [Proposal -> {"NONE", "APPROVE", "REJECT", "AUTO_POLICY"}]
        /\ expired \in [Proposal -> BOOLEAN]
        /\ ledger \in [Proposal -> {"NONE", "APPLIED", "REFUSED"}]
        /\ late \subseteq Proposal
        /\ policy \in 1..MaxPolicy /\ owner \in Worker \cup {NoWorker}
    BY DEF Init
  <2>7. /\ paused \in BOOLEAN /\ active \in BOOLEAN /\ retired \in BOOLEAN
        /\ moved \in BOOLEAN /\ cutoff \in BOOLEAN /\ manual \in BOOLEAN
        /\ scheduled \in BOOLEAN /\ shifted \in BOOLEAN
    BY DEF Init
  <2> QED
    BY <2>2, <2>3, <2>4, <2>5, <2>6, <2>7 DEF TypeOK
<1>4. RunsOK
  BY <1>1 DEF RunsOK, HasOperation, Idle
<1>5. OperationsOK
  BY DEF OperationsOK, NoOp
<1>6. OneUnresolvedOperation /\ OneLiveProposal
  BY DEF OneUnresolvedOperation, OneLiveProposal, Live, LiveStatuses, NoOp
<1> QED
  BY <1>3, <1>4, <1>5, <1>6 DEF IInv

LEMMA LeaseIInv ==
    ASSUME IInv, NEW w \in Worker, NEW k \in JobKey, Lease(w, k)
    PROVE  IInv'
<1> USE RecoveryAssumption
<1>1. PICK pc \in Pcs, flow \in Flows :
         /\ Start(w, k, pc, flow)
         /\ \/ flow = "VERIFY" /\ pc \in {"DONE", "BEGIN"}
            \/ flow = "PRECHECK" /\ pc = "BEGIN" /\ k[2] \in Proposal
            \/ /\ flow \in {"RESUME", "CONFIRM"} /\ pc = "BEGIN"
               /\ k[2] \in Proposal /\ op[k[2]].state # "NONE"
  BY DEF Lease, StartVerification, StartRecovery, StartOperation, JobKey, Pcs,
         Flows
<1>2. TypeOK'
  <2>1. NoOp \in Operation /\ (k[2] # NoProposal => op[k[2]] \in Operation)
    BY DEF IInv, TypeOK, NoOp, Operation, JobKey
  <2>2. PICK run \in Run : work' = [work EXCEPT ![w] = run]
    BY <1>1, <2>1, ZenonT(40) DEF IInv, TypeOK, Start, Run, Context, Reads, Evals, Notes
  <2> QED
    BY <2>2 DEF IInv, Lease, TypeOK, authority, source, proposals
<1>3. RunsOK'
  BY <1>1 DEF IInv, Lease, Start, TypeOK, RunsOK, HasOperation, Of
<1>4. OperationsOK' /\ OneUnresolvedOperation' /\ OneLiveProposal'
  BY DEF IInv, Lease, OperationsOK, OneUnresolvedOperation, OneLiveProposal, Live,
         source, proposals
<1> QED
  BY <1>2, <1>3, <1>4 DEF IInv

\* What only concerns operations and proposals is not disturbed by a step that
\* leaves them, the source's ledger and the network alone.
LEMMA RecordsUnchanged ==
    ASSUME IInv, UNCHANGED <<proposals, op, ledger, late>>
    PROVE  OperationsOK' /\ OneUnresolvedOperation' /\ OneLiveProposal'
BY DEF IInv, OperationsOK, OneUnresolvedOperation, OneLiveProposal, Live, proposals

\* Runs go on as runs.
LEMMA RunUpdates ==
    ASSUME NEW r \in Run, NEW pc \in Pcs
    PROVE  /\ [r EXCEPT !.pc = pc] \in Run
           /\ \A x \in Reads : [r EXCEPT !.pc = pc, !.read = x] \in Run
           /\ \A n \in Notes : [r EXCEPT !.pc = pc, !.note = n] \in Run
           /\ \A e \in Evals : [r EXCEPT !.pc = pc, !.eval = e] \in Run
           /\ \A o \in Operation : [r EXCEPT !.pc = pc, !.seen = o] \in Run
BY DEF Run

\* Begin, Read and Gate: the run alone goes on.
LEMMA BeginIInv ==
    ASSUME IInv, NEW w \in Worker, Begin(w)
    PROVE  IInv'
<1>1. TypeOK'
  BY DEF IInv, TypeOK, Begin, Goto, Run, Pcs, proposals, authority, queue, source
<1>2. RunsOK'
  BY DEF IInv, TypeOK, Begin, Goto, RunsOK, HasOperation, Of
<1> QED
  BY <1>1, <1>2, RecordsUnchanged DEF IInv, Begin, source

LEMMA ReadIInv ==
    ASSUME IInv, NEW w \in Worker, Read(w)
    PROVE  IInv'
<1>1. PICK r \in Reads :
         work' = [work EXCEPT ![w] = [@ EXCEPT !.pc = "RECORD", !.read = r]]
  BY DEF Read, Shown, Reads
<1>2. TypeOK'
  <2>1. [work[w] EXCEPT !.pc = "RECORD", !.read = r] \in Run
    BY RunUpdates DEF IInv, TypeOK, Pcs
  <2> QED
    BY <1>1, <2>1 DEF IInv, TypeOK, Read, proposals, authority, queue, source
<1>3. RunsOK'
  BY <1>1 DEF IInv, TypeOK, Read, RunsOK, HasOperation, Of
<1> QED
  BY <1>2, <1>3, RecordsUnchanged DEF IInv, Read, source

LEMMA GateIInv ==
    ASSUME IInv, NEW w \in Worker, Gate(w)
    PROVE  IInv'
<1>1. PICK pc \in {"PREPARE", "BLOCKED"}, d \in Notes :
         work' = [work EXCEPT ![w] = [@ EXCEPT !.pc = pc, !.note = d]]
  <2>1. PICK old : LET d == G!Gate(DispatchContext(w, old)) IN
           work' = [work EXCEPT ![w] =
              [@ EXCEPT !.pc = IF d = "EXECUTION_ALLOWED" THEN "PREPARE"
                               ELSE "BLOCKED",
                        !.note = IF d = "EXECUTION_ALLOWED" THEN "NONE" ELSE d]]
    BY DEF Gate
  <2>2. G!Gate(DispatchContext(w, old)) \in Notes \cup {"EXECUTION_ALLOWED"}
    BY GateNotes
  <2> QED
    BY <2>1, <2>2 DEF Notes
<1>2. TypeOK'
  <2>1. pc \in Pcs
    BY DEF Pcs
  <2>2. [work[w] EXCEPT !.pc = pc, !.note = d] \in Run
    BY <2>1, RunUpdates DEF IInv, TypeOK
  <2> QED
    BY <1>1, <2>2 DEF IInv, TypeOK, Gate, proposals, authority, queue, source
<1>3. RunsOK'
  BY <1>1 DEF IInv, TypeOK, Gate, RunsOK, HasOperation, Of
<1> QED
  BY <1>2, <1>3, RecordsUnchanged DEF IInv, Gate, source

\* Where a recorded evaluation leads, the run's operation is still the same.
LEMMA RecordedRuns ==
    ASSUME TypeOK, RunsOK, NEW w \in Worker, NEW e \in Evals,
           work[w].pc = "RECORD", Recorded(w, e), UNCHANGED op
    PROVE  work' \in [Worker -> Run] /\ RunsOK'
<1>1. AfterRecord(w, e) \in Pcs
  BY DEF AfterRecord, Pcs
<1>2. work' \in [Worker -> Run]
  BY <1>1, ZenonT(40) DEF TypeOK, Recorded, Run
<1>3. work[w].flow \in Flows
  BY DEF TypeOK, Run
<1>4. RunsOK'
  BY <1>1, <1>3 DEF TypeOK, RunsOK, Recorded, AfterRecord, HasOperation, Of, Flows
<1> QED
  BY <1>2, <1>4

JobType == [JobKey -> {"NONE", "READY"} \cup Worker]
PropType == [Proposal -> [status : ProposalStatuses, policy : 1..MaxPolicy,
                          held : BOOLEAN]]

LEMMA EnqueuedType ==
    ASSUME NEW j \in JobType, NEW k \in JobKey
    PROVE  Enqueued(j, k) \in JobType
BY DEF Enqueued, JobType

LEMMA Keys ==
    /\ <<"VERIFY", NoProposal>> \in JobKey /\ <<"MONITOR", NoProposal>> \in JobKey
    /\ \A p \in Proposal : /\ <<"RECOVER", p>> \in JobKey
                           /\ <<"COMPETE", p>> \in JobKey
                           /\ <<"RECONCILE", p>> \in JobKey
BY DEF JobKey

\* Superseding ends the live proposals and leaves the others alone.
LEMMA SupersededFacts ==
    ASSUME TypeOK
    PROVE  /\ Superseded \in PropType
           /\ \A p \in Live : Superseded[p].status = "SUPERSEDED"
           /\ \A p \in Proposal \ Live : Superseded[p] = prop[p]
BY DEF TypeOK, Superseded, PropType, Live, ProposalStatuses, LiveStatuses

\* No proposal comes to life, none loses its consumption, decisions stand.
LEMMA LiveShrinks ==
    ASSUME IInv, UNCHANGED <<decision, op, ledger, late>>,
           \A p \in Proposal :
              /\ prop'[p].status \in LiveStatuses => prop[p].status \in LiveStatuses
              /\ prop[p].status = "CONSUMED" => prop'[p].status = "CONSUMED"
    PROVE  OperationsOK' /\ OneUnresolvedOperation' /\ OneLiveProposal'
BY DEF IInv, OperationsOK, OneUnresolvedOperation, OneLiveProposal, Live

LEMMA GotoType ==
    ASSUME TypeOK, NEW w \in Worker, NEW pc \in Pcs, Goto(w, pc)
    PROVE  work' \in [Worker -> Run]
BY RunUpdates DEF TypeOK, Goto

LEMMA RecordFencedIInv ==
    ASSUME IInv, NEW w \in Worker, RecordFenced(w)
    PROVE  IInv'
<1>1. work' \in [Worker -> Run] /\ RunsOK'
  BY RecordedRuns DEF IInv, RecordFenced, Evals
<1>2. TypeOK'
  BY <1>1 DEF IInv, TypeOK, RecordFenced, proposals, authority, queue, source
<1> QED
  BY <1>1, <1>2, RecordsUnchanged DEF IInv, RecordFenced, source

LEMMA RecordEvidenceIInv ==
    ASSUME IInv, NEW w \in Worker, RecordEvidence(w)
    PROVE  IInv'
<1>1. PICK e \in Evaluations(w) :
         /\ prop' = Superseded \/ prop' = prop
         /\ job' \in FollowUps(w, e)
         /\ Recorded(w, e)
  BY DEF RecordEvidence
<1>2. work[w].read \in Reads /\ e \in Evals
  BY DEF IInv, TypeOK, Run, Evaluations, Evals
<1>3. work' \in [Worker -> Run] /\ RunsOK'
  BY <1>1, <1>2, RecordedRuns DEF IInv, RecordEvidence
<1>4. job' \in JobType
  BY <1>1, EnqueuedType, Keys DEF IInv, TypeOK, FollowUps, JobType
<1>5. prop' \in PropType
  BY <1>1, SupersededFacts DEF IInv, TypeOK, PropType
<1>6. TypeOK'
  BY <1>3, <1>4, <1>5
  DEF IInv, TypeOK, RecordEvidence, JobType, PropType, authority, source
<1>7. OperationsOK' /\ OneUnresolvedOperation' /\ OneLiveProposal'
  BY <1>1, SupersededFacts, LiveShrinks
  DEF IInv, RecordEvidence, Live, LiveStatuses, source
<1> QED
  BY <1>3, <1>6, <1>7 DEF IInv

LEMMA HandleBlockedGateIInv ==
    ASSUME IInv, NEW w \in Worker, HandleBlockedGate(w)
    PROVE  IInv'
<1>1. Of(w) \in Proposal
  BY DEF IInv, RunsOK, HandleBlockedGate
<1>2. PICK s \in {"EXPIRED", "SUPERSEDED", "BLOCKED"} :
         \/ prop' = prop
         \/ /\ prop[Of(w)].status \in {"AUTHORIZED", "AWAITING_APPROVAL"}
            /\ prop' = [prop EXCEPT ![Of(w)].status = s]
  BY DEF HandleBlockedGate
<1>3. job' \in JobType
  BY EnqueuedType, Keys DEF IInv, TypeOK, HandleBlockedGate, JobType
<1>4. prop' \in PropType
  BY <1>1, <1>2 DEF IInv, TypeOK, PropType, ProposalStatuses, LiveStatuses
<1>5. TypeOK'
  <2>1. work' \in [Worker -> Run]
    BY GotoType DEF IInv, HandleBlockedGate, Pcs
  <2> QED
    BY <1>3, <1>4, <2>1
    DEF IInv, TypeOK, HandleBlockedGate, JobType, PropType, authority, source
<1>6. RunsOK'
  BY DEF IInv, TypeOK, RunsOK, HandleBlockedGate, Goto, HasOperation, Of
<1>7. OperationsOK' /\ OneUnresolvedOperation' /\ OneLiveProposal'
  BY <1>1, <1>2, LiveShrinks
  DEF IInv, TypeOK, HandleBlockedGate, LiveStatuses, source
<1> QED
  BY <1>5, <1>6, <1>7 DEF IInv

\* The only step that brings a proposal to life ends the others.
LEMMA InsertIInv ==
    ASSUME IInv, NEW w \in Worker, NEW p \in Unused,
           NEW s \in {"AWAITING_APPROVAL", "AUTHORIZED", "BLOCKED"},
           Insert(w, s, p), UNCHANGED <<op, ledger, late>>
    PROVE  /\ prop' \in PropType /\ job' \in JobType
           /\ decision' \in [Proposal -> {"NONE", "APPROVE", "REJECT",
                                         "AUTO_POLICY"}]
           /\ OperationsOK' /\ OneUnresolvedOperation' /\ OneLiveProposal'
<1>1. p \in Proposal /\ prop[p].status = "NONE"
  BY DEF Unused
<1>2. job' \in JobType
  <2>1. job \in JobType /\ <<"RECOVER", p>> \in JobKey
    BY <1>1, Keys DEF IInv, TypeOK, JobType
  <2>2. Enqueued(job, <<"RECOVER", p>>) \in JobType
    BY <2>1, EnqueuedType
  <2> QED
    BY <2>1, <2>2 DEF Insert
<1>3. decision' \in [Proposal -> {"NONE", "APPROVE", "REJECT", "AUTO_POLICY"}]
  BY <1>1 DEF IInv, TypeOK, Insert
<1>4. [status |-> s, held |-> s = "BLOCKED", policy |-> work[w].ctx.policy]
         \in [status : ProposalStatuses, policy : 1..MaxPolicy, held : BOOLEAN]
  BY DEF IInv, TypeOK, Run, Context, ProposalStatuses, LiveStatuses
<1>5. prop' \in PropType
  BY <1>1, <1>4, SupersededFacts DEF IInv, Insert, PropType
<1>6. \A q \in Proposal \ {p} :
         /\ prop'[q] = Superseded[q]
         /\ decision'[q] = decision[q]
  BY <1>1, <1>5, SupersededFacts DEF IInv, TypeOK, Insert, PropType
<1>7. op[p].state = "NONE"
  BY <1>1 DEF IInv, OperationsOK
<1>8. OperationsOK'
  BY <1>1, <1>6, <1>7, SupersededFacts DEF IInv, OperationsOK, Live, LiveStatuses
<1>9. OneLiveProposal'
  BY <1>6, SupersededFacts DEF IInv, OneLiveProposal, Live, LiveStatuses
<1> QED
  BY <1>2, <1>3, <1>5, <1>8, <1>9 DEF IInv, OneUnresolvedOperation

LEMMA RecordCandidateIInv ==
    ASSUME IInv, NEW w \in Worker, RecordCandidate(w)
    PROVE  IInv'
<1>1. UNCHANGED <<expired, op, authority, owner, manual, source>>
  BY DEF RecordCandidate
<1>2. PICK e \in Evaluations(w) : Recorded(w, e)
  BY DEF RecordCandidate
<1>3. work[w].read \in Reads /\ e \in Evals
  BY DEF IInv, TypeOK, Run, Evaluations, Evals
<1>4. work' \in [Worker -> Run] /\ RunsOK'
  BY <1>1, <1>2, <1>3, RecordedRuns DEF IInv, RecordCandidate
<1>5. \/ UNCHANGED <<prop, decision, job>>
      \/ prop' = Superseded /\ UNCHANGED <<decision, job>>
      \/ \E s \in {"AWAITING_APPROVAL", "AUTHORIZED", "BLOCKED"}, p \in Unused :
            Insert(w, s, p)
  BY DEF RecordCandidate, Create
<1>6. /\ prop' \in PropType /\ job' \in JobType
      /\ decision' \in [Proposal -> {"NONE", "APPROVE", "REJECT", "AUTO_POLICY"}]
      /\ OperationsOK' /\ OneUnresolvedOperation' /\ OneLiveProposal'
  <2>1. CASE UNCHANGED <<prop, decision, job>>
    BY <1>1, <2>1, RecordsUnchanged
    DEF IInv, TypeOK, PropType, JobType, proposals, source
  <2>2. CASE prop' = Superseded /\ UNCHANGED <<decision, job>>
    BY <1>1, <2>2, SupersededFacts, LiveShrinks
    DEF IInv, TypeOK, JobType, Live, LiveStatuses, source
  <2>3. CASE \E s \in {"AWAITING_APPROVAL", "AUTHORIZED", "BLOCKED"}, p \in Unused :
                Insert(w, s, p)
    <3>1. PICK s \in {"AWAITING_APPROVAL", "AUTHORIZED", "BLOCKED"}, p \in Unused :
             Insert(w, s, p)
      BY <2>3
    <3> QED
      BY <1>1, <3>1, InsertIInv DEF source
  <2> QED
    BY <1>5, <2>1, <2>2, <2>3
<1>7. TypeOK'
  BY <1>1, <1>4, <1>6 DEF IInv, TypeOK, PropType, JobType, authority, source
<1> QED
  BY <1>4, <1>6, <1>7 DEF IInv

OpType == [Proposal -> Operation]

\* Operations do not disappear, and their dispatches are not forgotten.
OpsGrow ==
    /\ \A p \in Proposal : op[p].state # "NONE" => op'[p].state # "NONE"
    /\ \A p \in Proposal : op[p].count > 0 => op'[p].count > 0

\* An existing operation that goes on without getting unresolved.
LEMMA OperationAdvances ==
    ASSUME IInv, NEW p \in Proposal, NEW o \in Operation,
           op' = [op EXCEPT ![p] = o], op[p].state # "NONE", o.state # "NONE",
           op[p].count <= o.count, op[p].resolved => o.resolved,
           o.state = "BLOCKED" => o.count = 0 /\ o.resolved,
           UNCHANGED <<prop, decision, ledger, late>>
    PROVE  /\ op' \in OpType
           /\ OpsGrow
           /\ OperationsOK' /\ OneUnresolvedOperation' /\ OneLiveProposal'
<1>1. op' \in OpType
  BY DEF IInv, TypeOK, OpType
<1>2. \A q \in Proposal : op'[q] = IF q = p THEN o ELSE op[q]
  BY DEF IInv, TypeOK
<1>3. op[p].count \in Nat /\ o.count \in Nat
  BY RecoveryAssumption DEF IInv, TypeOK, Operation
<1>4. OpsGrow
  BY <1>2, <1>3 DEF OpsGrow
<1>5. OperationsOK'
  BY <1>2, <1>3 DEF IInv, OperationsOK
<1>6. OneUnresolvedOperation'
  BY <1>2 DEF IInv, OneUnresolvedOperation
<1> QED
  BY <1>1, <1>4, <1>5, <1>6 DEF IInv, OneLiveProposal, Live

\* A run with an operation in hand goes on with it, or ends.
LEMMA RunGoesOn ==
    ASSUME IInv, NEW w \in Worker, NEW r \in Run, HasOperation(w), OpsGrow,
           work' = [work EXCEPT ![w] = r], r.job = work[w].job,
           r.flow # "VERIFY", r.pc \notin {"GATE", "BLOCKED", "PREPARE"},
           r.pc \in {"SEND", "WAITING", "PERSIST"} => op'[Of(w)].count > 0,
           r.pc = "PERSIST" => r.note \in Responses
    PROVE  work' \in [Worker -> Run] /\ RunsOK'
<1>1. work' \in [Worker -> Run]
  BY DEF IInv, TypeOK
<1>2. work'[w] = r /\ \A v \in Worker \ {w} : work'[v] = work[v]
  BY DEF IInv, TypeOK
<1>3. Of(w) \in Proposal /\ op'[Of(w)].state # "NONE"
  <2>1. Of(w) \in Proposal /\ op[Of(w)].state # "NONE"
    BY DEF IInv, RunsOK
  <2> QED
    BY <2>1 DEF OpsGrow
<1>4. ASSUME NEW v \in Worker
      PROVE  /\ work'[v].flow # "VERIFY" => Of(v)' \in Proposal
             /\ work'[v].pc \in {"GATE", "BLOCKED", "PREPARE"} =>
                  work'[v].flow = "PRECHECK"
             /\ HasOperation(v)' =>
                  work'[v].flow # "VERIFY" /\ op'[Of(v)'].state # "NONE"
             /\ work'[v].pc \in {"SEND", "WAITING", "PERSIST"} =>
                  op'[Of(v)'].count > 0
             /\ work'[v].pc = "PERSIST" => work'[v].note \in Responses
  <2>1. CASE v = w
    BY <1>2, <1>3, <2>1 DEF Of, Proposal
  <2>2. CASE v # w
    <3>1. work'[v] = work[v]
      BY <1>2, <2>2
    <3>2. Of(v)' = Of(v) /\ HasOperation(v)' = HasOperation(v)
      BY <3>1 DEF Of, HasOperation
    <3>3. work[v].pc \in {"SEND", "WAITING", "PERSIST"} => HasOperation(v)
      BY DEF HasOperation
    <3> QED
      BY <3>1, <3>2, <3>3 DEF IInv, RunsOK, OpsGrow
  <2> QED
    BY <2>1, <2>2
<1>5. RunsOK'
  BY <1>4 DEF RunsOK
<1> QED
  BY <1>1, <1>5

LEMMA PrepareIInv ==
    ASSUME IInv, NEW w \in Worker, Prepare(w)
    PROVE  IInv'
<1> DEFINE p == Of(w)
           o == [NoOp EXCEPT !.state = "PREPARED"]
<1>1. p \in Proposal
  BY DEF IInv, RunsOK, Prepare
<1>2. o \in Operation /\ o.state = "PREPARED" /\ o.count = 0 /\ ~o.resolved
  <2>1. NoOp \in Operation
    BY RecoveryAssumption DEF NoOp, Operation
  <2>2. o \in Operation
    BY <2>1 DEF Operation, OpenStates
  <2> QED
    BY <2>1, <2>2 DEF NoOp, Operation
<1>3. CASE ~Preparable(p)
  <2>1. Goto(w, "DONE") /\ UNCHANGED <<op, prop>>
    BY <1>3 DEF Prepare
  <2>2. work' \in [Worker -> Run]
    BY <2>1, GotoType DEF IInv, Pcs
  <2>3. TypeOK'
    BY <2>1, <2>2 DEF IInv, TypeOK, Prepare, authority, queue, source
  <2>4. RunsOK'
    BY <2>1 DEF IInv, TypeOK, RunsOK, Goto, HasOperation, Of
  <2> QED
    BY <2>1, <2>3, <2>4, RecordsUnchanged DEF IInv, Prepare, source, proposals
<1>4. CASE Preparable(p)
  <2> HIDE DEF p, o
  <2>1. /\ op' = [op EXCEPT ![p] = o]
        /\ prop' = [prop EXCEPT ![p].status = "CONSUMED"]
        /\ work' = [work EXCEPT ![w] = [@ EXCEPT !.pc = "RESERVE", !.seen = o]]
        /\ UNCHANGED <<decision, expired, authority, owner, queue, source>>
    BY <1>4 DEF Prepare, p, o
  <2>2. [work[w] EXCEPT !.pc = "RESERVE", !.seen = o] \in Run
    BY <1>2, RunUpdates DEF IInv, TypeOK, Pcs
  <2>3. work' \in [Worker -> Run] /\ op' \in OpType /\ prop' \in PropType
    BY <1>1, <1>2, <2>1, <2>2
    DEF IInv, TypeOK, OpType, PropType, ProposalStatuses
  <2>4. TypeOK'
    BY <2>1, <2>3 DEF IInv, TypeOK, OpType, PropType, authority, queue, source
  <2>5. /\ op[p].state = "NONE" /\ prop[p].status = "AUTHORIZED"
        /\ decision[p] \in {"APPROVE", "AUTO_POLICY"} /\ Unresolved = {}
    BY <1>4 DEF Preparable
  <2>6. \A q \in Proposal : op'[q] = IF q = p THEN o ELSE op[q]
    BY <1>1, <2>1 DEF IInv, TypeOK
  <2>7. RunsOK'
    <3>1. \A v \in Worker \ {w} : work'[v] = work[v]
      BY <2>1 DEF IInv, TypeOK
    <3>2. /\ work'[w].pc = "RESERVE" /\ work'[w].job = work[w].job
          /\ work'[w].flow = "PRECHECK"
      BY <2>1 DEF IInv, TypeOK, RunsOK, Prepare, Run
    <3>3. \A v \in Worker \ {w} :
             work[v].pc \in {"SEND", "WAITING", "PERSIST"} =>
                HasOperation(v) /\ Of(v) # p
      BY <1>1, <2>5 DEF IInv, RunsOK, OperationsOK, HasOperation
    <3> QED
      BY <1>1, <1>2, <2>6, <3>1, <3>2, <3>3
      DEF IInv, RunsOK, HasOperation, Of, p
  <2>8. OperationsOK'
    BY <1>1, <1>2, <2>1, <2>3, <2>5, <2>6 DEF IInv, TypeOK, OperationsOK, source
  <2>9. OneUnresolvedOperation'
    BY <2>5, <2>6 DEF OneUnresolvedOperation, Unresolved
  <2>10. OneLiveProposal'
    BY <1>1, <2>1 DEF IInv, TypeOK, OneLiveProposal, Live, LiveStatuses
  <2> QED
    BY <2>4, <2>7, <2>8, <2>9, <2>10 DEF IInv
<1> QED
  BY <1>3, <1>4

\* What a step that advances the operation in hand has to show.
LEMMA OperationStep ==
    ASSUME IInv, NEW w \in Worker, HasOperation(w),
           NEW o \in Operation, op' = [op EXCEPT ![Of(w)] = o],
           o.state # "NONE", op[Of(w)].count <= o.count,
           op[Of(w)].resolved => o.resolved,
           o.state = "BLOCKED" => o.count = 0 /\ o.resolved,
           NEW r \in Run, work' = [work EXCEPT ![w] = r], r.job = work[w].job,
           r.flow # "VERIFY", r.pc \notin {"GATE", "BLOCKED", "PREPARE"},
           r.pc \in {"SEND", "WAITING", "PERSIST"} => o.count > 0,
           r.pc = "PERSIST" => r.note \in Responses,
           job' \in JobType, UNCHANGED <<proposals, authority, owner, manual, source>>
    PROVE  IInv'
<1>1. Of(w) \in Proposal /\ op[Of(w)].state # "NONE"
  BY DEF IInv, RunsOK
<1>2. op' \in OpType /\ OpsGrow
      /\ OperationsOK' /\ OneUnresolvedOperation' /\ OneLiveProposal'
  BY <1>1, OperationAdvances DEF proposals, source
<1>3. op'[Of(w)] = o
  BY <1>1 DEF IInv, TypeOK
<1>4. work' \in [Worker -> Run] /\ RunsOK'
  BY <1>2, <1>3, RunGoesOn
<1>5. TypeOK'
  BY <1>2, <1>4
  DEF IInv, TypeOK, OpType, JobType, proposals, authority, source
<1> QED
  BY <1>2, <1>4, <1>5 DEF IInv

\* The same when the operation is left as it is.
LEMMA RunStep ==
    ASSUME IInv, NEW w \in Worker, HasOperation(w), UNCHANGED op,
           NEW r \in Run, work' = [work EXCEPT ![w] = r], r.job = work[w].job,
           r.flow # "VERIFY", r.pc \notin {"GATE", "BLOCKED", "PREPARE"},
           r.pc \in {"SEND", "WAITING", "PERSIST"} => op[Of(w)].count > 0,
           r.pc = "PERSIST" => r.note \in Responses,
           job' \in JobType, UNCHANGED <<proposals, authority, owner, manual, source>>
    PROVE  IInv'
<1>1. OpsGrow
  BY DEF OpsGrow
<1>2. work' \in [Worker -> Run] /\ RunsOK'
  BY <1>1, RunGoesOn
<1>3. TypeOK'
  BY <1>2 DEF IInv, TypeOK, JobType, proposals, authority, source
<1> QED
  BY <1>2, <1>3, RecordsUnchanged DEF IInv, source

\* A run in hand of which only the place, or also the answer, changes.
LEMMA RunInHand ==
    ASSUME IInv, NEW w \in Worker, HasOperation(w), NEW pc \in Pcs
    PROVE  /\ work[w] \in Run /\ job \in JobType /\ work[w].flow # "VERIFY"
           /\ Of(w) \in Proposal /\ <<"RECONCILE", Of(w)>> \in JobKey
           /\ Enqueued(job, <<"RECONCILE", Of(w)>>) \in JobType
           /\ op[Of(w)] \in Operation /\ op[Of(w)].state # "NONE"
           /\ op[Of(w)].count \in Nat
           /\ LET r == [work[w] EXCEPT !.pc = pc] IN
              /\ r \in Run /\ r.pc = pc /\ r.job = work[w].job
              /\ r.flow = work[w].flow
           /\ \A n \in Notes :
              LET r == [work[w] EXCEPT !.pc = pc, !.note = n] IN
              /\ r \in Run /\ r.pc = pc /\ r.job = work[w].job
              /\ r.flow = work[w].flow
<1>1. work[w] \in Run /\ job \in JobType /\ work[w].flow # "VERIFY"
      /\ Of(w) \in Proposal
  BY DEF IInv, TypeOK, RunsOK, JobType
<1>2. <<"RECONCILE", Of(w)>> \in JobKey
  BY <1>1, Keys
<1>3. Enqueued(job, <<"RECONCILE", Of(w)>>) \in JobType
  BY <1>1, <1>2, EnqueuedType
<1>4. op[Of(w)] \in Operation /\ op[Of(w)].state # "NONE"
  BY <1>1 DEF IInv, TypeOK, RunsOK
<1>5. op[Of(w)].count \in Nat
  BY <1>4, RecoveryAssumption DEF Operation
<1>6. LET r == [work[w] EXCEPT !.pc = pc] IN
      r \in Run /\ r.pc = pc /\ r.job = work[w].job /\ r.flow = work[w].flow
  BY <1>1 DEF Run
<1>7. ASSUME NEW n \in Notes
      PROVE  LET r == [work[w] EXCEPT !.pc = pc, !.note = n] IN
             r \in Run /\ r.pc = pc /\ r.job = work[w].job /\ r.flow = work[w].flow
  BY <1>1 DEF Run
<1> QED
  BY <1>1, <1>2, <1>3, <1>4, <1>5, <1>6, <1>7

\* Where a run in hand goes, except to PERSIST, for which it needs a response.
Handled == Pcs \ {"GATE", "BLOCKED", "PREPARE", "PERSIST"}

\* The place of the run in hand changes, and its operation advances to o.
LEMMA OperationGoto ==
    ASSUME IInv, NEW w \in Worker, HasOperation(w),
           NEW o \in Operation, op' = [op EXCEPT ![Of(w)] = o],
           o.state # "NONE", op[Of(w)].count <= o.count,
           op[Of(w)].resolved => o.resolved,
           o.state = "BLOCKED" => o.count = 0 /\ o.resolved,
           NEW pc \in Handled, Goto(w, pc),
           pc \in {"SEND", "WAITING"} => o.count > 0,
           job' \in JobType, UNCHANGED <<proposals, authority, owner, manual, source>>
    PROVE  IInv'
<1> DEFINE r == [work[w] EXCEPT !.pc = pc]
<1>1. r \in Run /\ r.pc = pc /\ r.job = work[w].job /\ r.flow # "VERIFY"
  <2>1. work[w] \in Run /\ work[w].flow # "VERIFY"
    BY DEF IInv, TypeOK, RunsOK
  <2> QED
    BY <2>1 DEF Run, Handled
<1>2. work' = [work EXCEPT ![w] = r]
  BY DEF Goto
<1>3. r.pc \notin {"GATE", "BLOCKED", "PREPARE", "PERSIST"}
  BY <1>1 DEF Handled
<1> HIDE DEF r
<1> QED
  BY <1>1, <1>2, <1>3, OperationStep

\* The place of the run in hand changes, its operation does not.
LEMMA RunGoto ==
    ASSUME IInv, NEW w \in Worker, HasOperation(w), UNCHANGED op,
           NEW pc \in Handled, Goto(w, pc),
           pc \in {"SEND", "WAITING"} => op[Of(w)].count > 0,
           job' \in JobType, UNCHANGED <<proposals, authority, owner, manual, source>>
    PROVE  IInv'
<1> DEFINE r == [work[w] EXCEPT !.pc = pc]
<1>1. r \in Run /\ r.pc = pc /\ r.job = work[w].job /\ r.flow # "VERIFY"
  <2>1. work[w] \in Run /\ work[w].flow # "VERIFY"
    BY DEF IInv, TypeOK, RunsOK
  <2> QED
    BY <2>1 DEF Run, Handled
<1>2. work' = [work EXCEPT ![w] = r]
  BY DEF Goto
<1>3. r.pc \notin {"GATE", "BLOCKED", "PREPARE", "PERSIST"}
  BY <1>1 DEF Handled
<1> HIDE DEF r
<1> QED
  BY <1>1, <1>2, <1>3, RunStep

\* What the operation in hand is closed as, without a dispatch.
LEMMA Closed ==
    ASSUME NEW o \in Operation, o.count = 0
    PROVE  LET c == [o EXCEPT !.state = "BLOCKED", !.resolved = TRUE] IN
           c \in Operation /\ c.state = "BLOCKED" /\ c.count = 0 /\ c.resolved
BY DEF Operation, FinalStates

LEMMA CloseBeforeDispatchIInv ==
    ASSUME IInv, NEW w \in Worker, CloseBeforeDispatch(w)
    PROVE  IInv'
<1>1. HasOperation(w)
  BY DEF CloseBeforeDispatch, HasOperation
<1>2. /\ Goto(w, "DONE") /\ "DONE" \in Handled
      /\ UNCHANGED <<proposals, authority, owner, queue, source>>
  BY DEF CloseBeforeDispatch, Pcs, Handled
<1>3. Of(w) \in Proposal /\ op[Of(w)] \in Operation /\ job' \in JobType
  BY <1>1, <1>2, RunInHand DEF Handled, queue
<1>4. CASE op[Of(w)].count = 0
  <2> DEFINE o == [op[Of(w)] EXCEPT !.state = "BLOCKED", !.resolved = TRUE]
  <2>1. op' = [op EXCEPT ![Of(w)] = o]
    BY <1>3, <1>4 DEF CloseBeforeDispatch, IInv, TypeOK
  <2>2. o \in Operation /\ o.state = "BLOCKED" /\ o.count = 0 /\ o.resolved
    BY <1>3, <1>4, Closed
  <2> HIDE DEF o
  <2>3. /\ o.state # "NONE" /\ op[Of(w)].count <= o.count
        /\ op[Of(w)].resolved => o.resolved
        /\ o.state = "BLOCKED" => o.count = 0 /\ o.resolved
    BY <1>4, <2>2
  <2> QED
    BY <1>1, <1>2, <1>3, <2>1, <2>2, <2>3, OperationGoto DEF queue
<1>5. CASE op[Of(w)].count # 0
  BY <1>1, <1>2, <1>3, <1>5, RunGoto DEF CloseBeforeDispatch, queue
<1> QED
  BY <1>4, <1>5

LEMMA ReservationRefusedIInv ==
    ASSUME IInv, NEW w \in Worker, ReservationRefused(w)
    PROVE  IInv'
<1>1. HasOperation(w)
  BY DEF ReservationRefused, HasOperation
<1>2. /\ Goto(w, "DONE") /\ "DONE" \in Handled
      /\ UNCHANGED <<proposals, authority, owner, manual, source>>
  BY DEF ReservationRefused, Pcs, Handled
<1>3. Of(w) \in Proposal /\ op[Of(w)] \in Operation /\ job' \in JobType
  BY <1>1, <1>2, RunInHand DEF Handled, ReservationRefused
<1>4. CASE op[Of(w)].count = 0 /\ ~op[Of(w)].resolved
  <2> DEFINE o == [op[Of(w)] EXCEPT !.state = "BLOCKED", !.resolved = TRUE]
  <2>1. op' = [op EXCEPT ![Of(w)] = o]
    BY <1>3, <1>4 DEF ReservationRefused, IInv, TypeOK
  <2>2. o \in Operation /\ o.state = "BLOCKED" /\ o.count = 0 /\ o.resolved
    BY <1>3, <1>4, Closed
  <2> HIDE DEF o
  <2>3. /\ o.state # "NONE" /\ op[Of(w)].count <= o.count
        /\ op[Of(w)].resolved => o.resolved
        /\ o.state = "BLOCKED" => o.count = 0 /\ o.resolved
    BY <1>4, <2>2
  <2> QED
    BY <1>1, <1>2, <1>3, <2>1, <2>2, <2>3, OperationGoto
<1>5. CASE ~(op[Of(w)].count = 0 /\ ~op[Of(w)].resolved)
  BY <1>1, <1>2, <1>3, <1>5, RunGoto DEF ReservationRefused
<1> QED
  BY <1>4, <1>5

LEMMA Counted ==
    ASSUME NEW o \in Operation, o.count < MaxDispatches
    PROVE  LET c == [o EXCEPT !.state = "DISPATCHED", !.count = o.count + 1] IN
           /\ c \in Operation /\ c.state = "DISPATCHED" /\ c.count = o.count + 1
           /\ c.resolved = o.resolved
<1>1. o.count + 1 \in 0..MaxDispatches
  BY RecoveryAssumption DEF Operation
<1> DEFINE n == o.count + 1
<1>2. n \in 0..MaxDispatches
  BY <1>1
<1> HIDE DEF n
<1>3. [o EXCEPT !.state = "DISPATCHED", !.count = n] \in Operation
  BY <1>2 DEF Operation, OpenStates
<1>4. LET c == [o EXCEPT !.state = "DISPATCHED", !.count = n] IN
      c.state = "DISPATCHED" /\ c.count = n /\ c.resolved = o.resolved
  BY DEF Operation
<1> QED
  BY <1>3, <1>4 DEF n

LEMMA ReserveIInv ==
    ASSUME IInv, NEW w \in Worker, Reserve(w)
    PROVE  IInv'
<1> DEFINE o == [op[Of(w)] EXCEPT !.state = "DISPATCHED",
                                  !.count = op[Of(w)].count + 1]
<1>1. HasOperation(w)
  BY DEF Reserve, HasOperation
<1>2. /\ Goto(w, "SEND") /\ "SEND" \in Handled /\ Reservable(Of(w))
      /\ UNCHANGED <<proposals, authority, owner, queue, source>>
  BY DEF Reserve, Pcs, Handled
<1>3. Of(w) \in Proposal /\ op[Of(w)] \in Operation /\ job' \in JobType
  BY <1>1, <1>2, RunInHand DEF Handled, queue
<1>4. op' = [op EXCEPT ![Of(w)] = o]
  BY <1>3 DEF Reserve, IInv, TypeOK
<1>5. op[Of(w)].count \in 0..MaxDispatches /\ op[Of(w)].count < MaxDispatches
  BY <1>2, <1>3 DEF Reservable, Operation
<1>6. o \in Operation /\ o.state = "DISPATCHED" /\ o.count = op[Of(w)].count + 1
      /\ o.resolved = op[Of(w)].resolved
  BY <1>3, <1>5, Counted
<1> HIDE DEF o
<1>7. op[Of(w)].count <= o.count /\ o.count > 0
  BY <1>5, <1>6, RecoveryAssumption
<1> QED
  BY <1>1, <1>2, <1>3, <1>4, <1>6, <1>7, OperationGoto DEF queue

LEMMA SendIInv ==
    ASSUME IInv, NEW w \in Worker, Send(w)
    PROVE  IInv'
<1>1. HasOperation(w) /\ op[Of(w)].count > 0
  BY DEF IInv, RunsOK, Send, HasOperation
<1>2. PICK pc \in {"DONE", "WAITING"} : Goto(w, pc)
  BY DEF Send
<1>3. pc \in Handled
  BY DEF Handled, Pcs
<1>4. job' \in JobType
  BY <1>1, <1>3, RunInHand, ZenonT(40) DEF Send, Handled
<1> QED
  BY <1>1, <1>2, <1>3, <1>4, RunGoto DEF Send

LEMMA RetryIInv ==
    ASSUME IInv, NEW w \in Worker, Retry(w)
    PROVE  IInv'
<1>1. HasOperation(w) /\ "RESERVE" \in Handled
  BY DEF Retry, HasOperation, Handled, Pcs
<1>2. job' \in JobType
  BY <1>1 DEF IInv, TypeOK, JobType, Retry, queue
<1> QED
  BY <1>1, <1>2, RunGoto DEF Retry, queue

\* SourceDenies and Lookup: an answer is noted.
LEMMA AnswerIInv ==
    ASSUME IInv, NEW w \in Worker, HasOperation(w),
           NEW pc \in Handled \cup {"PERSIST"}, NEW n \in Notes,
           pc \in {"SEND", "WAITING", "PERSIST"} => op[Of(w)].count > 0,
           pc = "PERSIST" => n \in Responses,
           work' = [work EXCEPT ![w] = [@ EXCEPT !.pc = pc, !.note = n]],
           UNCHANGED <<proposals, op, authority, owner, queue, source>>
    PROVE  IInv'
<1> DEFINE r == [work[w] EXCEPT !.pc = pc, !.note = n]
<1>1. /\ r \in Run /\ r.pc = pc /\ r.job = work[w].job /\ r.flow # "VERIFY"
      /\ r.note = n
  <2>1. work[w] \in Run /\ work[w].flow # "VERIFY" /\ pc \in Pcs
    BY DEF IInv, TypeOK, RunsOK, Handled, Pcs
  <2> QED
    BY <2>1 DEF Run
<1>2. work' = [work EXCEPT ![w] = r]
  OBVIOUS
<1>3. r.pc \notin {"GATE", "BLOCKED", "PREPARE"} /\ job' \in JobType
  BY <1>1 DEF Handled, IInv, TypeOK, JobType, queue
<1> HIDE DEF r
<1> QED
  BY <1>1, <1>2, <1>3, RunStep DEF queue

LEMMA SourceDeniesIInv ==
    ASSUME IInv, NEW w \in Worker, SourceDenies(w)
    PROVE  IInv'
<1>1. HasOperation(w) /\ op[Of(w)].count > 0
  BY DEF IInv, RunsOK, SourceDenies, HasOperation
<1>2. "REJECTED" \in Notes /\ "REJECTED" \in Responses
  BY DEF Notes, Responses
<1> QED
  BY <1>1, <1>2, AnswerIInv DEF SourceDenies

LEMMA LookupIInv ==
    ASSUME IInv, NEW w \in Worker, Lookup(w)
    PROVE  IInv'
<1>1. HasOperation(w) /\ "SETTLE" \in Handled
  BY DEF Lookup, HasOperation, Handled, Pcs
<1>2. Of(w) \in Proposal
  BY <1>1 DEF IInv, RunsOK
<1>3. PICK n \in Notes :
         work' = [work EXCEPT ![w] = [@ EXCEPT !.pc = "SETTLE", !.note = n]]
  BY <1>2 DEF IInv, TypeOK, Lookup, Notes
<1>4. "SETTLE" \in Handled \cup {"PERSIST"} /\ "SETTLE" \notin {"SEND", "WAITING", "PERSIST"}
  BY <1>1
<1>5. UNCHANGED <<proposals, op, authority, owner, queue, source>>
  BY DEF Lookup
<1> QED
  BY <1>1, <1>3, <1>4, <1>5, AnswerIInv

LedgerType == [Proposal -> {"NONE", "APPLIED", "REFUSED"}]

\* The source learns only of what is in its hands.
LEMMA HandlesFacts ==
    ASSUME IInv, NEW p \in Proposal, Handles(p)
    PROVE  /\ ledger' \in LedgerType /\ scheduled' \in BOOLEAN
           /\ \A q \in Proposal \ {p} : ledger'[q] = ledger[q]
BY DEF IInv, TypeOK, Handles, LedgerType

\* The source and the network hear of operations that were counted.
LEMMA SourceHears ==
    ASSUME IInv, NEW p \in Proposal, op[p].count > 0, late' \subseteq late \cup {p},
           \A q \in Proposal \ {p} : ledger'[q] = ledger[q],
           UNCHANGED <<proposals, op>>
    PROVE  OperationsOK' /\ OneUnresolvedOperation' /\ OneLiveProposal'
BY DEF IInv, OperationsOK, OneUnresolvedOperation, OneLiveProposal, Live, proposals

LEMMA SourceAnswersIInv ==
    ASSUME IInv, NEW w \in Worker, SourceAnswers(w)
    PROVE  IInv'
<1>1. HasOperation(w) /\ op[Of(w)].count > 0 /\ Of(w) \in Proposal
  BY DEF IInv, RunsOK, SourceAnswers, HasOperation
<1>2. PICK n \in Responses :
         work' = [work EXCEPT ![w] = [@ EXCEPT !.pc = "PERSIST", !.note = n]]
  BY DEF SourceAnswers, Responses
<1>3. [work[w] EXCEPT !.pc = "PERSIST", !.note = n] \in Run
  <2>1. "PERSIST" \in Pcs /\ n \in Notes /\ work[w] \in Run
    BY DEF IInv, TypeOK, Pcs, Notes, Responses
  <2> QED
    BY <2>1, RunUpdates
<1>4. TypeOK'
  BY <1>1, <1>2, <1>3, HandlesFacts
  DEF IInv, TypeOK, LedgerType, SourceAnswers, proposals, authority, queue
<1>5. RunsOK'
  <2>1. /\ work'[w].pc = "PERSIST" /\ work'[w].note = n
        /\ work'[w].job = work[w].job /\ work'[w].flow = work[w].flow
        /\ \A v \in Worker \ {w} : work'[v] = work[v]
    BY <1>2 DEF IInv, TypeOK, Run
  <2>2. UNCHANGED op
    BY DEF SourceAnswers
  <2> QED
    BY <1>1, <2>1, <2>2 DEF IInv, RunsOK, HasOperation, Of
<1>6. OperationsOK' /\ OneUnresolvedOperation' /\ OneLiveProposal'
  BY <1>1, HandlesFacts, SourceHears DEF SourceAnswers
<1> QED
  BY <1>4, <1>5, <1>6 DEF IInv

LEMMA WriteTimesOutIInv ==
    ASSUME IInv, NEW w \in Worker, WriteTimesOut(w)
    PROVE  IInv'
<1>1. HasOperation(w) /\ op[Of(w)].count > 0 /\ Of(w) \in Proposal
  BY DEF IInv, RunsOK, WriteTimesOut, HasOperation
<1>2. [work[w] EXCEPT !.pc = "PERSIST", !.note = "UNCERTAIN"] \in Run
  BY RunUpdates DEF IInv, TypeOK, Pcs, Notes
<1>3. late' = late \/ late' = late \cup {Of(w)}
  BY DEF WriteTimesOut
<1>4. TypeOK'
  BY <1>1, <1>2, <1>3
  DEF IInv, TypeOK, WriteTimesOut, proposals, authority, queue
<1>5. RunsOK'
  BY <1>1 DEF IInv, TypeOK, WriteTimesOut, RunsOK, HasOperation, Of, Responses
<1>6. OperationsOK' /\ OneUnresolvedOperation' /\ OneLiveProposal'
  BY <1>1, <1>3, SourceHears DEF WriteTimesOut
<1> QED
  BY <1>4, <1>5, <1>6 DEF IInv

LEMMA LateDeliveryIInv ==
    ASSUME IInv, NEW p \in Proposal, LateDelivery(p)
    PROVE  IInv'
<1>1. op[p].count > 0
  BY DEF IInv, OperationsOK, LateDelivery
<1>2. TypeOK'
  BY HandlesFacts
  DEF IInv, TypeOK, LedgerType, LateDelivery, proposals, authority, queue
<1>3. RunsOK'
  BY DEF IInv, LateDelivery, RunsOK, HasOperation, Of
<1>4. OperationsOK' /\ OneUnresolvedOperation' /\ OneLiveProposal'
  BY <1>1, HandlesFacts, SourceHears DEF LateDelivery
<1> QED
  BY <1>2, <1>3, <1>4 DEF IInv

LEMMA CrashIInv ==
    ASSUME IInv, NEW w \in Worker, Crash(w)
    PROVE  IInv'
<1>1. Idle \in Run
  BY RecoveryAssumption DEF Idle, Run, Pcs, JobKey, NoCtx, Context, NoOp, Operation,
     Reads, Evals, Notes, NoProposal, Flows
<1>2. TypeOK'
  <2>1. late' \subseteq Proposal
    BY DEF IInv, TypeOK, RunsOK, Crash, HasOperation
  <2> QED
    BY <1>1, <2>1 DEF IInv, TypeOK, Crash, proposals, authority, queue
<1>3. RunsOK'
  BY DEF IInv, TypeOK, Crash, RunsOK, HasOperation, Of, Idle
<1>4. OperationsOK' /\ OneUnresolvedOperation' /\ OneLiveProposal'
  <2>1. CASE late' = late
    BY <2>1, RecordsUnchanged DEF Crash
  <2>2. CASE late' # late
    <3>1. /\ Of(w) \in Proposal /\ op[Of(w)].count > 0
          /\ late' = late \cup {Of(w)}
      BY <2>2 DEF IInv, RunsOK, Crash, HasOperation
    <3> QED
      BY <3>1, SourceHears DEF Crash
  <2> QED
    BY <2>1, <2>2
<1> QED
  BY <1>2, <1>3, <1>4 DEF IInv

LEMMA PersistResponseIInv ==
    ASSUME IInv, NEW w \in Worker, PersistResponse(w)
    PROVE  IInv'
<1> DEFINE a == work[w].note
           s == IF a = "UNCERTAIN" THEN "OUTCOME_UNKNOWN" ELSE "AWAITING_VERIFICATION"
           c == IF a = "ACCEPTED" THEN "CLEAN" ELSE a
           o == [op[Of(w)] EXCEPT !.state = s, !.outcome = c]
           r1 == [work[w] EXCEPT !.pc = "BEGIN", !.flow = "CONFIRM"]
           r2 == [r1 EXCEPT !.seen = o, !.read = "NONE"]
           r == [r2 EXCEPT !.eval = "NONE", !.note = "NONE"]
<1>1. HasOperation(w) /\ op[Of(w)].count > 0 /\ Of(w) \in Proposal
  BY DEF IInv, RunsOK, PersistResponse, HasOperation
<1>2. work[w] \in Run /\ op[Of(w)] \in Operation
  BY <1>1 DEF IInv, TypeOK
<1>3. a \in Responses
  BY DEF IInv, RunsOK, PersistResponse
<1>4. o \in Operation /\ o.state \notin {"NONE", "BLOCKED"}
      /\ o.count = op[Of(w)].count /\ o.resolved = op[Of(w)].resolved
  <2>1. s \in OpenStates /\ s \notin {"NONE", "BLOCKED"}
        /\ c \in {"CLEAN", "REJECTED", "UNCERTAIN"}
    BY <1>3 DEF OpenStates, Responses
  <2> HIDE DEF s, c
  <2> QED
    BY <1>2, <2>1 DEF Operation
<1>5. /\ op' = [op EXCEPT ![Of(w)] = o]
      /\ work' = [work EXCEPT ![w] = r]
      /\ UNCHANGED <<proposals, authority, owner, queue, source>>
  BY DEF PersistResponse
<1> HIDE DEF o
<1>6. r \in Run /\ r.job = work[w].job /\ r.flow = "CONFIRM" /\ r.pc = "BEGIN"
  <2>1. r1 \in Run /\ r1.job = work[w].job /\ r1.flow = "CONFIRM" /\ r1.pc = "BEGIN"
    BY <1>2 DEF Run, Pcs, Flows
  <2> HIDE DEF r1
  <2>2. r2 \in Run /\ r2.job = r1.job /\ r2.flow = r1.flow /\ r2.pc = r1.pc
    BY <1>4, <2>1 DEF Run, Reads
  <2> HIDE DEF r2
  <2>3. r \in Run /\ r.job = r2.job /\ r.flow = r2.flow /\ r.pc = r2.pc
    BY <2>2 DEF Run, Reads, Evals, Notes
  <2> QED
    BY <2>1, <2>2, <2>3
<1> HIDE DEF r
<1>7. op[Of(w)].count \in Nat /\ job' \in JobType
  BY <1>2, <1>5, RecoveryAssumption DEF IInv, TypeOK, JobType, queue, Operation
<1>8. op[Of(w)].count <= o.count /\ (op[Of(w)].resolved => o.resolved)
  BY <1>4, <1>7
<1> QED
  BY <1>1, <1>4, <1>5, <1>6, <1>7, <1>8, OperationStep DEF queue

LEMMA ResolveIInv ==
    ASSUME IInv, NEW w \in Worker, Resolve(w)
    PROVE  IInv'
<1>1. /\ HasOperation(w) /\ Goto(w, "DONE") /\ "DONE" \in Handled
      /\ UNCHANGED <<proposals, authority, owner, queue, source>>
  BY DEF Resolve, HasOperation, Handled, Pcs
<1>2. Of(w) \in Proposal /\ op[Of(w)] \in Operation /\ job' \in JobType
  BY <1>1, RunInHand DEF Handled, queue
<1>3. CASE op[Of(w)].resolved
  BY <1>1, <1>2, <1>3, RunGoto DEF Resolve, queue
<1>4. CASE ~op[Of(w)].resolved
  <2>1. PICK s \in {"VERIFIED", "RESOLVED_EXTERNALLY", "FAILED_CONFIRMED"},
             t \in {"PROOFWORK", "UNATTRIBUTED", "NONE"} :
           op' = [op EXCEPT ![Of(w)] =
                    [@ EXCEPT !.state = s, !.resolved = TRUE, !.attribution = t]]
    BY <1>4 DEF Resolve, Resolutions, FinalStates
  <2> DEFINE o == [op[Of(w)] EXCEPT !.state = s, !.resolved = TRUE,
                                    !.attribution = t]
  <2>2. op' = [op EXCEPT ![Of(w)] = o]
    BY <2>1
  <2>3. o \in Operation /\ o.state \notin {"NONE", "BLOCKED"} /\ o.resolved
        /\ o.count = op[Of(w)].count
    BY <1>2 DEF Operation, FinalStates
  <2> HIDE DEF o
  <2>4. op[Of(w)].count <= o.count
    BY <1>2, <2>3, RecoveryAssumption DEF Operation
  <2> QED
    BY <1>1, <1>2, <2>2, <2>3, <2>4, OperationGoto DEF queue
<1> QED
  BY <1>3, <1>4

LEMMA WaitIInv ==
    ASSUME IInv, NEW w \in Worker, Wait(w)
    PROVE  IInv'
<1>1. /\ HasOperation(w) /\ Goto(w, "DONE") /\ "DONE" \in Handled
      /\ UNCHANGED <<proposals, authority, owner, manual, source>>
  BY DEF Wait, HasOperation, Handled, Pcs
<1>2. /\ Of(w) \in Proposal /\ op[Of(w)] \in Operation /\ job' \in JobType
      /\ op[Of(w)].count \in Nat
  BY <1>1, RunInHand DEF Wait, Handled
<1>3. CASE op' = op
  BY <1>1, <1>2, <1>3, RunGoto
<1>4. CASE op' # op
  <2> DEFINE o == [op[Of(w)] EXCEPT !.state = "OUTCOME_UNKNOWN", !.escalated = TRUE]
  <2>1. op' = [op EXCEPT ![Of(w)] = o] /\ ~op[Of(w)].resolved
    BY <1>4 DEF Wait
  <2>2. o \in Operation /\ o.state = "OUTCOME_UNKNOWN"
        /\ o.resolved = op[Of(w)].resolved /\ o.count = op[Of(w)].count
    BY <1>2 DEF Operation, OpenStates
  <2> HIDE DEF o
  <2>3. op[Of(w)].count <= o.count /\ (op[Of(w)].resolved => o.resolved)
    BY <1>2, <2>2
  <2> QED
    BY <1>1, <1>2, <2>1, <2>2, <2>3, OperationGoto
<1> QED
  BY <1>3, <1>4

\* Runs are not disturbed by a step that leaves them and the operations alone.
LEMMA RunsUnchanged ==
    ASSUME RunsOK, UNCHANGED <<op, work>>
    PROVE  RunsOK'
BY DEF RunsOK, HasOperation, Of

LEMMA EndRunIInv ==
    ASSUME IInv, NEW w \in Worker, EndRun(w)
    PROVE  IInv'
<1>1. Idle \in Run
  BY RecoveryAssumption DEF Idle, Run, Pcs, JobKey, NoCtx, Context, NoOp, Operation,
     Reads, Evals, Notes, NoProposal, Flows
<1>2. job' \in JobType /\ manual' \in BOOLEAN
  BY DEF IInv, TypeOK, JobType, EndRun, Ends, FailRetried, queue
<1>3. TypeOK'
  BY <1>1, <1>2 DEF IInv, TypeOK, JobType, EndRun, proposals, authority, source
<1>4. RunsOK'
  BY DEF IInv, TypeOK, EndRun, RunsOK, HasOperation, Of, Idle
<1> QED
  BY <1>3, <1>4, RecordsUnchanged DEF IInv, EndRun, source

LEMMA MaintenanceIInv ==
    ASSUME IInv, Maintenance
    PROVE  IInv'
<1>1. CASE \E k \in JobKey : ReclaimLease(k)
  <2>1. PICK k \in JobKey : ReclaimLease(k)
    BY <1>1
  <2>2. job' \in JobType /\ manual' \in BOOLEAN
    BY <2>1 DEF IInv, TypeOK, JobType, ReclaimLease, Ends
  <2>3. TypeOK'
    BY <2>1, <2>2
    DEF IInv, TypeOK, JobType, ReclaimLease, proposals, authority, source
  <2> QED
    BY <2>1, <2>3, RecordsUnchanged, RunsUnchanged DEF IInv, ReclaimLease, source
<1>2. CASE ExpireProposals
  <2>1. prop' \in PropType
    BY <1>2 DEF IInv, TypeOK, ExpireProposals, PropType, ProposalStatuses
  <2>2. TypeOK'
    BY <1>2, <2>1
    DEF IInv, TypeOK, PropType, ExpireProposals, authority, queue, source
  <2>3. OperationsOK' /\ OneUnresolvedOperation' /\ OneLiveProposal'
    BY <1>2, LiveShrinks DEF IInv, TypeOK, ExpireProposals, LiveStatuses, source
  <2> QED
    BY <1>2, <2>2, <2>3, RunsUnchanged DEF IInv, ExpireProposals
<1>3. CASE \E p \in Proposal : EnsureReconciliationQueued(p)
  <2>1. PICK p \in Proposal : EnsureReconciliationQueued(p)
    BY <1>3
  <2>2. job' \in JobType
    BY <2>1, EnqueuedType, Keys DEF IInv, TypeOK, JobType, EnsureReconciliationQueued
  <2>3. TypeOK'
    BY <2>1, <2>2
    DEF IInv, TypeOK, JobType, EnsureReconciliationQueued, proposals, authority, source
  <2> QED
    BY <2>1, <2>3, RecordsUnchanged, RunsUnchanged
    DEF IInv, EnsureReconciliationQueued, source
<1> QED
  BY <1>1, <1>2, <1>3 DEF Maintenance

\* A command, or time: runs, operations, decisions and the source stay.
LEMMA CommandStep ==
    ASSUME IInv, UNCHANGED <<decision, op, ledger, late, work>>,
           prop' \in PropType, expired' \in [Proposal -> BOOLEAN],
           \A p \in Proposal :
              /\ prop'[p].status \in LiveStatuses => prop[p].status \in LiveStatuses
              /\ prop[p].status = "CONSUMED" => prop'[p].status = "CONSUMED",
           job' \in JobType, manual' \in BOOLEAN, owner' = owner,
           paused' \in BOOLEAN, policy' \in 1..MaxPolicy, active' \in BOOLEAN,
           retired' \in BOOLEAN, moved' \in BOOLEAN, cutoff' \in BOOLEAN,
           scheduled' \in BOOLEAN, shifted' \in BOOLEAN
    PROVE  IInv'
<1>1. TypeOK'
  BY DEF IInv, TypeOK, PropType, JobType
<1> QED
  BY <1>1, LiveShrinks, RunsUnchanged DEF IInv

LEMMA DecideIInv ==
    ASSUME IInv, NEW p \in Proposal, NEW d \in {"APPROVE", "REJECT"}, Decide(p, d)
    PROVE  IInv'
<1>1. job' \in JobType
  <2>1. job \in JobType /\ <<"RECOVER", p>> \in JobKey
    BY Keys DEF IInv, TypeOK, JobType
  <2> QED
    BY <2>1, EnqueuedType DEF Decide
<1>2. prop' \in PropType
  BY DEF IInv, TypeOK, Decide, PropType, ProposalStatuses, LiveStatuses
<1>3. decision' \in [Proposal -> {"NONE", "APPROVE", "REJECT", "AUTO_POLICY"}]
  BY DEF IInv, TypeOK, Decide
<1>4. TypeOK'
  BY <1>1, <1>2, <1>3
  DEF IInv, TypeOK, JobType, PropType, Decide, authority, source
<1>5. OperationsOK'
  BY DEF IInv, TypeOK, Decide, OperationsOK, source
<1>6. OneLiveProposal'
  BY DEF IInv, TypeOK, Decide, OneLiveProposal, Live, LiveStatuses
<1>7. OneUnresolvedOperation' /\ RunsOK'
  BY RunsUnchanged DEF IInv, Decide, OneUnresolvedOperation
<1> QED
  BY <1>4, <1>5, <1>6, <1>7 DEF IInv

\* The types as CommandStep asks for them, of what a command leaves alone.
LEMMA StateTypes ==
    ASSUME IInv
    PROVE  /\ prop \in PropType /\ expired \in [Proposal -> BOOLEAN]
           /\ job \in JobType /\ manual \in BOOLEAN
           /\ paused \in BOOLEAN /\ policy \in 1..MaxPolicy /\ active \in BOOLEAN
           /\ retired \in BOOLEAN /\ moved \in BOOLEAN /\ cutoff \in BOOLEAN
           /\ scheduled \in BOOLEAN /\ shifted \in BOOLEAN
BY DEF IInv, TypeOK, PropType, JobType

\* What superseding does, in the words of CommandStep.
LEMMA SupersededShrinks ==
    ASSUME IInv, prop' = Superseded
    PROVE  /\ prop' \in PropType
           /\ \A p \in Proposal :
                 /\ prop'[p].status \in LiveStatuses =>
                       prop[p].status \in LiveStatuses
                 /\ prop[p].status = "CONSUMED" => prop'[p].status = "CONSUMED"
BY SupersededFacts DEF IInv, Live, LiveStatuses

LEMMA CommandIInv ==
    ASSUME IInv, Command
    PROVE  IInv'
<1>1. CASE \E p \in Proposal : \E d \in {"APPROVE", "REJECT"} : Decide(p, d)
  BY <1>1, DecideIInv
<1>2. CASE \E p \in Proposal : QueueCompetingRecovery(p)
  <2>1. PICK p \in Proposal : QueueCompetingRecovery(p)
    BY <1>2
  <2>2. job' \in JobType
    BY <2>1, EnqueuedType, Keys DEF IInv, TypeOK, JobType, QueueCompetingRecovery
  <2> QED
    BY <2>1, <2>2, StateTypes, CommandStep
    DEF QueueCompetingRecovery, proposals, authority, source
<1>3. CASE PauseWrites
  BY <1>3, StateTypes, CommandStep DEF PauseWrites, proposals, queue, source
<1>4. CASE ResumeWrites
  <2>1. prop' \in PropType
    BY <1>4, StateTypes DEF ResumeWrites, PropType, ProposalStatuses
  <2>2. \A p \in Proposal :
           /\ prop'[p].status \in LiveStatuses => prop[p].status \in LiveStatuses
           /\ prop[p].status = "CONSUMED" => prop'[p].status = "CONSUMED"
    BY <1>4, StateTypes DEF ResumeWrites, PropType, LiveStatuses
  <2>3. job' \in JobType
    BY <1>4, StateTypes DEF ResumeWrites, JobType
  <2> QED
    BY <1>4, <2>1, <2>2, <2>3, StateTypes, CommandStep DEF ResumeWrites, source
<1>5. CASE CreatePolicyVersion
  <2>1. policy' \in 1..MaxPolicy
    BY <1>5, StateTypes, RecoveryAssumption DEF CreatePolicyVersion
  <2>2. job' \in JobType
    BY <1>5, StateTypes, EnqueuedType, Keys DEF CreatePolicyVersion
  <2> QED
    BY <1>5, <2>1, <2>2, StateTypes, SupersededShrinks, CommandStep
    DEF CreatePolicyVersion, source
<1>6. CASE RetireTask
  <2>1. job' \in JobType /\ manual' \in BOOLEAN
    BY <1>6, StateTypes DEF RetireTask, JobType
  <2> QED
    BY <1>6, <2>1, StateTypes, SupersededShrinks, CommandStep DEF RetireTask, source
<1>7. CASE WithdrawRequest
  BY <1>7, StateTypes, SupersededShrinks, CommandStep
  DEF WithdrawRequest, queue, source
<1>8. CASE MoveConnection
  BY <1>8, StateTypes, CommandStep DEF MoveConnection, proposals, queue, source
<1>9. CASE RequestRecheck
  <2>1. job' \in JobType
    BY <1>9, StateTypes, EnqueuedType, Keys DEF RequestRecheck
  <2> QED
    BY <1>9, <2>1, StateTypes, CommandStep
    DEF RequestRecheck, proposals, authority, source
<1> QED
  BY <1>1, <1>2, <1>3, <1>4, <1>5, <1>6, <1>7, <1>8, <1>9 DEF Command

LEMMA TimeAndOthersIInv ==
    ASSUME IInv, \/ \E p \in Proposal : ProposalExpires(p)
                 \/ CutoffPasses
                 \/ SourceChanges
    PROVE  IInv'
<1>1. CASE \E p \in Proposal : ProposalExpires(p)
  <2>1. PICK p \in Proposal : ProposalExpires(p)
    BY <1>1
  <2>2. expired' \in [Proposal -> BOOLEAN]
    BY <2>1, StateTypes DEF ProposalExpires
  <2> QED
    BY <2>1, <2>2, StateTypes, CommandStep
    DEF ProposalExpires, authority, queue, source
<1>2. CASE CutoffPasses
  BY <1>2, StateTypes, CommandStep DEF CutoffPasses, proposals, queue, source
<1>3. CASE SourceChanges
  BY <1>3, StateTypes, CommandStep DEF SourceChanges, proposals, authority, queue
<1> QED
  BY <1>1, <1>2, <1>3

LEMMA ProgressIInv ==
    ASSUME IInv, NEW w \in Worker, Progress(w)
    PROVE  IInv'
BY LeaseIInv, BeginIInv, ReadIInv, RecordFencedIInv, RecordEvidenceIInv,
   RecordCandidateIInv, GateIInv, HandleBlockedGateIInv, PrepareIInv,
   CloseBeforeDispatchIInv, ReservationRefusedIInv, ReserveIInv, SendIInv,
   SourceAnswersIInv, SourceDeniesIInv, WriteTimesOutIInv, PersistResponseIInv,
   LookupIInv, ResolveIInv, RetryIInv, WaitIInv, EndRunIInv
DEF Progress, Record

LEMMA NextIInv == IInv /\ [Next]_vars => IInv'
<1> SUFFICES ASSUME IInv, [Next]_vars PROVE IInv'
  OBVIOUS
<1>1. CASE UNCHANGED vars
  <2>1. TypeOK'
    BY <1>1 DEF IInv, TypeOK, vars, proposals, authority, queue, source
  <2> QED
    BY <1>1, <2>1, RecordsUnchanged, RunsUnchanged
    DEF IInv, vars, proposals, source
<1>2. CASE Next
  BY <1>2, ProgressIInv, MaintenanceIInv, CommandIInv, LateDeliveryIInv,
     TimeAndOthersIInv, CrashIInv DEF Next, Steady
<1> QED
  BY <1>1, <1>2

\* Every reachable state satisfies the inductive invariant: types, what a running
\* handler may assume, what the counters and states of operations mean together,
\* one unresolved operation, one live proposal.
THEOREM Invariance == Spec => []IInv
BY InitIInv, NextIInv, PTL DEF Spec
-----------------------------------------------------------------------------
\* Every variable keeps its type, whatever the environment does.
THEOREM TypeCorrect == Spec => []TypeOK
<1>1. IInv => TypeOK
  BY DEF IInv
<1> QED
  BY <1>1, Invariance, PTL

\* However many workers and jobs prepare operations, at most one is unresolved.
THEOREM OneUnresolvedOperationAlways == Spec => []OneUnresolvedOperation
<1>1. IInv => OneUnresolvedOperation
  BY DEF IInv
<1> QED
  BY <1>1, Invariance, PTL

\* Workers with stale contexts and commands leave at most one live proposal.
THEOREM OneLiveProposalAlways == Spec => []OneLiveProposal
<1>1. IInv => OneLiveProposal
  BY DEF IInv
<1> QED
  BY <1>1, Invariance, PTL

\* A request that is out belongs to an operation that was counted.
LEMMA InFlightCounted ==
    ASSUME IInv, NEW p \in Proposal, ledger[p] # "NONE" \/ InFlight(p)
    PROVE  op[p].count > 0
BY DEF IInv, InFlight, RunsOK, OperationsOK

\* What was closed as never sent is not at the source and not on its way.
THEOREM BlockedNeverSentAlways == Spec => []BlockedNeverSent
<1>1. IInv => BlockedNeverSent
  <2> SUFFICES ASSUME IInv, NEW p \in Proposal, op[p].state = "BLOCKED"
               PROVE  ledger[p] = "NONE" /\ ~InFlight(p)
    BY DEF BlockedNeverSent
  <2>1. op[p].count = 0
    BY DEF IInv, OperationsOK
  <2> QED
    BY <2>1, InFlightCounted
<1> QED
  BY <1>1, Invariance, PTL

\* Nothing is sent, and nothing reaches the source, that nobody authorized.
THEOREM OnlyAuthorizedWritesAlways == Spec => []OnlyAuthorizedWrites
<1>1. IInv => OnlyAuthorizedWrites
  <2> SUFFICES ASSUME IInv, NEW p \in Proposal, ledger[p] # "NONE" \/ InFlight(p)
               PROVE  /\ op[p].count > 0
                      /\ decision[p] \in {"APPROVE", "AUTO_POLICY"}
                      /\ prop[p].status = "CONSUMED"
    BY DEF OnlyAuthorizedWrites
  <2>1. op[p].count > 0
    BY InFlightCounted
  <2>2. op[p].state # "NONE"
    BY <2>1 DEF IInv, OperationsOK
  <2> QED
    BY <2>1, <2>2 DEF IInv, OperationsOK
<1> QED
  BY <1>1, Invariance, PTL

\* The steps that write operations.
LEMMA OperationWrites ==
    ASSUME [Next]_vars
    PROVE  \/ UNCHANGED op
           \/ \E w \in Worker :
                 \/ Prepare(w) \/ CloseBeforeDispatch(w) \/ ReservationRefused(w)
                 \/ PersistResponse(w) \/ Resolve(w) \/ Wait(w)
           \/ \E w \in Worker : Reserve(w)
BY DEF Next, Steady, Progress, Record, Maintenance, Command, vars, Lease, Begin,
       Read, RecordFenced, RecordEvidence, RecordCandidate, Gate,
       HandleBlockedGate, Send, SourceAnswers, SourceDenies, WriteTimesOut,
       Lookup, Retry, EndRun, ReclaimLease, ExpireProposals,
       EnsureReconciliationQueued, Decide, QueueCompetingRecovery, PauseWrites,
       ResumeWrites, CreatePolicyVersion, RetireTask, WithdrawRequest,
       MoveConnection, RequestRecheck, LateDelivery, ProposalExpires,
       CutoffPasses, SourceChanges, Crash

\* Only a reservation counts a dispatch; no step of another kind changes the
\* count of an existing operation.
LEMMA OnlyReserveCounts ==
    ASSUME IInv, NEW p \in Proposal, op[p].state # "NONE", [Next]_vars
    PROVE  \/ op'[p].count = op[p].count
           \/ \E w \in Worker : Reserve(w) /\ Of(w) = p
<1>1. CASE UNCHANGED op
  BY <1>1
<1>2. CASE \E w \in Worker :
              \/ Prepare(w) \/ CloseBeforeDispatch(w) \/ ReservationRefused(w)
              \/ PersistResponse(w) \/ Resolve(w) \/ Wait(w)
  <2>1. op \in [Proposal -> Operation] /\ op[p] \in Operation
    BY DEF IInv, TypeOK
  <2>2. ASSUME NEW w \in Worker, Prepare(w) PROVE op'[p].count = op[p].count
    BY <2>1, <2>2 DEF Prepare, Preparable
  <2>3. ASSUME NEW w \in Worker, CloseBeforeDispatch(w)
        PROVE  op'[p].count = op[p].count
    BY <2>1, <2>3 DEF CloseBeforeDispatch, Operation
  <2>4. ASSUME NEW w \in Worker, ReservationRefused(w)
        PROVE  op'[p].count = op[p].count
    BY <2>1, <2>4 DEF ReservationRefused, Operation
  <2>5. ASSUME NEW w \in Worker, PersistResponse(w)
        PROVE  op'[p].count = op[p].count
    BY <2>1, <2>5 DEF PersistResponse, Operation
  <2>6. ASSUME NEW w \in Worker, Resolve(w) PROVE op'[p].count = op[p].count
    BY <2>1, <2>6 DEF Resolve, Operation
  <2>7. ASSUME NEW w \in Worker, Wait(w) PROVE op'[p].count = op[p].count
    BY <2>1, <2>7 DEF Wait, Operation
  <2> QED
    BY <1>2, <2>2, <2>3, <2>4, <2>5, <2>6, <2>7
<1>3. CASE \E w \in Worker : Reserve(w)
  BY <1>3 DEF IInv, TypeOK, Operation, Reserve
<1> QED
  BY <1>1, <1>2, <1>3, OperationWrites

\* No job, retry or late worker dispatches a resolved operation again.
THEOREM ResolvedNeverRedispatchedAlways == Spec => ResolvedNeverRedispatched
<1>1. IInv /\ [Next]_vars =>
         [\A p \in Proposal : op[p].resolved => op'[p].count = op[p].count]_vars
  <2> SUFFICES ASSUME IInv, [Next]_vars, NEW p \in Proposal, op[p].resolved
               PROVE  op'[p].count = op[p].count
    OBVIOUS
  <2>1. op[p].state # "NONE"
    BY DEF IInv, OperationsOK
  <2>2. ~\E w \in Worker : Reserve(w) /\ Of(w) = p
    BY DEF Reserve, Reservable
  <2> QED
    BY <2>1, <2>2, OnlyReserveCounts
<1> QED
  BY <1>1, Invariance, PTL DEF Spec, ResolvedNeverRedispatched

\* A run that steps to SEND or WAITING reserved, or was on its way before.
LEMMA OnlyReserveSendsRuns ==
    ASSUME IInv, NEW w \in Worker, Progress(w) \/ Crash(w)
    PROVE  /\ \A v \in Worker \ {w} : work'[v] = work[v]
           /\ \/ Reserve(w)
              \/ work'[w].pc \notin {"SEND", "WAITING"}
              \/ work[w].pc = "SEND" /\ work'[w].job = work[w].job
<1>1. work \in [Worker -> Run] /\ work[w] \in Run
  BY DEF IInv, TypeOK
<1>2. ASSUME NEW pc \in Pcs, Goto(w, pc)
      PROVE  /\ \A v \in Worker \ {w} : work'[v] = work[v]
             /\ work'[w].pc = pc /\ work'[w].job = work[w].job
  BY <1>1, <1>2 DEF Goto, Run
<1>3. CASE Begin(w) \/ HandleBlockedGate(w) \/ CloseBeforeDispatch(w)
              \/ ReservationRefused(w) \/ Resolve(w) \/ Retry(w) \/ Wait(w)
  <2>1. \E pc \in {"READ", "DONE", "RESERVE"} : Goto(w, pc)
    BY <1>3 DEF Begin, HandleBlockedGate, CloseBeforeDispatch, ReservationRefused,
                Resolve, Retry, Wait
  <2> QED
    BY <1>2, <2>1 DEF Pcs
<1>4. CASE Reserve(w)
  <2>1. Goto(w, "SEND")
    BY <1>4 DEF Reserve
  <2> QED
    BY <1>2, <1>4, <2>1 DEF Pcs
<1>5. CASE Send(w)
  <2>1. work[w].pc = "SEND" /\ \E pc \in {"DONE", "WAITING"} : Goto(w, pc)
    BY <1>5 DEF Send
  <2> QED
    BY <1>2, <2>1 DEF Pcs
<1>6. CASE \E k \in JobKey : Lease(w, k)
  <2>1. \E k \in JobKey, pc \in {"DONE", "BEGIN"}, flow \in Flows :
           Start(w, k, pc, flow)
    BY <1>6 DEF Lease, StartVerification, StartRecovery, StartOperation, Flows
  <2> QED
    BY <1>1, <2>1 DEF Start
<1>7. CASE Record(w)
  <2>1. \E e : Recorded(w, e)
    BY <1>7 DEF Record, RecordFenced, RecordEvidence, RecordCandidate
  <2> QED
    BY <1>1, <2>1 DEF Recorded, AfterRecord, Run
<1>8. CASE Read(w) \/ Gate(w) \/ SourceAnswers(w) \/ SourceDenies(w)
              \/ WriteTimesOut(w) \/ Lookup(w)
  <2> DEFINE pcs == {"RECORD", "PREPARE", "BLOCKED", "PERSIST", "SETTLE"}
  <2>1. CASE Read(w)
    BY <1>1, <2>1 DEF Read, Run
  <2>2. CASE Gate(w)
    <3>1. \E pc \in pcs : \E n :
             work' = [work EXCEPT ![w] = [@ EXCEPT !.pc = pc, !.note = n]]
      BY <2>2 DEF Gate
    <3> QED
      BY <1>1, <3>1 DEF Run
  <2>3. CASE SourceAnswers(w) \/ SourceDenies(w) \/ WriteTimesOut(w) \/ Lookup(w)
    <3>1. \E pc \in pcs : \E n :
             work' = [work EXCEPT ![w] = [@ EXCEPT !.pc = pc, !.note = n]]
      BY <2>3 DEF SourceAnswers, SourceDenies, WriteTimesOut, Lookup
    <3> QED
      BY <1>1, <3>1 DEF Run
  <2> QED
    BY <1>8, <2>1, <2>2, <2>3
<1>9. CASE Prepare(w)
  BY <1>1, <1>2, <1>9, ZenonT(40) DEF Prepare, Run, Pcs
<1>10. CASE PersistResponse(w)
  BY <1>1, <1>10 DEF PersistResponse, Run
<1>11. CASE EndRun(w) \/ Crash(w)
  BY <1>1, <1>11 DEF EndRun, Crash, Idle
<1> QED
  BY <1>3, <1>4, <1>5, <1>6, <1>7, <1>8, <1>9, <1>10, <1>11 DEF Progress

\* Nothing of p is sent, or reaches the source, by a step other than its
\* reservation, unless it is in flight.
LEMMA OnlyReserveSends ==
    ASSUME IInv, NEW p \in Proposal, ~InFlight(p), [Next]_vars
    PROVE  \/ Quiet(p)
           \/ \E w \in Worker : Reserve(w) /\ Of(w) = p
<1>1. p \notin late
      /\ \A w \in Worker : Of(w) = p => work[w].pc \notin {"SEND", "WAITING"}
  BY DEF InFlight
<1>2. CASE \E w \in Worker : Progress(w) \/ Crash(w)
  <2>1. PICK w \in Worker : Progress(w) \/ Crash(w)
    BY <1>2
  <2>2. ledger'[p] = ledger[p]
    <3>1. CASE SourceAnswers(w)
      <4>1. Of(w) \in Proposal /\ Of(w) # p
        BY <1>1, <3>1 DEF IInv, RunsOK, SourceAnswers, HasOperation
      <4> QED
        BY <3>1, <4>1, HandlesFacts DEF SourceAnswers
    <3>2. CASE ~SourceAnswers(w)
      BY <2>1, <3>2
      DEF Progress, Record, Lease, Begin, Read, RecordFenced, RecordEvidence,
          RecordCandidate, Gate, HandleBlockedGate, Prepare, CloseBeforeDispatch,
          ReservationRefused, Reserve, Send, SourceDenies, WriteTimesOut,
          PersistResponse, Lookup, Resolve, Retry, Wait, EndRun, Crash, source
    <3> QED
      BY <3>1, <3>2
  <2>3. p \notin late'
    <3>1. CASE WriteTimesOut(w) \/ Crash(w)
      BY <1>1, <3>1 DEF WriteTimesOut, Crash
    <3>2. CASE ~(WriteTimesOut(w) \/ Crash(w))
      BY <1>1, <2>1, <3>2
      DEF Progress, Record, Lease, Begin, Read, RecordFenced, RecordEvidence,
          RecordCandidate, Gate, HandleBlockedGate, Prepare, CloseBeforeDispatch,
          ReservationRefused, Reserve, Send, SourceDenies, SourceAnswers,
          PersistResponse, Lookup, Resolve, Retry, Wait, EndRun, source
    <3> QED
      BY <3>1, <3>2
  <2>4. CASE Reserve(w) /\ Of(w) = p
    BY <2>4
  <2>5. CASE ~(Reserve(w) /\ Of(w) = p)
    <3>1. ASSUME NEW v \in Worker, work'[v].pc \in {"SEND", "WAITING"}
          PROVE  Of(v)' # p
      <4>1. CASE v # w
        BY <1>1, <2>1, <3>1, <4>1, OnlyReserveSendsRuns DEF Of
      <4>2. CASE v = w /\ Reserve(w)
        <5>1. work'[w].job = work[w].job
          BY <4>2 DEF IInv, TypeOK, Run, Reserve, Goto
        <5> QED
          BY <2>5, <4>2, <5>1 DEF Of
      <4>3. CASE v = w /\ ~Reserve(w)
        <5>1. work[w].pc = "SEND" /\ work'[w].job = work[w].job
          BY <2>1, <3>1, <4>3, OnlyReserveSendsRuns
        <5> QED
          BY <1>1, <4>3, <5>1 DEF Of
      <4> QED
        BY <4>1, <4>2, <4>3
    <3> QED
      BY <2>2, <2>3, <3>1 DEF Quiet, InFlight
  <2> QED
    BY <2>4, <2>5
<1>3. CASE \E q \in Proposal : LateDelivery(q)
  <2>1. PICK q \in Proposal : LateDelivery(q)
    BY <1>3
  <2>2. q # p
    BY <1>1, <2>1 DEF LateDelivery
  <2>3. ledger'[p] = ledger[p]
    BY <2>1, <2>2, HandlesFacts DEF LateDelivery
  <2> QED
    BY <1>1, <2>1, <2>3 DEF LateDelivery, Quiet, InFlight, Of
<1>4. CASE UNCHANGED <<ledger, late, work>>
  BY <1>1, <1>4 DEF Quiet, InFlight, Of
<1>5. \/ \E w \in Worker : Progress(w) \/ Crash(w)
      \/ \E q \in Proposal : LateDelivery(q)
      \/ UNCHANGED <<ledger, late, work>>
  BY DEF Next, Steady, Maintenance, Command, vars, source, ReclaimLease,
         ExpireProposals, EnsureReconciliationQueued, Decide,
         QueueCompetingRecovery, PauseWrites, ResumeWrites, CreatePolicyVersion,
         RetireTask, WithdrawRequest, MoveConnection, RequestRecheck,
         ProposalExpires, CutoffPasses, SourceChanges
<1> QED
  BY <1>2, <1>3, <1>4, <1>5

\* While writes are paused, the request is inactive, the connection was moved or
\* the policy is another one, nothing new is sent.
THEOREM WithdrawnAuthorityStopsWritesAlways == Spec => WithdrawnAuthorityStopsWrites
<1>1. IInv /\ [Next]_vars =>
         [\A p \in Proposal :
            /\ paused \/ ~active \/ moved \/ policy # prop[p].policy
            /\ ~InFlight(p)
            => Quiet(p)]_vars
  <2> SUFFICES ASSUME IInv, [Next]_vars, NEW p \in Proposal, ~InFlight(p),
                      paused \/ ~active \/ moved \/ policy # prop[p].policy
               PROVE  Quiet(p)
    OBVIOUS
  <2>1. ~\E w \in Worker : Reserve(w) /\ Of(w) = p
    BY DEF Reserve, Reservable, Authority
  <2> QED
    BY <2>1, OnlyReserveSends
<1> QED
  BY <1>1, Invariance, PTL DEF Spec, WithdrawnAuthorityStopsWrites
-----------------------------------------------------------------------------
(***************************************************************************)
(* Recovery implements WriteLedger for any number of workers, proposals,   *)
(* policies and dispatches, as long as every refusal of the source is in   *)
(* its ledger ("denied" is not in Env: a refused credential leaves no      *)
(* trace, and a request that was late may still be applied).               *)
(***************************************************************************)

\* The source refused the write of p.
RefusedAtSource(p) == p \in Proposal /\ ledger[p] = "REFUSED"

\* What a run takes for a refusal is one: of the operation as it was loaded, of
\* the response that is to be persisted, of the lookup.
RunKnows(w) ==
    /\ work[w].pc \in {"BEGIN", "READ", "RECORD"} => work[w].note = "NONE"
    /\ work[w].seen.outcome = "REJECTED" => RefusedAtSource(Of(w))
    /\ work[w].pc = "PERSIST" /\ work[w].note = "REJECTED" =>
          RefusedAtSource(Of(w))
    /\ work[w].pc = "SETTLE" /\ work[w].note = "REFUSED" =>
          RefusedAtSource(Of(w))

OutcomesOK ==
    \A p \in Proposal : op[p].outcome = "REJECTED" => RefusedAtSource(p)

RInv == IInv /\ OutcomesOK /\ \A w \in Worker : RunKnows(w)
-----------------------------------------------------------------------------
LEMMA InitRInv == Init => RInv
<1> SUFFICES ASSUME Init PROVE RInv
  OBVIOUS
<1>1. IInv
  BY InitIInv
<1>2. OutcomesOK
  BY DEF Init, OutcomesOK, NoOp
<1>3. \A w \in Worker : RunKnows(w)
  BY DEF Init, RunKnows, Idle, NoOp
<1> QED
  BY <1>1, <1>2, <1>3 DEF RInv

\* The source's ledger is written once per key.
LEMMA LedgerStands ==
    ASSUME IInv, [Next]_vars, NEW p \in Proposal, ledger[p] # "NONE"
    PROVE  ledger'[p] = ledger[p]
<1>1. CASE UNCHANGED ledger
  BY <1>1
<1>2. CASE \E q \in Proposal : Handles(q)
  BY <1>2 DEF IInv, TypeOK, Handles
<1>3. UNCHANGED ledger \/ \E q \in Proposal : Handles(q)
  <2>1. ASSUME NEW w \in Worker, SourceAnswers(w)
        PROVE  \E q \in Proposal : Handles(q)
    <3>1. Of(w) \in Proposal
      BY <2>1 DEF IInv, RunsOK, SourceAnswers, HasOperation
    <3> QED
      BY <2>1, <3>1 DEF SourceAnswers
  <2>2. ASSUME NEW w \in Worker, Progress(w), ~SourceAnswers(w)
        PROVE  UNCHANGED ledger
    <3>1. CASE (\E k \in JobKey : Lease(w, k)) \/ Begin(w) \/ Read(w) \/ Record(w)
      BY <3>1
      DEF source, Lease, Begin, Read, Record, RecordFenced, RecordEvidence,
          RecordCandidate
    <3>2. CASE \/ Gate(w) \/ HandleBlockedGate(w) \/ Prepare(w)
               \/ CloseBeforeDispatch(w) \/ ReservationRefused(w) \/ Reserve(w)
               \/ Send(w)
      BY <3>2
      DEF source, Gate, HandleBlockedGate, Prepare, CloseBeforeDispatch,
          ReservationRefused, Reserve, Send
    <3>3. CASE \/ SourceDenies(w) \/ WriteTimesOut(w) \/ PersistResponse(w)
               \/ Lookup(w) \/ Resolve(w) \/ Retry(w) \/ Wait(w) \/ EndRun(w)
      BY <3>3
      DEF source, SourceDenies, WriteTimesOut, PersistResponse, Lookup, Resolve,
          Retry, Wait, EndRun
    <3> QED
      BY <2>2, <3>1, <3>2, <3>3 DEF Progress
  <2>3. CASE Maintenance \/ Command
    BY <2>3
    DEF source, Maintenance, Command, ReclaimLease, ExpireProposals,
        EnsureReconciliationQueued, Decide, QueueCompetingRecovery, PauseWrites,
        ResumeWrites, CreatePolicyVersion, RetireTask, WithdrawRequest,
        MoveConnection, RequestRecheck
  <2>4. CASE \/ \E q \in Proposal : ProposalExpires(q)
             \/ CutoffPasses \/ SourceChanges \/ \E w \in Worker : Crash(w)
    BY <2>4 DEF source, ProposalExpires, CutoffPasses, SourceChanges, Crash
  <2>5. ASSUME NEW q \in Proposal, LateDelivery(q) PROVE Handles(q)
    BY <2>5 DEF LateDelivery
  <2>6. UNCHANGED vars => UNCHANGED ledger
    BY DEF vars, source
  <2> QED
    BY <2>1, <2>2, <2>3, <2>4, <2>5, <2>6 DEF Next, Steady
<1> QED
  BY <1>1, <1>2, <1>3

\* What the source refused stays refused.
LEMMA RefusalStands ==
    ASSUME IInv, [Next]_vars, NEW p, RefusedAtSource(p)
    PROVE  RefusedAtSource(p)'
BY LedgerStands DEF RefusedAtSource, Proposal

\* A run that another one's step leaves alone knows what it knew.
LEMMA OthersKnow ==
    ASSUME RInv, [Next]_vars, NEW v \in Worker, work'[v] = work[v]
    PROVE  RunKnows(v)'
<1>1. RunKnows(v) /\ Of(v)' = Of(v)
  BY DEF RInv, Of
<1>2. RefusedAtSource(Of(v)) => RefusedAtSource(Of(v))'
  <2>1. \A p : RefusedAtSource(p) => RefusedAtSource(p)'
    BY RefusalStands DEF RInv
  <2> QED
    BY <1>1, <2>1
<1> QED
  BY <1>1, <1>2 DEF RunKnows

\* A run that goes on with what it loaded knows what it knew.
LEMMA GoesOnKnowing ==
    ASSUME RInv, [Next]_vars, NEW w \in Worker,
           work'[w].job = work[w].job, work'[w].seen = work[w].seen,
           work'[w].pc \in {"BEGIN", "READ", "RECORD"} => work'[w].note = "NONE",
           work'[w].pc = "PERSIST" /\ work'[w].note = "REJECTED" =>
              RefusedAtSource(Of(w))',
           work'[w].pc = "SETTLE" /\ work'[w].note = "REFUSED" =>
              RefusedAtSource(Of(w))'
    PROVE  RunKnows(w)'
<1>1. RunKnows(w) /\ Of(w)' = Of(w)
  BY DEF RInv, Of
<1>2. RefusedAtSource(Of(w)) => RefusedAtSource(Of(w))'
  <2>1. \A p : RefusedAtSource(p) => RefusedAtSource(p)'
    BY RefusalStands DEF RInv
  <2> QED
    BY <1>1, <2>1
<1> QED
  BY <1>1, <1>2 DEF RunKnows

LEMMA GotoKnows ==
    ASSUME RInv, [Next]_vars, NEW w \in Worker, NEW pc \in Pcs, Goto(w, pc),
           pc \notin {"BEGIN", "RECORD", "PERSIST", "SETTLE"},
           pc = "READ" => work[w].pc = "BEGIN"
    PROVE  RunKnows(w)'
<1>1. /\ work'[w].pc = pc /\ work'[w].job = work[w].job
      /\ work'[w].seen = work[w].seen /\ work'[w].note = work[w].note
  BY DEF RInv, IInv, TypeOK, Goto, Run
<1>2. RunKnows(w)
  BY DEF RInv
<1> QED
  BY <1>1, <1>2, GoesOnKnowing DEF RunKnows

\* The step of a worker's own run.
LEMMA OwnStepKnows ==
    ASSUME "denied" \notin Env, RInv, [Next]_vars, NEW w \in Worker,
           Progress(w) \/ Crash(w)
    PROVE  RunKnows(w)'
<1>1. work \in [Worker -> Run] /\ work[w] \in Run /\ RunKnows(w)
  BY DEF RInv, IInv, TypeOK
<1>2. CASE \/ Begin(w) \/ HandleBlockedGate(w) \/ CloseBeforeDispatch(w)
           \/ ReservationRefused(w) \/ Reserve(w) \/ Send(w) \/ Resolve(w)
           \/ Retry(w) \/ Wait(w)
  <2>1. PICK pc \in {"READ", "DONE", "RESERVE", "SEND", "WAITING"} :
           Goto(w, pc) /\ (pc = "READ" => work[w].pc = "BEGIN")
    BY <1>2 DEF Begin, HandleBlockedGate, CloseBeforeDispatch, ReservationRefused,
                Reserve, Send, Resolve, Retry, Wait
  <2>2. pc \in Pcs
    BY DEF Pcs
  <2> QED
    BY <2>1, <2>2, GotoKnows
<1>3. CASE \E k \in JobKey : Lease(w, k)
  <2>1. PICK k \in JobKey, pc \in {"DONE", "BEGIN"}, flow \in Flows :
           Start(w, k, pc, flow)
    BY <1>3 DEF Lease, StartVerification, StartRecovery, StartOperation, Flows
  <2>2. /\ work'[w].pc = pc /\ work'[w].note = "NONE" /\ Of(w)' = k[2]
        /\ work'[w].seen = IF k[2] = NoProposal THEN NoOp ELSE op[k[2]]
    BY <1>1, <2>1 DEF Start, Of
  <2>3. k[2] # NoProposal => k[2] \in Proposal
    BY DEF JobKey
  <2>4. work'[w].seen.outcome = "REJECTED" => RefusedAtSource(k[2])
    BY <2>2, <2>3 DEF RInv, OutcomesOK, NoOp
  <2>5. RefusedAtSource(k[2]) => RefusedAtSource(k[2])'
    BY RefusalStands DEF RInv
  <2> QED
    BY <2>2, <2>4, <2>5 DEF RunKnows
<1>4. CASE Read(w)
  <2>1. /\ work'[w].pc = "RECORD" /\ work'[w].note = work[w].note
        /\ work'[w].job = work[w].job /\ work'[w].seen = work[w].seen
    BY <1>1, <1>4 DEF Read, Run
  <2> QED
    BY <1>1, <1>4, <2>1, GoesOnKnowing DEF Read, RunKnows
<1>5. CASE Record(w)
  <2>1. PICK e : Recorded(w, e)
    BY <1>5 DEF Record, RecordFenced, RecordEvidence, RecordCandidate
  <2>2. /\ work'[w].pc = AfterRecord(w, e) /\ work'[w].note = work[w].note
        /\ work'[w].job = work[w].job /\ work'[w].seen = work[w].seen
    BY <1>1, <2>1 DEF Recorded, Run
  <2>3. work[w].note = "NONE"
    BY <1>1, <1>5 DEF Record, RecordFenced, RecordEvidence, RecordCandidate, RunKnows
  <2> QED
    BY <2>2, <2>3, GoesOnKnowing
<1>6. CASE Gate(w)
  <2>1. \E pc \in {"PREPARE", "BLOCKED"} : \E n :
           work' = [work EXCEPT ![w] = [@ EXCEPT !.pc = pc, !.note = n]]
    BY <1>6 DEF Gate
  <2>2. /\ work'[w].pc \in {"PREPARE", "BLOCKED"}
        /\ work'[w].job = work[w].job /\ work'[w].seen = work[w].seen
    BY <1>1, <2>1 DEF Run
  <2> QED
    BY <2>2, GoesOnKnowing
<1>7. CASE Prepare(w)
  <2>1. CASE Goto(w, "DONE")
    BY <2>1, GotoKnows DEF Pcs
  <2>2. CASE ~Goto(w, "DONE")
    <3> DEFINE o == [NoOp EXCEPT !.state = "PREPARED"]
    <3>1. o.outcome = "CLEAN"
      BY DEF NoOp
    <3>2. work' = [work EXCEPT ![w] = [@ EXCEPT !.pc = "RESERVE", !.seen = o]]
      BY <1>7, <2>2 DEF Prepare
    <3> HIDE DEF o
    <3>3. work'[w].pc = "RESERVE" /\ work'[w].seen = o
      BY <1>1, <3>2 DEF Run
    <3> QED
      BY <3>1, <3>3 DEF RunKnows
  <2> QED
    BY <2>1, <2>2
<1>8. CASE SourceAnswers(w)
  <2>1. PICK n : /\ work' = [work EXCEPT ![w] = [@ EXCEPT !.pc = "PERSIST", !.note = n]]
                 /\ n = "REJECTED" => ledger'[Of(w)] # "APPLIED"
    BY <1>8 DEF SourceAnswers
  <2>2. /\ work'[w].pc = "PERSIST" /\ work'[w].note = n
        /\ work'[w].job = work[w].job /\ work'[w].seen = work[w].seen
    BY <1>1, <2>1 DEF Run
  <2>3. Of(w) \in Proposal
    BY <1>8 DEF RInv, IInv, RunsOK, SourceAnswers, HasOperation
  <2>4. ledger'[Of(w)] \in {"APPLIED", "REFUSED"}
    BY <1>8, <2>3 DEF RInv, IInv, TypeOK, SourceAnswers, Handles
  <2>5. n = "REJECTED" => RefusedAtSource(Of(w))'
    BY <2>1, <2>2, <2>3, <2>4 DEF RefusedAtSource, Of, Proposal
  <2> QED
    BY <2>2, <2>5, GoesOnKnowing
<1>9. CASE SourceDenies(w)
  BY <1>9 DEF SourceDenies
<1>10. CASE WriteTimesOut(w)
  <2>1. /\ work'[w].pc = "PERSIST" /\ work'[w].note = "UNCERTAIN"
        /\ work'[w].job = work[w].job /\ work'[w].seen = work[w].seen
    BY <1>1, <1>10 DEF WriteTimesOut, Run
  <2> QED
    BY <2>1, GoesOnKnowing
<1>11. CASE PersistResponse(w)
  <2> DEFINE a == work[w].note
             o == [op[Of(w)] EXCEPT
                     !.state = IF a = "UNCERTAIN" THEN "OUTCOME_UNKNOWN"
                               ELSE "AWAITING_VERIFICATION",
                     !.outcome = IF a = "ACCEPTED" THEN "CLEAN" ELSE a]
  <2>1. Of(w) \in Proposal /\ op[Of(w)] \in Operation /\ work[w].pc = "PERSIST"
    BY <1>11 DEF RInv, IInv, TypeOK, RunsOK, PersistResponse, HasOperation
  <2>2. o.outcome = "REJECTED" => RefusedAtSource(Of(w))
    BY <1>1, <2>1 DEF Operation, RunKnows
  <2>3. work' = [work EXCEPT ![w] =
                   [@ EXCEPT !.pc = "BEGIN", !.flow = "CONFIRM", !.seen = o,
                             !.read = "NONE", !.eval = "NONE", !.note = "NONE"]]
    BY <1>11 DEF PersistResponse
  <2> HIDE DEF o
  <2>4. /\ work'[w].pc = "BEGIN" /\ work'[w].note = "NONE"
        /\ work'[w].seen = o /\ work'[w].job = work[w].job
    BY <1>1, <2>3 DEF Run
  <2>5. RefusedAtSource(Of(w)) => RefusedAtSource(Of(w))'
    <3>1. \A p : RefusedAtSource(p) => RefusedAtSource(p)'
      BY RefusalStands DEF RInv
    <3>2. Of(w)' = Of(w)
      BY <2>4 DEF Of
    <3> QED
      BY <3>1, <3>2
  <2> QED
    BY <2>2, <2>4, <2>5 DEF RunKnows
<1>12. CASE Lookup(w)
  <2>1. PICK n : /\ work' = [work EXCEPT ![w] = [@ EXCEPT !.pc = "SETTLE", !.note = n]]
                 /\ n = "REFUSED" => ledger[Of(w)] = "REFUSED"
    BY <1>12 DEF Lookup
  <2>2. /\ work'[w].pc = "SETTLE" /\ work'[w].note = n
        /\ work'[w].job = work[w].job /\ work'[w].seen = work[w].seen
    BY <1>1, <2>1 DEF Run
  <2>3. Of(w) \in Proposal /\ UNCHANGED ledger
    BY <1>12 DEF RInv, IInv, RunsOK, Lookup, HasOperation, source
  <2>4. n = "REFUSED" => RefusedAtSource(Of(w))'
    BY <2>1, <2>2, <2>3 DEF RefusedAtSource, Of, Proposal
  <2> QED
    BY <2>2, <2>4, GoesOnKnowing
<1>13. CASE EndRun(w) \/ Crash(w)
  BY <1>1, <1>13 DEF EndRun, Crash, Idle, NoOp, RunKnows
<1> QED
  BY <1>2, <1>3, <1>4, <1>5, <1>6, <1>7, <1>8, <1>9, <1>10, <1>11, <1>12, <1>13
  DEF Progress

\* Only a persisted response makes an outcome a refusal.
LEMMA OutcomesStep ==
    ASSUME RInv, [Next]_vars, NEW p \in Proposal, op'[p].outcome = "REJECTED"
    PROVE  RefusedAtSource(p)'
<1>1. op \in [Proposal -> Operation] /\ op[p] \in Operation
  BY DEF RInv, IInv, TypeOK
<1>2. \/ op[p].outcome = "REJECTED"
      \/ \E w \in Worker : /\ PersistResponse(w) /\ Of(w) = p
                           /\ work[w].note = "REJECTED"
  <2>1. CASE UNCHANGED op
    BY <2>1
  <2>2. ASSUME NEW w \in Worker, Prepare(w) PROVE <1>2
    BY <1>1, <2>2 DEF Prepare, NoOp
  <2>3. ASSUME NEW w \in Worker, CloseBeforeDispatch(w) PROVE <1>2
    BY <1>1, <2>3 DEF CloseBeforeDispatch, Operation
  <2>4. ASSUME NEW w \in Worker, ReservationRefused(w) PROVE <1>2
    BY <1>1, <2>4 DEF ReservationRefused, Operation
  <2>5. ASSUME NEW w \in Worker, Reserve(w) PROVE <1>2
    BY <1>1, <2>5 DEF Reserve, Operation
  <2>6. ASSUME NEW w \in Worker, PersistResponse(w) PROVE <1>2
    BY <1>1, <2>6 DEF PersistResponse, Operation
  <2>7. ASSUME NEW w \in Worker, Resolve(w) PROVE <1>2
    BY <1>1, <2>7 DEF Resolve, Operation
  <2>8. ASSUME NEW w \in Worker, Wait(w) PROVE <1>2
    BY <1>1, <2>8 DEF Wait, Operation
  <2> QED
    BY <2>1, <2>2, <2>3, <2>4, <2>5, <2>6, <2>7, <2>8, OperationWrites
<1>3. RefusedAtSource(p)
  BY <1>2 DEF RInv, OutcomesOK, RunKnows, PersistResponse
<1> QED
  BY <1>3, RefusalStands DEF RInv

LEMMA NextRInv == "denied" \notin Env => (RInv /\ [Next]_vars => RInv')
<1> SUFFICES ASSUME "denied" \notin Env, RInv, [Next]_vars PROVE RInv'
  OBVIOUS
<1>1. IInv'
  BY NextIInv DEF RInv
<1>2. OutcomesOK'
  BY OutcomesStep DEF OutcomesOK, Proposal
<1>3. ASSUME NEW v \in Worker PROVE RunKnows(v)'
  <2>1. CASE work'[v] = work[v]
    BY <2>1, OthersKnow
  <2>2. CASE Progress(v) \/ Crash(v)
    BY <2>2, OwnStepKnows
  <2>3. ASSUME NEW w \in Worker \ {v}, Progress(w) \/ Crash(w)
        PROVE  work'[v] = work[v]
    BY <2>3, OnlyReserveSendsRuns DEF RInv
  <2>4. \/ \E w \in Worker : Progress(w) \/ Crash(w)
        \/ UNCHANGED work
    BY DEF Next, Steady, Maintenance, Command, vars, ReclaimLease, ExpireProposals,
           EnsureReconciliationQueued, Decide, QueueCompetingRecovery, PauseWrites,
           ResumeWrites, CreatePolicyVersion, RetireTask, WithdrawRequest,
           MoveConnection, RequestRecheck, LateDelivery, ProposalExpires,
           CutoffPasses, SourceChanges
  <2> QED
    BY <2>1, <2>2, <2>3, <2>4
<1> QED
  BY <1>1, <1>2, <1>3 DEF RInv
-----------------------------------------------------------------------------
LEMMA InitRefines == Init => Writes!Init
<1> SUFFICES ASSUME Init PROVE Writes!Init
  OBVIOUS
<1>1. Grants = {}
  BY DEF Init, Grants
<1>2. Reports = [p \in Proposal |-> "NONE"]
  BY DEF Init, Reports, Report, Closing, NoOp
<1>3. Dispatches = [p \in Proposal |-> 0]
  BY DEF Init, Dispatches, NoOp
<1>4. ledger = [p \in Proposal |-> "NONE"]
  BY DEF Init
<1> QED
  BY <1>1, <1>2, <1>3, <1>4 DEF Writes!Init

\* A step that changes one operation changes one report and one count.
LEMMA OneOperation ==
    ASSUME op \in [Proposal -> Operation], NEW p \in Proposal,
           NEW o, op' = [op EXCEPT ![p] = o],
           NEW c, Report(p)' = c
    PROVE  /\ Reports' = [Reports EXCEPT ![p] = c]
           /\ Dispatches' = [Dispatches EXCEPT ![p] = o.count]
<1>1. op'[p] = o /\ \A q \in Proposal \ {p} : op'[q] = op[q]
  OBVIOUS
<1>2. \A q \in Proposal \ {p} : Report(q)' = Report(q)
  BY <1>1 DEF Report, Closing
<1>3. Reports' = [q \in Proposal |-> IF q = p THEN c ELSE Report(q)]
  BY <1>2 DEF Reports, Proposal
<1>4. Dispatches' = [q \in Proposal |-> IF q = p THEN o.count ELSE op[q].count]
  BY <1>1 DEF Dispatches, Proposal
<1> QED
  BY <1>3, <1>4 DEF Reports, Dispatches

\* A step that keeps decisions, reports, counts and the ledger stutters.
LEMMA Stutter ==
    ASSUME UNCHANGED <<decision, op, ledger>>
    PROVE  UNCHANGED Writes!vars
BY DEF Writes!vars, Grants, Reports, Report, Closing, Dispatches, Proposal

LEMMA PrepareRefines ==
    ASSUME RInv, NEW w \in Worker, Prepare(w)
    PROVE  Writes!Next \/ UNCHANGED Writes!vars
<1>1. CASE ~Preparable(Of(w))
  BY <1>1, Stutter DEF Prepare, source
<1>2. CASE Preparable(Of(w))
  <2> DEFINE o == [NoOp EXCEPT !.state = "PREPARED"]
  <2>0. Of(w) \in Proposal
    BY DEF RInv, IInv, RunsOK, Prepare
  <2> PICK p \in Proposal : p = Of(w)
    BY <2>0
  <2>1. op \in [Proposal -> Operation]
    BY DEF RInv, IInv, TypeOK
  <2>2. /\ op[p].state = "NONE" /\ Unresolved = {}
        /\ decision[p] \in {"APPROVE", "AUTO_POLICY"}
        /\ op' = [op EXCEPT ![p] = o] /\ UNCHANGED <<decision, ledger>>
    BY <1>2 DEF Preparable, Prepare, source
  <2>3. o.state = "PREPARED" /\ o.count = 0 /\ ~o.resolved
    BY DEF NoOp
  <2> HIDE DEF o
  <2>4. Report(p)' = "OPEN"
    BY <2>1, <2>2, <2>3 DEF Report, Closing
  <2>5. /\ Reports' = [Reports EXCEPT ![p] = "OPEN"]
        /\ Dispatches' = [Dispatches EXCEPT ![p] = 0]
    BY <2>1, <2>2, <2>3, <2>4, OneOperation
  <2>6. op[p].count = 0 /\ Report(p) = "NONE"
    BY <2>1, <2>2 DEF RInv, IInv, OperationsOK, Report, Closing
  <2>7. Dispatches' = Dispatches
    BY <2>1, <2>5, <2>6 DEF Dispatches
  <2>8. \A q \in Proposal : Report(q) # "OPEN"
    BY <2>2 DEF Unresolved, Report, Closing
  <2>9. Writes!Open(p)
    BY <2>1, <2>2, <2>5, <2>6, <2>7, <2>8 DEF Writes!Open, Grants, Reports
  <2> QED
    BY <2>1, <2>9 DEF Writes!Next
<1> QED
  BY <1>1, <1>2

LEMMA ReserveRefines ==
    ASSUME RInv, NEW w \in Worker, Reserve(w)
    PROVE  Writes!Next
<1>0. Of(w) \in Proposal
  BY DEF RInv, IInv, RunsOK, Reserve, HasOperation
<1> PICK p \in Proposal : p = Of(w)
  BY <1>0
<1> DEFINE o == [op[p] EXCEPT !.state = "DISPATCHED", !.count = op[p].count + 1]
<1>1. /\ op \in [Proposal -> Operation] /\ op[p] \in Operation
      /\ op[p].state # "NONE"
  BY DEF RInv, IInv, TypeOK, RunsOK, Reserve, HasOperation
<1>2. /\ ~op[p].resolved /\ op[p].count < MaxDispatches
      /\ op' = [op EXCEPT ![p] = o] /\ UNCHANGED <<decision, ledger>>
  BY DEF Reserve, Reservable, proposals, source
<1>3. o.state = "DISPATCHED" /\ o.count = op[p].count + 1 /\ ~o.resolved
  BY <1>1, <1>2, Counted
<1> HIDE DEF o
<1>4. Report(p) = "OPEN" /\ Report(p)' = "OPEN"
  BY <1>1, <1>2, <1>3 DEF Report, Closing
<1>5. /\ Reports' = [Reports EXCEPT ![p] = "OPEN"]
      /\ Dispatches' = [Dispatches EXCEPT ![p] = op[p].count + 1]
  <2>1. /\ Reports' = [Reports EXCEPT ![p] = "OPEN"]
        /\ Dispatches' = [Dispatches EXCEPT ![p] = o.count]
    BY <1>1, <1>2, <1>4, OneOperation
  <2> QED
    BY <1>3, <2>1
<1>6. Reports' = Reports /\ Reports[p] = "OPEN" /\ Dispatches[p] = op[p].count
  BY <1>1, <1>4, <1>5 DEF Reports, Dispatches
<1>7. Writes!Attempt(p)
  BY <1>2, <1>5, <1>6 DEF Writes!Attempt, Grants
<1> QED
  BY <1>1, <1>7 DEF Writes!Next

\* An open operation is closed with its dispatches and its refusal as they are.
LEMMA CloseRefines ==
    ASSUME RInv, NEW p \in Proposal, NEW o \in Operation,
           op' = [op EXCEPT ![p] = o], UNCHANGED <<decision, ledger>>,
           op[p].state # "NONE", ~op[p].resolved,
           o.state # "NONE", o.resolved, o.count = op[p].count,
           o.count > 0 /\ o.attribution = "NONE" => ledger[p] = "REFUSED"
    PROVE  Writes!Next
<1> DEFINE c == Report(p)'
<1>1. /\ op \in [Proposal -> Operation] /\ op'[p] = o
      /\ o.count \in Nat /\ op[p].count \in Nat
  BY RecoveryAssumption DEF RInv, IInv, TypeOK, Operation
<1>2. /\ c \in Writes!Closings /\ (c = "UNSENT" <=> o.count = 0)
      /\ c = "REFUSED" => ledger[p] = "REFUSED"
  <2>1. o.attribution \in {"PROOFWORK", "UNATTRIBUTED", "NONE"}
    BY DEF Operation
  <2>2. c = IF o.count = 0 THEN "UNSENT"
            ELSE IF o.attribution = "PROOFWORK" THEN "APPLIED"
            ELSE IF o.attribution = "UNATTRIBUTED" THEN "EXTERNAL" ELSE "REFUSED"
    BY <1>1 DEF Report, Closing
  <2> QED
    BY <1>1, <2>1, <2>2 DEF Writes!Closings
<1> HIDE DEF c
<1>3. Report(p) = "OPEN"
  BY DEF Report, Closing
<1>4. /\ Reports' = [Reports EXCEPT ![p] = c]
      /\ Dispatches' = [Dispatches EXCEPT ![p] = o.count]
  BY <1>1, OneOperation DEF c
<1>5. Dispatches' = Dispatches /\ Dispatches[p] = o.count /\ Reports[p] = "OPEN"
  BY <1>3, <1>4 DEF Dispatches, Reports
<1>6. Writes!Close(p)
  BY <1>2, <1>4, <1>5 DEF Writes!Close, Grants
<1> QED
  BY <1>6 DEF Writes!Next

\* An operation whose report and count stay is not seen in the write ledger.
LEMMA SameReport ==
    ASSUME RInv, NEW p \in Proposal, NEW o, op' = [op EXCEPT ![p] = o],
           UNCHANGED <<decision, ledger>>,
           o.count = op[p].count, o.resolved = op[p].resolved,
           o.attribution = op[p].attribution,
           o.state = "NONE" <=> op[p].state = "NONE"
    PROVE  UNCHANGED Writes!vars
<1>1. op \in [Proposal -> Operation] /\ op'[p] = o
  BY DEF RInv, IInv, TypeOK
<1>2. Report(p)' = Report(p)
  BY <1>1 DEF Report, Closing
<1>3. /\ Reports' = [Reports EXCEPT ![p] = Report(p)]
      /\ Dispatches' = [Dispatches EXCEPT ![p] = o.count]
  BY <1>1, <1>2, OneOperation
<1>4. Reports' = Reports /\ Dispatches' = Dispatches
  BY <1>3 DEF Reports, Dispatches
<1> QED
  BY <1>4 DEF Writes!vars, Grants

\* An operation that was never dispatched is closed as unsent, or is already.
LEMMA BlockedRefines ==
    ASSUME RInv, NEW p \in Proposal, op[p].state # "NONE", op[p].count = 0,
           op' = [op EXCEPT ![p].state = "BLOCKED", ![p].resolved = TRUE],
           UNCHANGED <<decision, ledger>>
    PROVE  Writes!Next \/ UNCHANGED Writes!vars
<1> DEFINE o == [op[p] EXCEPT !.state = "BLOCKED", !.resolved = TRUE]
<1>1. op \in [Proposal -> Operation] /\ op[p] \in Operation
  BY DEF RInv, IInv, TypeOK
<1>2. op' = [op EXCEPT ![p] = o]
  BY <1>1
<1>3. /\ o \in Operation /\ o.state = "BLOCKED" /\ o.count = 0 /\ o.resolved
      /\ o.attribution = op[p].attribution /\ o.resolved = TRUE
  BY <1>1, Closed DEF Operation
<1> HIDE DEF o
<1>4. CASE op[p].resolved
  <2>1. o.resolved = op[p].resolved
    BY <1>1, <1>3, <1>4 DEF Operation
  <2> QED
    BY <1>2, <1>3, <2>1, SameReport
<1>5. CASE ~op[p].resolved
  <2>1. o.state # "NONE" /\ o.count = op[p].count /\ ~(o.count > 0)
    BY <1>3
  <2> QED
    BY <1>2, <1>3, <1>5, <2>1, CloseRefines
<1> QED
  BY <1>4, <1>5

LEMMA CloseBeforeDispatchRefines ==
    ASSUME RInv, NEW w \in Worker, CloseBeforeDispatch(w)
    PROVE  Writes!Next \/ UNCHANGED Writes!vars
<1>1. /\ Of(w) \in Proposal /\ op[Of(w)].state # "NONE"
      /\ UNCHANGED <<decision, ledger>>
  BY DEF RInv, IInv, RunsOK, CloseBeforeDispatch, HasOperation, proposals, source
<1>2. CASE op[Of(w)].count = 0
  BY <1>1, <1>2, BlockedRefines DEF CloseBeforeDispatch
<1>3. CASE op[Of(w)].count # 0
  BY <1>1, <1>3, Stutter DEF CloseBeforeDispatch
<1> QED
  BY <1>2, <1>3

LEMMA ReservationRefusedRefines ==
    ASSUME RInv, NEW w \in Worker, ReservationRefused(w)
    PROVE  Writes!Next \/ UNCHANGED Writes!vars
<1>1. /\ Of(w) \in Proposal /\ op[Of(w)].state # "NONE"
      /\ UNCHANGED <<decision, ledger>>
  BY DEF RInv, IInv, RunsOK, ReservationRefused, HasOperation, proposals, source
<1>2. CASE op[Of(w)].count = 0 /\ ~op[Of(w)].resolved
  BY <1>1, <1>2, BlockedRefines DEF ReservationRefused
<1>3. CASE ~(op[Of(w)].count = 0 /\ ~op[Of(w)].resolved)
  BY <1>1, <1>3, Stutter DEF ReservationRefused
<1> QED
  BY <1>2, <1>3

LEMMA PersistResponseRefines ==
    ASSUME RInv, NEW w \in Worker, PersistResponse(w)
    PROVE  UNCHANGED Writes!vars
<1> DEFINE a == work[w].note
           t == IF a = "UNCERTAIN" THEN "OUTCOME_UNKNOWN" ELSE "AWAITING_VERIFICATION"
           u == IF a = "ACCEPTED" THEN "CLEAN" ELSE a
           o == [op[Of(w)] EXCEPT !.state = t, !.outcome = u]
<1>1. /\ Of(w) \in Proposal /\ op[Of(w)] \in Operation
      /\ op[Of(w)].state # "NONE" /\ UNCHANGED <<decision, ledger>>
  BY DEF RInv, IInv, TypeOK, RunsOK, PersistResponse, HasOperation, proposals, source
<1>2. op' = [op EXCEPT ![Of(w)] = o]
  BY DEF PersistResponse
<1>3. t # "NONE"
  OBVIOUS
<1> HIDE DEF t, u
<1>4. /\ o.count = op[Of(w)].count /\ o.resolved = op[Of(w)].resolved
      /\ o.attribution = op[Of(w)].attribution /\ o.state # "NONE"
  BY <1>1, <1>3 DEF Operation
<1> HIDE DEF o
<1> QED
  BY <1>1, <1>2, <1>4, SameReport

LEMMA WaitRefines ==
    ASSUME RInv, NEW w \in Worker, Wait(w)
    PROVE  UNCHANGED Writes!vars
<1>1. /\ Of(w) \in Proposal /\ op[Of(w)] \in Operation
      /\ op[Of(w)].state # "NONE" /\ UNCHANGED <<decision, ledger>>
  BY DEF RInv, IInv, TypeOK, RunsOK, Wait, HasOperation, proposals, source
<1>2. CASE op' = op
  BY <1>1, <1>2, Stutter
<1>3. CASE op' # op
  <2> DEFINE o == [op[Of(w)] EXCEPT !.state = "OUTCOME_UNKNOWN", !.escalated = TRUE]
  <2>1. op' = [op EXCEPT ![Of(w)] = o]
    BY <1>3 DEF Wait
  <2>2. /\ o.count = op[Of(w)].count /\ o.resolved = op[Of(w)].resolved
        /\ o.attribution = op[Of(w)].attribution /\ o.state = "OUTCOME_UNKNOWN"
    BY <1>1 DEF Operation
  <2> HIDE DEF o
  <2> QED
    BY <1>1, <2>1, <2>2, SameReport
<1> QED
  BY <1>2, <1>3

\* A failure is only confirmed from a refusal that is in the source's ledger.
LEMMA ResolveRefines ==
    ASSUME RInv, NEW w \in Worker, Resolve(w)
    PROVE  Writes!Next \/ UNCHANGED Writes!vars
<1>1. /\ Of(w) \in Proposal /\ op[Of(w)] \in Operation
      /\ op[Of(w)].state # "NONE" /\ UNCHANGED <<decision, ledger>>
  BY DEF RInv, IInv, TypeOK, RunsOK, Resolve, HasOperation, proposals, source
<1>2. CASE op[Of(w)].resolved
  BY <1>1, <1>2, Stutter DEF Resolve
<1>3. CASE ~op[Of(w)].resolved
  <2>1. PICK s \in Resolutions(w) \cap FinalStates :
           op' = [op EXCEPT ![Of(w)] =
                    [@ EXCEPT !.state = s, !.resolved = TRUE,
                              !.attribution =
                                CASE s = "VERIFIED" -> "PROOFWORK"
                                  [] s = "RESOLVED_EXTERNALLY" -> "UNATTRIBUTED"
                                  [] OTHER -> "NONE"]]
    BY <1>3 DEF Resolve
  <2> DEFINE t == CASE s = "VERIFIED" -> "PROOFWORK"
                    [] s = "RESOLVED_EXTERNALLY" -> "UNATTRIBUTED"
                    [] OTHER -> "NONE"
  <2>2. s \in {"VERIFIED", "RESOLVED_EXTERNALLY", "FAILED_CONFIRMED"}
    BY DEF Resolutions, FinalStates
  <2>3. /\ t \in {"PROOFWORK", "UNATTRIBUTED", "NONE"}
        /\ t = "NONE" => s = "FAILED_CONFIRMED"
    BY <2>2, Zenon
  <2>4. s = "FAILED_CONFIRMED" => RefusedAtSource(Of(w))
    <3>1. RunKnows(w) /\ work[w].pc = "SETTLE"
      BY DEF RInv, Resolve
    <3> QED
      BY <3>1 DEF Resolutions, Refused, RunKnows
  <2> HIDE DEF t
  <2> DEFINE o == [op[Of(w)] EXCEPT !.state = s, !.resolved = TRUE, !.attribution = t]
  <2>5. op' = [op EXCEPT ![Of(w)] = o]
    BY <2>1 DEF t
  <2>6. /\ o \in Operation /\ o.state = s /\ o.resolved
        /\ o.count = op[Of(w)].count /\ o.attribution = t
    BY <1>1, <2>2, <2>3 DEF Operation, FinalStates
  <2> HIDE DEF o
  <2>7. o.count > 0 /\ o.attribution = "NONE" => ledger[Of(w)] = "REFUSED"
    BY <2>3, <2>4, <2>6 DEF RefusedAtSource
  <2>8. o.state # "NONE"
    BY <2>2, <2>6
  <2> QED
    BY <1>1, <1>3, <2>5, <2>6, <2>7, <2>8, CloseRefines
<1> QED
  BY <1>2, <1>3

\* The source handles a request of an operation that was counted.
LEMMA HandlesRefines ==
    ASSUME RInv, NEW p \in Proposal, Handles(p), op[p].count > 0,
           UNCHANGED <<decision, op>>
    PROVE  Writes!Next \/ UNCHANGED Writes!vars
<1>1. CASE UNCHANGED ledger
  BY <1>1, Stutter
<1>2. CASE ledger' # ledger
  <2>1. /\ ledger[p] = "NONE"
        /\ \E e \in {"APPLIED", "REFUSED"} : ledger' = [ledger EXCEPT ![p] = e]
    BY <1>2 DEF Handles
  <2>2. Dispatches[p] > 0
    BY DEF Dispatches
  <2>3. UNCHANGED <<Grants, Reports, Dispatches>>
    BY DEF Grants, Reports, Report, Closing, Dispatches, Proposal
  <2>4. Writes!TakeEffect(p)
    BY <2>1, <2>2, <2>3 DEF Writes!TakeEffect
  <2> QED
    BY <2>4 DEF Writes!Next
<1> QED
  BY <1>1, <1>2

\* A person's or a policy's approval is a grant.
LEMMA DecisionRefines ==
    ASSUME RInv, NEW p \in Proposal, NEW d, decision' = [decision EXCEPT ![p] = d],
           decision[p] \in {"APPROVE", "AUTO_POLICY"} => d \in {"APPROVE", "AUTO_POLICY"},
           UNCHANGED <<op, ledger>>
    PROVE  Writes!Next \/ UNCHANGED Writes!vars
<1>1. UNCHANGED <<Reports, Dispatches>>
  BY DEF Reports, Report, Closing, Dispatches, Proposal
<1>2. decision'[p] = d /\ \A q \in Proposal \ {p} : decision'[q] = decision[q]
  BY DEF RInv, IInv, TypeOK
<1>3. CASE d \in {"APPROVE", "AUTO_POLICY"} /\ p \notin Grants
  <2>1. Grants' = Grants \cup {p}
    BY <1>2, <1>3 DEF Grants, Proposal
  <2>2. Writes!Grant(p)
    BY <1>1, <1>3, <2>1 DEF Writes!Grant
  <2> QED
    BY <2>2 DEF Writes!Next
<1>4. CASE ~(d \in {"APPROVE", "AUTO_POLICY"} /\ p \notin Grants)
  <2>1. Grants' = Grants
    BY <1>2, <1>4 DEF Grants, Proposal
  <2> QED
    BY <1>1, <2>1 DEF Writes!vars
<1> QED
  BY <1>3, <1>4

\* A recorded evaluation grants at most the proposal it makes.
LEMMA RecordRefines ==
    ASSUME RInv, NEW w \in Worker, Record(w)
    PROVE  Writes!Next \/ UNCHANGED Writes!vars
<1>1. UNCHANGED <<op, ledger>>
  BY DEF Record, RecordFenced, RecordEvidence, RecordCandidate, source
<1>2. \/ UNCHANGED decision
      \/ \E p \in Proposal : decision' = [decision EXCEPT ![p] = "AUTO_POLICY"]
  <2>1. CASE RecordFenced(w) \/ RecordEvidence(w)
    BY <2>1 DEF RecordFenced, RecordEvidence, proposals
  <2>2. CASE RecordCandidate(w)
    <3>1. \/ UNCHANGED decision
          \/ \E s \in ProposalStatuses : Create(w, s)
      <4>1. PICK e \in Evaluations(w) :
              LET d == G!Gate(ProposalContext(w, e)) IN
              IF Reusable(w) THEN UNCHANGED <<prop, decision, job>>
              ELSE CASE d = "APPROVAL_REQUIRED" -> Create(w, "AWAITING_APPROVAL")
                     [] d = "EXECUTION_ALLOWED" -> Create(w, "AUTHORIZED")
                     [] d = "WRITES_PAUSED" -> Create(w, "BLOCKED")
                     [] OTHER -> prop' = Superseded /\ UNCHANGED <<decision, job>>
        BY <2>2, Zenon DEF RecordCandidate
      <4> DEFINE d == G!Gate(ProposalContext(w, e))
      <4>2. \/ UNCHANGED decision
            \/ Create(w, "AWAITING_APPROVAL") \/ Create(w, "AUTHORIZED")
            \/ Create(w, "BLOCKED")
        BY <4>1, Zenon
      <4> QED
        BY <4>2 DEF ProposalStatuses, LiveStatuses
    <3> QED
      BY <3>1 DEF Create, Insert, Unused
  <2> QED
    BY <2>1, <2>2 DEF Record
<1> QED
  BY <1>1, <1>2, DecisionRefines, Stutter

LEMMA ProgressRefines ==
    ASSUME RInv, NEW w \in Worker, Progress(w)
    PROVE  Writes!Next \/ UNCHANGED Writes!vars
<1>1. CASE \/ \E k \in JobKey : Lease(w, k)
           \/ Begin(w) \/ Read(w) \/ Gate(w) \/ HandleBlockedGate(w) \/ Send(w)
           \/ SourceDenies(w) \/ WriteTimesOut(w) \/ Lookup(w) \/ Retry(w)
           \/ EndRun(w)
  <2>1. UNCHANGED <<decision, op, ledger>>
    BY <1>1 DEF Lease, Begin, Read, Gate, HandleBlockedGate, Send, SourceDenies,
                WriteTimesOut, Lookup, Retry, EndRun, proposals, source
  <2> QED
    BY <2>1, Stutter
<1>2. CASE SourceAnswers(w)
  <2>1. Of(w) \in Proposal /\ op[Of(w)].count > 0
    BY <1>2 DEF RInv, IInv, RunsOK, SourceAnswers, HasOperation
  <2> QED
    BY <1>2, <2>1, HandlesRefines DEF SourceAnswers, proposals
<1> QED
  BY <1>1, <1>2, RecordRefines, PrepareRefines, CloseBeforeDispatchRefines,
     ReservationRefusedRefines, ReserveRefines, PersistResponseRefines,
     ResolveRefines, WaitRefines
  DEF Progress

LEMMA CommandRefines ==
    ASSUME RInv, Command
    PROVE  Writes!Next \/ UNCHANGED Writes!vars
<1>1. ASSUME NEW p \in Proposal, NEW d \in {"APPROVE", "REJECT"}, Decide(p, d)
      PROVE  Writes!Next \/ UNCHANGED Writes!vars
  BY <1>1, DecisionRefines DEF Decide, source
<1>2. CASE \/ \E p \in Proposal : QueueCompetingRecovery(p)
           \/ PauseWrites \/ ResumeWrites \/ CreatePolicyVersion \/ RetireTask
           \/ WithdrawRequest \/ MoveConnection \/ RequestRecheck
  <2>1. UNCHANGED <<decision, op, ledger>>
    BY <1>2 DEF QueueCompetingRecovery, PauseWrites, ResumeWrites,
       CreatePolicyVersion, RetireTask, WithdrawRequest, MoveConnection,
       RequestRecheck, proposals, source
  <2> QED
    BY <2>1, Stutter
<1> QED
  BY <1>1, <1>2 DEF Command

LEMMA NextRefines ==
    ASSUME RInv, [Next]_vars
    PROVE  [Writes!Next]_(Writes!vars)
<1>1. CASE \E p \in Proposal : LateDelivery(p)
  <2>1. PICK p \in Proposal : LateDelivery(p)
    BY <1>1
  <2>2. op[p].count > 0
    BY <2>1 DEF RInv, IInv, OperationsOK, LateDelivery
  <2> QED
    BY <2>1, <2>2, HandlesRefines DEF LateDelivery, proposals
<1>2. CASE \/ Maintenance \/ CutoffPasses \/ SourceChanges \/ UNCHANGED vars
           \/ \E p \in Proposal : ProposalExpires(p)
           \/ \E w \in Worker : Crash(w)
  <2>1. UNCHANGED <<decision, op, ledger>>
    BY <1>2 DEF Maintenance, ReclaimLease, ExpireProposals,
       EnsureReconciliationQueued, CutoffPasses, SourceChanges, ProposalExpires,
       Crash, vars, proposals, source
  <2> QED
    BY <2>1, Stutter
<1> QED
  BY <1>1, <1>2, ProgressRefines, CommandRefines DEF Next, Steady

\* The workers, the owner, the source and time implement the write ledger: an
\* intent is opened when it is authorized and alone, attempts are counted, a key
\* has one effect, and what is closed as unsent or refused was.
THEOREM RefinesWriteLedger ==
    ASSUME "denied" \notin Env
    PROVE  Spec => ImplementsWriteLedger
<1>1. RInv /\ [Next]_vars => RInv'
  BY NextRInv
<1>2. RInv /\ [Next]_vars => [Writes!Next]_(Writes!vars)
  BY NextRefines
<1> QED
  BY <1>1, <1>2, InitRInv, InitRefines, PTL DEF Spec, ImplementsWriteLedger, Writes!Spec
-----------------------------------------------------------------------------
\* Only a resolution makes an operation a failed one.
LEMMA FailuresStep ==
    ASSUME RInv, [Next]_vars, NEW p \in Proposal, op'[p].state = "FAILED_CONFIRMED",
           op[p].state # "FAILED_CONFIRMED"
    PROVE  RefusedAtSource(p)
<1>1. op \in [Proposal -> Operation] /\ op[p] \in Operation
  BY DEF RInv, IInv, TypeOK
<1>2. \E w \in Worker :
         /\ Of(w) = p /\ work[w].pc = "SETTLE"
         /\ "FAILED_CONFIRMED" \in Resolutions(w)
  <2>1. ASSUME NEW w \in Worker,
               \/ Prepare(w) \/ CloseBeforeDispatch(w) \/ ReservationRefused(w)
               \/ Reserve(w) \/ PersistResponse(w) \/ Wait(w)
        PROVE  FALSE
    <3>1. CASE Prepare(w)
      BY <1>1, <3>1 DEF Prepare, NoOp
    <3>2. CASE CloseBeforeDispatch(w)
      BY <1>1, <3>2 DEF CloseBeforeDispatch, Operation
    <3>3. CASE ReservationRefused(w)
      BY <1>1, <3>3 DEF ReservationRefused, Operation
    <3>4. CASE Reserve(w)
      BY <1>1, <3>4 DEF Reserve, Operation
    <3>5. CASE PersistResponse(w)
      BY <1>1, <3>5 DEF PersistResponse, Operation
    <3>6. CASE Wait(w)
      BY <1>1, <3>6 DEF Wait, Operation
    <3> QED
      BY <2>1, <3>1, <3>2, <3>3, <3>4, <3>5, <3>6
  <2>2. PICK w \in Worker : Resolve(w)
    BY <2>1, OperationWrites
  <2>3. PICK s \in Resolutions(w) :
           \/ UNCHANGED op
           \/ \E t : op' = [op EXCEPT ![Of(w)] =
                     [@ EXCEPT !.state = s, !.resolved = TRUE, !.attribution = t]]
    BY <2>2 DEF Resolve
  <2>4. PICK t : op' = [op EXCEPT ![Of(w)] =
                     [@ EXCEPT !.state = s, !.resolved = TRUE, !.attribution = t]]
    BY <2>3
  <2>5. Of(w) = p
    BY <1>1, <2>4
  <2>6. op'[p].state = s
    BY <1>1, <2>4, <2>5 DEF Operation
  <2>7. work[w].pc = "SETTLE"
    BY <2>2 DEF Resolve
  <2> QED
    BY <2>3, <2>5, <2>6, <2>7
<1>3. PICK w \in Worker : /\ Of(w) = p /\ work[w].pc = "SETTLE"
                          /\ "FAILED_CONFIRMED" \in Resolutions(w)
  BY <1>2
<1>4. RunKnows(w)
  BY DEF RInv
<1> QED
  BY <1>3, <1>4 DEF Resolutions, Refused, RunKnows

\* A write reported as failed was refused by the source, and the refusal stays in
\* its ledger, which a request still on its way finds.
THEOREM FailedNeverAppliedAlways ==
    ASSUME "denied" \notin Env
    PROVE  Spec => []FailedNeverApplied
<1> DEFINE FailuresOK ==
      \A p \in Proposal : op[p].state = "FAILED_CONFIRMED" => RefusedAtSource(p)
<1>1. Init => FailuresOK
  BY DEF Init, NoOp
<1>2. FailuresOK /\ RInv /\ [Next]_vars => FailuresOK'
  <2> SUFFICES ASSUME FailuresOK, RInv, [Next]_vars, NEW p \in Proposal,
                      op'[p].state = "FAILED_CONFIRMED"
               PROVE  RefusedAtSource(p)'
    BY DEF Proposal
  <2>1. RefusedAtSource(p)
    BY FailuresStep
  <2> QED
    BY <2>1, RefusalStands DEF RInv
<1>3. RInv /\ [Next]_vars => RInv'
  BY NextRInv
<1>4. FailuresOK => FailedNeverApplied
  BY DEF FailedNeverApplied, RefusedAtSource
<1> HIDE DEF FailuresOK
<1> QED
  BY <1>1, <1>2, <1>3, <1>4, InitRInv, PTL DEF Spec
-----------------------------------------------------------------------------
(***************************************************************************)
(* The jobs of a task are those of a keyed queue.                          *)
(***************************************************************************)

\* The runs that go on, and their jobs, are the same.
SameRuns ==
    \A v \in Worker :
        /\ work'[v].job = work[v].job
        /\ work'[v].pc = "IDLE" <=> work[v].pc = "IDLE"

\* No lease begins or ends.
SameLeases ==
    \A k \in JobKey :
        job'[k] # job[k] => job[k] \notin Worker /\ job'[k] \notin Worker

\* A leased job is not ready.
LEMMA ReadyApart ==
    TypeOK => ReadyKeys \subseteq JobKey /\ ReadyKeys \cap Keyed!Taken = {}
<1> SUFFICES ASSUME TypeOK, NEW k \in ReadyKeys, k \in Keyed!Taken PROVE FALSE
  BY DEF ReadyKeys
<1>1. PICK h \in HeldKeys : h[1] = k
  BY DEF Keyed!Taken
<1>2. PICK j \in JobKey : job[j] \in Worker /\ h = <<j, <<job[j], j>>>>
  BY DEF HeldKeys
<1> QED
  BY <1>1, <1>2, RecoveryAssumption DEF ReadyKeys

\* What neither takes, settles nor reclaims a job is a command, or nothing.
LEMMA QuietQueue ==
    ASSUME TypeOK', SameRuns, SameLeases
    PROVE  Keyed!Next
<1>1. (ReadyKeys \subseteq JobKey)' /\ (ReadyKeys \cap Keyed!Taken = {})'
  BY ReadyApart, PTL
<1>2. UNCHANGED HeldKeys
  BY DEF SameLeases, HeldKeys
<1>3. UNCHANGED GoingLeases
  BY DEF SameRuns, GoingLeases
<1> QED
  BY <1>1, <1>2, <1>3 DEF Keyed!Next, Keyed!Command, Keyed!Taken

LEMMA EnqueuedLeases ==
    ASSUME TypeOK, NEW k, job' = Enqueued(job, k) \/ job' = job
    PROVE  SameLeases
BY RecoveryAssumption DEF TypeOK, Enqueued, SameLeases

\* One run goes on with its job.
LEMMA OneRun ==
    ASSUME TypeOK, NEW w \in Worker, work[w].pc # "IDLE", NEW r,
           work' = [work EXCEPT ![w] = r], r.job = work[w].job, r.pc # "IDLE"
    PROVE  SameRuns
BY DEF TypeOK, SameRuns

LEMMA GotoRun ==
    ASSUME TypeOK, NEW w \in Worker, work[w].pc # "IDLE", NEW pc, pc # "IDLE",
           Goto(w, pc)
    PROVE  SameRuns
<1> DEFINE r == [work[w] EXCEPT !.pc = pc]
<1>1. r.job = work[w].job /\ r.pc = pc
  BY DEF TypeOK, Run
<1>2. work' = [work EXCEPT ![w] = r]
  BY DEF Goto
<1> HIDE DEF r
<1> QED
  BY <1>1, <1>2, OneRun

LEMMA RecordedRun ==
    ASSUME TypeOK, NEW w \in Worker, work[w].pc = "RECORD", NEW e, Recorded(w, e)
    PROVE  SameRuns
<1> DEFINE r == [work[w] EXCEPT !.pc = AfterRecord(w, e), !.eval = e]
<1>1. AfterRecord(w, e) # "IDLE"
  BY DEF AfterRecord
<1>2. r.job = work[w].job /\ r.pc = AfterRecord(w, e)
  BY DEF TypeOK, Run
<1>3. work' = [work EXCEPT ![w] = r]
  BY DEF Recorded
<1> HIDE DEF r
<1> QED
  BY <1>1, <1>2, <1>3, OneRun

\* The run's answer to what it asked, at its next place.
LEMMA AnswerRun ==
    ASSUME TypeOK, NEW w \in Worker, work[w].pc # "IDLE", NEW pc, pc # "IDLE", NEW a,
           \/ work' = [work EXCEPT ![w] = [@ EXCEPT !.pc = pc, !.note = a]]
           \/ work' = [work EXCEPT ![w] = [@ EXCEPT !.pc = pc, !.read = a]]
           \/ work' = [work EXCEPT ![w] = [@ EXCEPT !.pc = pc, !.seen = a]]
    PROVE  SameRuns
<1> DEFINE noted == [work[w] EXCEPT !.pc = pc, !.note = a]
           read == [work[w] EXCEPT !.pc = pc, !.read = a]
           seen == [work[w] EXCEPT !.pc = pc, !.seen = a]
<1>1. /\ noted.job = work[w].job /\ noted.pc = pc
      /\ read.job = work[w].job /\ read.pc = pc
      /\ seen.job = work[w].job /\ seen.pc = pc
  BY DEF TypeOK, Run
<1>2. \/ work' = [work EXCEPT ![w] = noted]
      \/ work' = [work EXCEPT ![w] = read]
      \/ work' = [work EXCEPT ![w] = seen]
  OBVIOUS
<1> HIDE DEF noted, read, seen
<1> QED
  BY <1>1, <1>2, OneRun

LEMMA RecordQueue ==
    ASSUME TypeOK, NEW w \in Worker, Record(w)
    PROVE  SameRuns /\ SameLeases
<1>1. CASE RecordFenced(w)
  BY <1>1, RecordedRun, EnqueuedLeases DEF RecordFenced, queue
<1>2. CASE RecordEvidence(w)
  <2>1. PICK e : job' \in FollowUps(w, e) /\ Recorded(w, e)
    BY <1>2 DEF RecordEvidence
  <2>2. SameLeases
    BY <2>1, EnqueuedLeases DEF FollowUps
  <2> QED
    BY <1>2, <2>1, <2>2, RecordedRun DEF RecordEvidence
<1>3. CASE RecordCandidate(w)
  <2>1. PICK e : Recorded(w, e)
    BY <1>3 DEF RecordCandidate
  <2>2. \E k : job' = Enqueued(job, k) \/ job' = job
    BY <1>3 DEF RecordCandidate, Create, Insert
  <2> QED
    BY <1>3, <2>1, <2>2, RecordedRun, EnqueuedLeases DEF RecordCandidate
<1> QED
  BY <1>1, <1>2, <1>3 DEF Record

LEMMA HandlerQueue ==
    ASSUME TypeOK, NEW w \in Worker,
           \/ Begin(w) \/ Read(w) \/ Gate(w) \/ HandleBlockedGate(w) \/ Prepare(w)
           \/ CloseBeforeDispatch(w) \/ ReservationRefused(w) \/ Reserve(w)
           \/ Send(w) \/ Resolve(w) \/ Retry(w) \/ Wait(w)
    PROVE  SameRuns /\ SameLeases
<1>1. CASE Begin(w)
  BY <1>1, GotoRun, EnqueuedLeases DEF Begin, queue
<1>2. CASE Read(w)
  BY <1>2, AnswerRun, EnqueuedLeases DEF Read, queue
<1>3. CASE Gate(w)
  <2>1. PICK pc \in {"PREPARE", "BLOCKED"} : \E d :
           work' = [work EXCEPT ![w] = [@ EXCEPT !.pc = pc, !.note = d]]
    BY <1>3 DEF Gate
  <2>2. PICK d : work' = [work EXCEPT ![w] = [@ EXCEPT !.pc = pc, !.note = d]]
    BY <2>1
  <2> QED
    BY <1>3, <2>2, AnswerRun, EnqueuedLeases DEF Gate, queue
<1>4. CASE HandleBlockedGate(w)
  <2>1. \E k : job' = Enqueued(job, k) \/ job' = job
    BY <1>4 DEF HandleBlockedGate
  <2> QED
    BY <1>4, <2>1, GotoRun, EnqueuedLeases DEF HandleBlockedGate
<1>5. CASE Prepare(w)
  <2>1. \/ Goto(w, "DONE")
        \/ \E a : work' = [work EXCEPT ![w] = [@ EXCEPT !.pc = "RESERVE", !.seen = a]]
    BY <1>5 DEF Prepare
  <2>2. SameRuns
    <3>1. work[w].pc # "IDLE"
      BY <1>5 DEF Prepare
    <3>2. ASSUME NEW a, work' = [work EXCEPT ![w] = [@ EXCEPT !.pc = "RESERVE",
                                                              !.seen = a]]
          PROVE  SameRuns
      BY <3>1, <3>2, AnswerRun
    <3> QED
      BY <2>1, <3>1, <3>2, GotoRun
  <2> QED
    BY <1>5, <2>2, EnqueuedLeases DEF Prepare, queue
<1>6. CASE CloseBeforeDispatch(w) \/ Reserve(w) \/ Resolve(w) \/ Retry(w)
  BY <1>6, GotoRun, EnqueuedLeases
  DEF CloseBeforeDispatch, Reserve, Resolve, Retry, queue
<1>7. CASE ReservationRefused(w)
  BY <1>7, GotoRun, EnqueuedLeases DEF ReservationRefused
<1>8. CASE Send(w)
  BY <1>8, GotoRun, EnqueuedLeases DEF Send
<1>9. CASE Wait(w)
  BY <1>9, GotoRun, EnqueuedLeases DEF Wait
<1> QED
  BY <1>1, <1>2, <1>3, <1>4, <1>5, <1>6, <1>7, <1>8, <1>9

LEMMA WriteQueue ==
    ASSUME TypeOK, NEW w \in Worker,
           \/ SourceAnswers(w) \/ SourceDenies(w) \/ WriteTimesOut(w)
           \/ PersistResponse(w) \/ Lookup(w)
    PROVE  SameRuns /\ SameLeases
<1>1. UNCHANGED job
  BY DEF SourceAnswers, SourceDenies, WriteTimesOut, PersistResponse, Lookup, queue
<1>2. CASE SourceAnswers(w)
  <2>1. PICK a : work' = [work EXCEPT ![w] = [@ EXCEPT !.pc = "PERSIST", !.note = a]]
    BY <1>2 DEF SourceAnswers
  <2> QED
    BY <1>1, <1>2, <2>1, AnswerRun, EnqueuedLeases DEF SourceAnswers
<1>3. CASE SourceDenies(w) \/ WriteTimesOut(w)
  <2>1. PICK a : work' = [work EXCEPT ![w] = [@ EXCEPT !.pc = "PERSIST", !.note = a]]
    BY <1>3 DEF SourceDenies, WriteTimesOut
  <2>2. SameRuns
    BY <1>3, <2>1, AnswerRun DEF SourceDenies, WriteTimesOut
  <2> QED
    BY <1>1, <2>2, EnqueuedLeases
<1>4. CASE PersistResponse(w)
  <2>1. PICK new : work' = [work EXCEPT ![w] =
            [@ EXCEPT !.pc = "BEGIN", !.flow = "CONFIRM", !.seen = new,
                      !.read = "NONE", !.eval = "NONE", !.note = "NONE"]]
    BY <1>4 DEF PersistResponse
  <2> DEFINE r == [work[w] EXCEPT
            !.pc = "BEGIN", !.flow = "CONFIRM", !.seen = new, !.read = "NONE",
            !.eval = "NONE", !.note = "NONE"]
  <2>2. r.job = work[w].job /\ r.pc = "BEGIN"
    BY DEF TypeOK, Run
  <2>3. work' = [work EXCEPT ![w] = r]
    BY <2>1
  <2> HIDE DEF r
  <2>4. SameRuns
    BY <1>4, <2>2, <2>3, OneRun DEF PersistResponse
  <2> QED
    BY <1>1, <2>4, EnqueuedLeases
<1>5. CASE Lookup(w)
  <2>1. PICK a : work' = [work EXCEPT ![w] = [@ EXCEPT !.pc = "SETTLE", !.note = a]]
    BY <1>5 DEF Lookup
  <2> QED
    BY <1>1, <1>5, <2>1, AnswerRun, EnqueuedLeases DEF Lookup
<1> QED
  BY <1>2, <1>3, <1>4, <1>5

\* A worker that is idle has no run, and no lease of a ready job.
LEMMA LeaseQueue ==
    ASSUME TypeOK, NEW w \in Worker, NEW k \in JobKey, Lease(w, k)
    PROVE  Keyed!Next
<1> USE RecoveryAssumption
<1> DEFINE l == <<w, k>>
<1>1. /\ work[w].pc = "IDLE" /\ job[k] = "READY"
      /\ job' = [job EXCEPT ![k] = w]
  BY DEF Lease
<1>2. PICK pc, flow : pc # "IDLE" /\ Start(w, k, pc, flow)
  BY DEF Lease, StartVerification, StartRecovery, StartOperation
<1>3. /\ \A v \in Worker \ {w} : work'[v] = work[v]
      /\ work'[w].pc # "IDLE" /\ work'[w].job = k
  BY <1>2 DEF Start, TypeOK
<1>4. k \in ReadyKeys /\ ReadyKeys' = ReadyKeys \ {k}
  BY <1>1 DEF TypeOK, ReadyKeys
<1>5. HeldKeys' = HeldKeys \cup {<<k, l>>}
  BY <1>1 DEF TypeOK, HeldKeys
<1>6. GoingLeases' = GoingLeases \cup {l}
  BY <1>1, <1>3 DEF GoingLeases
<1>7. l \notin GoingLeases
  BY <1>1 DEF GoingLeases
<1>8. l \notin {h[2] : h \in HeldKeys}
  <2> SUFFICES ASSUME NEW h \in HeldKeys PROVE h[2] # l
    OBVIOUS
  <2>1. PICK j \in JobKey : job[j] \in Worker /\ h = <<j, <<job[j], j>>>>
    BY DEF HeldKeys
  <2> QED
    BY <1>1, <2>1
<1>9. l \in GoingLeases' \ GoingLeases /\ l \notin Keyed!Leases
  BY <1>6, <1>7, <1>8 DEF Keyed!Leases
<1> HIDE DEF l
<1>10. Keyed!Take(k)
  BY <1>4, <1>5, <1>6, <1>9 DEF Keyed!Take
<1> QED
  BY <1>10 DEF Keyed!Next

\* A job that ends is given up by the one lease that held it.
LEMMA EndsFree ==
    ASSUME TypeOK, NEW k \in JobKey, job[k] \in Worker, NEW s \in {"NONE", "READY"},
           job' = [job EXCEPT ![k] = s]
    PROVE  Keyed!Free({<<k, <<job[k], k>>>>})
<1> USE RecoveryAssumption
<1> DEFINE h == <<k, <<job[k], k>>>>
           again == IF s = "READY" THEN {k} ELSE {}
<1>1. h[1] = k
  OBVIOUS
<1>2. HeldKeys' = HeldKeys \ {h}
  BY DEF TypeOK, HeldKeys
<1>3. ReadyKeys' = ReadyKeys \cup again
  BY DEF TypeOK, ReadyKeys
<1> HIDE DEF h
<1>4. again \in SUBSET {g[1] : g \in {h}}
  BY <1>1
<1> HIDE DEF again
<1>5. Keyed!Free({h})
  BY <1>2, <1>3, <1>4 DEF Keyed!Free
<1> QED
  BY <1>5 DEF h

\* A run that ends is the only one of its worker.
LEMMA RunGone ==
    ASSUME TypeOK, NEW w \in Worker, work[w].pc # "IDLE",
           work' = [work EXCEPT ![w] = Idle]
    PROVE  /\ <<w, work[w].job>> \in GoingLeases
           /\ GoingLeases' = GoingLeases \ {<<w, work[w].job>>}
<1>1. work'[w].pc = "IDLE"
  BY DEF TypeOK, Idle
<1>2. \A v \in Worker \ {w} : work'[v] = work[v]
  BY DEF TypeOK
<1> QED
  BY <1>1, <1>2 DEF GoingLeases

LEMMA EndRunQueue ==
    ASSUME TypeOK, NEW w \in Worker, EndRun(w)
    PROVE  Keyed!Next
<1> DEFINE l == <<w, work[w].job>>
           k == work[w].job
<1>1. l \in GoingLeases /\ GoingLeases' = GoingLeases \ {l}
  BY RunGone DEF EndRun
<1>2. CASE ~Holds(w)
  <2>1. UNCHANGED <<ReadyKeys, HeldKeys>>
    BY <1>2 DEF EndRun, queue, ReadyKeys, HeldKeys
  <2>2. Keyed!End(l)
    BY <1>1, <2>1 DEF Keyed!End
  <2> QED
    BY <1>1, <2>2 DEF Keyed!Next
<1>3. CASE Holds(w)
  <2>1. k \in JobKey /\ job[k] = w
    BY <1>3 DEF TypeOK, Run, Holds
  <2>2. PICK s \in {"NONE", "READY"} : job' = [job EXCEPT ![k] = s]
    BY <1>3 DEF EndRun, Ends, FailRetried
  <2>3. Keyed!Free({<<k, l>>})
    BY <2>1, <2>2, EndsFree
  <2>4. {h \in HeldKeys : h[2] = l} = {<<k, l>>}
    BY <2>1 DEF HeldKeys
  <2> HIDE DEF k, l
  <2>5. Keyed!End(l)
    BY <1>1, <2>3, <2>4 DEF Keyed!End
  <2> QED
    BY <1>1, <2>5 DEF Keyed!Next
<1> QED
  BY <1>2, <1>3

LEMMA CrashQueue ==
    ASSUME TypeOK, NEW w \in Worker, Crash(w)
    PROVE  Keyed!Next
<1>1. /\ <<w, work[w].job>> \in GoingLeases
      /\ GoingLeases' = GoingLeases \ {<<w, work[w].job>>}
  BY RunGone DEF Crash
<1>2. UNCHANGED <<ReadyKeys, HeldKeys>>
  BY DEF Crash, queue, ReadyKeys, HeldKeys
<1> QED
  BY <1>1, <1>2 DEF Keyed!End, Keyed!Next

LEMMA MaintenanceQueue ==
    ASSUME TypeOK, TypeOK', Maintenance
    PROVE  Keyed!Next
<1>1. ASSUME NEW k \in JobKey, ReclaimLease(k) PROVE Keyed!Next
  <2>1. PICK s \in {"NONE", "READY"} : job' = [job EXCEPT ![k] = s]
    BY <1>1 DEF ReclaimLease, Ends
  <2>2. Keyed!Free({<<k, <<job[k], k>>>>})
    BY <1>1, <2>1, EndsFree DEF ReclaimLease
  <2>3. {<<k, <<job[k], k>>>>} \in SUBSET HeldKeys
    BY <1>1 DEF ReclaimLease, HeldKeys
  <2>4. UNCHANGED GoingLeases
    BY <1>1 DEF ReclaimLease, GoingLeases
  <2> QED
    BY <2>2, <2>3, <2>4 DEF Keyed!Reclaim, Keyed!Next
<1>2. CASE ExpireProposals
  BY <1>2, EnqueuedLeases, QuietQueue DEF ExpireProposals, queue, SameRuns
<1>3. ASSUME NEW p \in Proposal, EnsureReconciliationQueued(p) PROVE Keyed!Next
  BY <1>3, EnqueuedLeases, QuietQueue DEF EnsureReconciliationQueued, SameRuns
<1> QED
  BY <1>1, <1>2, <1>3 DEF Maintenance

LEMMA CommandQueue ==
    ASSUME TypeOK, TypeOK', Command
    PROVE  Keyed!Next
<1>1. SameRuns
  BY DEF Command, Decide, QueueCompetingRecovery, PauseWrites, ResumeWrites,
         CreatePolicyVersion, RetireTask, WithdrawRequest, MoveConnection,
         RequestRecheck, SameRuns
<1>2. CASE ResumeWrites
  <2>1. SameLeases
    BY <1>2, RecoveryAssumption DEF ResumeWrites, SameLeases
  <2> QED
    BY <1>1, <2>1, QuietQueue
<1>3. CASE RetireTask
  <2>1. SameLeases
    BY <1>3, RecoveryAssumption DEF RetireTask, SameLeases
  <2> QED
    BY <1>1, <2>1, QuietQueue
<1>4. CASE ~ResumeWrites /\ ~RetireTask
  <2>1. \E k : job' = Enqueued(job, k) \/ job' = job
    BY <1>4 DEF Command, Decide, QueueCompetingRecovery, PauseWrites,
       CreatePolicyVersion, WithdrawRequest, MoveConnection, RequestRecheck, queue
  <2> QED
    BY <1>1, <2>1, EnqueuedLeases, QuietQueue
<1> QED
  BY <1>2, <1>3, <1>4

LEMMA NextQueue ==
    ASSUME TypeOK, TypeOK', [Next]_vars
    PROVE  [Keyed!Next]_(Keyed!vars)
<1>1. ASSUME NEW w \in Worker, Progress(w) PROVE Keyed!Next
  BY <1>1, LeaseQueue, RecordQueue, HandlerQueue, WriteQueue, EndRunQueue, QuietQueue
  DEF Progress
<1>2. CASE \/ \E p \in Proposal : LateDelivery(p) \/ ProposalExpires(p)
           \/ CutoffPasses \/ SourceChanges \/ UNCHANGED vars
  <2>1. UNCHANGED <<job, work>>
    BY <1>2 DEF LateDelivery, ProposalExpires, CutoffPasses, SourceChanges, vars, queue
  <2> QED
    BY <2>1, EnqueuedLeases, QuietQueue DEF SameRuns
<1> QED
  BY <1>1, <1>2, MaintenanceQueue, CommandQueue, CrashQueue DEF Next, Steady

LEMMA InitQueue == Init => Keyed!Init
<1> SUFFICES ASSUME Init PROVE Keyed!Init
  OBVIOUS
<1>1. HeldKeys = {} /\ GoingLeases = {}
  BY RecoveryAssumption DEF Init, HeldKeys, GoingLeases, Idle
<1> QED
  BY <1>1 DEF Keyed!Init, ReadyKeys

\* The recovery engine takes, settles and queues its jobs as the queue's contract
\* allows: a run that lost its lease settles nothing, and no job is queued beside a
\* leased one, whatever crashes, lapses or is commanded.
THEOREM UsesKeyedQueueAlways == Spec => UsesKeyedQueue
<1>1. TypeOK /\ TypeOK' /\ [Next]_vars => [Keyed!Next]_(Keyed!vars)
  BY NextQueue
<1> QED
  BY <1>1, TypeCorrect, InitQueue, PTL DEF Spec, UsesKeyedQueue, Keyed!Spec
=============================================================================
