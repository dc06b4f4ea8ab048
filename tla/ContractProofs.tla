--------------------------- MODULE ContractProofs ----------------------------
(***************************************************************************)
(* The contracts that stand alone: what the gate of RECOVERY-CONTRACT.md   *)
(* decides, for every context (all times, versions, fingerprints and       *)
(* limits, where MCRecoveryGate tries a small sample), what its write      *)
(* ledger promises, for any intents and attempts, and that the keyed queue *)
(* of jobs.ts gives each key to one lease at most, and no second job.      *)
(***************************************************************************)
EXTENDS GateInTime, TLAPS

CONSTANTS Key, MaxAttempts

VARIABLES granted, report, attempts, effect
VARIABLES ready, held, going

Ledger == INSTANCE WriteLedger
Keyed == INSTANCE KeyedQueue
-----------------------------------------------------------------------------
(***************************************************************************)
(* The recovery gate.                                                      *)
(***************************************************************************)

\* The order of the checks does not matter to a write: the gate before a
\* dispatch allows it exactly when every condition of RECOVERY-CONTRACT.md
\* holds (evaluateRecoveryGate at stage "dispatch").
THEOREM DispatchGateExact ==
    ASSUME NEW Version, NEW Fingerprint, NEW Reason,
           NEW c \in Contexts(Int, Nat, Version, Fingerprint, Reason),
           c.stage = "dispatch"
    PROVE  Allowed(c) <=> WriteConditions(c)
<1>1. c.now \in Int /\ c.period_end \in Int /\ c.proposal.expires_at \in Int
  BY DEF Contexts, Proposals
<1>2. c.evidence_age = NoAge \/ c.evidence_age \in Nat
  BY DEF Contexts
<1>3. /\ c.candidate \in BOOLEAN /\ c.prior_verified \in BOOLEAN
      /\ c.unresolved \in BOOLEAN /\ c.paused \in BOOLEAN
  BY DEF Contexts
<1>4. RecoveryCutoff \in Nat /\ PrecheckMaxAge \in Nat
  BY LimitsAssumption
<1>5. Allowed(c) <=> /\ ContextDecision(c) = "PASS"
                     /\ BindingDecision(c) = "PASS"
                     /\ StageDecision(c) = "EXECUTION_ALLOWED"
  BY DEF Allowed, Gate, ContextDecision, BindingDecision
<1>6. ContextDecision(c) = "PASS" <=>
        /\ c.verdict \notin {"SATISFIED_SCHEDULED", "SATISFIED_ENDED"}
        /\ c.request_status = "ACTIVE"
        /\ c.candidate /\ c.reason = "SCHEDULE_MISSING"
        /\ ~c.prior_verified /\ ~c.unresolved
        /\ c.mode # "OBSERVE_ONLY"
        /\ c.now + RecoveryCutoff < c.period_end
  BY <1>1, <1>3, <1>4 DEF ContextDecision, CutoffReached
<1>7. BindingDecision(c) = "PASS" <=>
        \/ c.proposal.status = "NONE"
        \/ /\ c.proposal.status # "EXPIRED"
           /\ c.now < c.proposal.expires_at
           /\ c.proposal.request_version = c.request_version
           /\ c.proposal.policy_version = c.policy_version
           /\ c.proposal.config_version = c.config_version
           /\ c.fingerprint \in {NoFingerprint, c.proposal.fingerprint}
  BY <1>1 DEF BindingDecision, ProposalExpired
<1>8. StageDecision(c) = "EXECUTION_ALLOWED" <=>
        /\ 0 <= c.evidence_age /\ c.evidence_age <= PrecheckMaxAge
        /\ ~c.paused
        /\ c.mode = "REQUIRE_APPROVAL" =>
              c.proposal.status \in {"AUTHORIZED", "CONSUMED"}
  BY <1>2, <1>3, <1>4 DEF StageDecision, EvidenceTooOld, NoAge
<1> QED
  BY <1>5, <1>6, <1>7, <1>8 DEF WriteConditions

\* later is c some time after: nothing but the clock and the age of the
\* evidence differs, and neither went back.
SomeTimeAfter(later, c) ==
    /\ \A f \in DOMAIN c \ {"now", "evidence_age"} : later[f] = c[f]
    /\ c.now <= later.now
    /\ later.evidence_age = NoAge <=> c.evidence_age = NoAge
    /\ c.evidence_age <= later.evidence_age

\* Waiting never turns a refusal into a permission, whatever the stage: what the
\* gate allows later it already allowed before.
THEOREM WaitingNeverAllowsAny ==
    ASSUME NEW Version, NEW Fingerprint, NEW Reason,
           NEW c \in Contexts(Int, Nat, Version, Fingerprint, Reason),
           NEW later \in Contexts(Int, Nat, Version, Fingerprint, Reason),
           SomeTimeAfter(later, c),
           Allowed(later)
    PROVE  Allowed(c)
<1>1. /\ later.verdict = c.verdict
      /\ later.request_status = c.request_status
      /\ later.candidate = c.candidate /\ later.reason = c.reason
      /\ later.prior_verified = c.prior_verified
      /\ later.unresolved = c.unresolved
      /\ later.mode = c.mode /\ later.period_end = c.period_end
      /\ later.proposal = c.proposal
      /\ later.request_version = c.request_version
      /\ later.policy_version = c.policy_version
      /\ later.config_version = c.config_version
      /\ later.fingerprint = c.fingerprint
      /\ later.paused = c.paused /\ later.stage = c.stage
  BY DEF Contexts, SomeTimeAfter
<1>2. /\ c.now \in Int /\ later.now \in Int /\ c.now <= later.now
      /\ c.period_end \in Int /\ c.proposal.expires_at \in Int
  BY DEF Contexts, Proposals, SomeTimeAfter
<1>3. /\ c.evidence_age = NoAge \/ c.evidence_age \in Nat
      /\ later.evidence_age = NoAge \/ later.evidence_age \in Nat
      /\ later.evidence_age = NoAge <=> c.evidence_age = NoAge
      /\ c.evidence_age <= later.evidence_age
  BY DEF Contexts, SomeTimeAfter
<1>4. RecoveryCutoff \in Nat /\ PrecheckMaxAge \in Nat
  BY LimitsAssumption
<1>5. /\ ContextDecision(later) = "PASS"
      /\ BindingDecision(later) = "PASS"
      /\ StageDecision(later) = "EXECUTION_ALLOWED"
  BY DEF Allowed, Gate, ContextDecision, BindingDecision
<1>6. ContextDecision(c) = "PASS"
  BY <1>1, <1>2, <1>4, <1>5 DEF ContextDecision, CutoffReached
<1>7. BindingDecision(c) = "PASS"
  BY <1>1, <1>2, <1>5 DEF BindingDecision, ProposalExpired
<1>8. StageDecision(c) = "EXECUTION_ALLOWED"
  BY <1>1, <1>3, <1>4, <1>5 DEF StageDecision, EvidenceTooOld, NoAge
<1> QED
  BY <1>6, <1>7, <1>8 DEF Allowed, Gate

\* What the approval gate lets a person authorize, and what the proposal gate
\* authorizes by policy, passes the dispatch gate on fresh evidence: the stages
\* never disagree about the conditions they share.
THEOREM AuthorizedDispatches ==
    ASSUME NEW Version, NEW Fingerprint, NEW Reason,
           NEW c \in Contexts(Int, Nat, Version, Fingerprint, Reason),
           c.stage # "dispatch", Allowed(c)
    PROVE  Allowed(Authorized(c))
<1> DEFINE a == Authorized(c)
<1>1. /\ c.now \in Int /\ c.period_end \in Int
      /\ c.fingerprint \in Fingerprint \cup {NoFingerprint}
      /\ DOMAIN c.proposal = {"status", "expires_at", "request_version", "policy_version",
                             "config_version", "fingerprint"}
  BY DEF Contexts, Proposals
<1>2. RecoveryCutoff \in Nat /\ PrecheckMaxAge \in Nat
  BY LimitsAssumption
<1>3. /\ ContextDecision(c) = "PASS" /\ BindingDecision(c) = "PASS"
      /\ StageDecision(c) = "EXECUTION_ALLOWED"
  BY DEF Allowed, Gate, ContextDecision, BindingDecision
<1>4. /\ a.verdict = c.verdict /\ a.request_status = c.request_status
      /\ a.candidate = c.candidate /\ a.reason = c.reason
      /\ a.prior_verified = c.prior_verified /\ a.unresolved = c.unresolved
      /\ a.mode = c.mode /\ a.period_end = c.period_end /\ a.now = c.now
      /\ a.request_version = c.request_version /\ a.policy_version = c.policy_version
      /\ a.config_version = c.config_version /\ a.fingerprint = c.fingerprint
      /\ a.paused = c.paused /\ a.stage = "dispatch" /\ a.evidence_age = 0
  BY DEF Contexts, Authorized
<1>5. /\ a.proposal.status = "AUTHORIZED"
      /\ c.proposal.status = "NONE" =>
           /\ a.proposal.expires_at = c.period_end
           /\ a.proposal.request_version = c.request_version
           /\ a.proposal.policy_version = c.policy_version
           /\ a.proposal.config_version = c.config_version
           /\ a.proposal.fingerprint = c.fingerprint
      /\ c.proposal.status # "NONE" =>
           /\ a.proposal.expires_at = c.proposal.expires_at
           /\ a.proposal.request_version = c.proposal.request_version
           /\ a.proposal.policy_version = c.proposal.policy_version
           /\ a.proposal.config_version = c.proposal.config_version
           /\ a.proposal.fingerprint = c.proposal.fingerprint
  BY <1>1 DEF Contexts, Authorized
<1> HIDE DEF a
<1>6. ContextDecision(a) = "PASS"
  BY <1>3, <1>4 DEF ContextDecision, CutoffReached
<1>7. c.now < c.period_end
  BY <1>1, <1>2, <1>3 DEF ContextDecision, CutoffReached
<1>8. BindingDecision(a) = "PASS"
  <2>1. CASE c.proposal.status = "NONE"
    <3>1. ~(c.period_end <= c.now)
      BY <1>1, <1>7
    <3> QED
      BY <1>4, <1>5, <2>1, <3>1 DEF BindingDecision, ProposalExpired
  <2>2. CASE c.proposal.status # "NONE"
    BY <1>3, <1>4, <1>5, <2>2 DEF BindingDecision, ProposalExpired
  <2> QED
    BY <2>1, <2>2
<1>9. StageDecision(a) = "EXECUTION_ALLOWED"
  <2>1. ~EvidenceTooOld(a)
    BY <1>2, <1>4 DEF EvidenceTooOld, NoAge
  <2>2. ~c.paused
    BY <1>3, <1>4 DEF StageDecision, Contexts
  <2> QED
    BY <1>4, <1>5, <2>1, <2>2 DEF StageDecision
<1> QED
  BY <1>6, <1>8, <1>9 DEF Allowed, Gate, a

\* A second later, the context is one some time after.
LEMMA TimeGoesOn ==
    ASSUME ctx \in AllContexts, TimePasses
    PROVE  ctx' \in AllContexts /\ SomeTimeAfter(ctx', ctx)
<1> DEFINE now == ctx.now + 1
           age == IF ctx.evidence_age = NoAge THEN NoAge ELSE ctx.evidence_age + 1
<1>1. ctx.now \in Int /\ ctx.evidence_age \in Nat \cup {NoAge}
  BY DEF AllContexts, Contexts
<1>2. now \in Int /\ age \in Nat \cup {NoAge}
  BY <1>1 DEF NoAge
<1>3. ctx' = [ctx EXCEPT !.now = now, !.evidence_age = age]
  BY DEF TimePasses
<1>4. DOMAIN ctx = DOMAIN ctx' /\ ctx' \in AllContexts
  <2> HIDE DEF now, age
  <2> QED
    BY <1>2, <1>3 DEF AllContexts, Contexts
<1>5. \A f \in DOMAIN ctx \ {"now", "evidence_age"} : ctx'[f] = ctx[f]
  BY DEF AllContexts, Contexts, TimePasses
<1>6. ctx'.now = now /\ ctx'.evidence_age = age
  BY <1>3 DEF AllContexts, Contexts
<1> QED
  BY <1>1, <1>4, <1>5, <1>6 DEF SomeTimeAfter, NoAge

LEMMA GateInvariance == Spec => [](ctx \in AllContexts)
<1>1. Init => ctx \in AllContexts
  BY StartAssumption DEF Init
<1>2. ctx \in AllContexts /\ [Next]_ctx => (ctx \in AllContexts)'
  BY TimeGoesOn DEF Next
<1> QED
  BY <1>1, <1>2, PTL DEF Spec

\* From any contexts to start with, the gate before a dispatch is exact at any time.
THEOREM DispatchGateIsExactAlways == Spec => []DispatchGateIsExact
<1>1. ctx \in AllContexts => DispatchGateIsExact
  BY DispatchGateExact DEF DispatchGateIsExact, AllContexts
<1> QED
  BY <1>1, GateInvariance, PTL

\* From any contexts to start with, the three stages agree at any time.
THEOREM AuthorizedWouldDispatchAlways == Spec => []AuthorizedWouldDispatch
<1>1. ctx \in AllContexts => AuthorizedWouldDispatch
  BY AuthorizedDispatches DEF AuthorizedWouldDispatch, AllContexts
<1> QED
  BY <1>1, GateInvariance, PTL

\* From any contexts to start with, no refusal ends because a second passes.
THEOREM WaitingNeverAllowsAlways == Spec => WaitingNeverAllows
<1>1. ctx \in AllContexts /\ [Next]_ctx => [Allowed(ctx)' => Allowed(ctx)]_ctx
  <2> SUFFICES ASSUME ctx \in AllContexts, TimePasses, Allowed(ctx)' PROVE Allowed(ctx)
    BY DEF Next
  <2>1. ctx' \in AllContexts /\ SomeTimeAfter(ctx', ctx)
    BY TimeGoesOn
  <2>2. Allowed(ctx')
    BY DEF Allowed, Gate, ContextDecision, CutoffReached, BindingDecision, ProposalExpired,
       StageDecision, EvidenceTooOld
  <2> QED
    BY <2>1, <2>2, WaitingNeverAllowsAny DEF AllContexts
<1> QED
  BY <1>1, GateInvariance, PTL DEF Spec, WaitingNeverAllows
-----------------------------------------------------------------------------
(***************************************************************************)
(* The write ledger.                                                       *)
(***************************************************************************)

\* Only granted intents are reported, and only open ones were attempted.
AttemptsOK ==
    \A k \in Key :
        /\ report[k] # "NONE" => k \in granted
        /\ attempts[k] > 0 => report[k] \notin {"NONE", "UNSENT"}
        /\ effect[k] # "NONE" => attempts[k] > 0

LedgerInv == Ledger!LedgerTypeOK /\ Ledger!OneOpen /\ AttemptsOK /\ Ledger!ClosingsAreTrue

LEMMA InitLedger ==
    ASSUME MaxAttempts \in Nat, Ledger!Init
    PROVE  LedgerInv
BY DEF Ledger!Init, LedgerInv, Ledger!LedgerTypeOK, Ledger!OneOpen, AttemptsOK, Ledger!ClosingsAreTrue, Ledger!Closings

LEMMA NextLedger ==
    ASSUME MaxAttempts \in Nat, LedgerInv, [Ledger!Next]_Ledger!vars
    PROVE  LedgerInv'
<1> USE DEF LedgerInv, Ledger!LedgerTypeOK, Ledger!Closings
<1>1. ASSUME NEW k \in Key, Ledger!Grant(k) PROVE LedgerInv'
  BY <1>1 DEF Ledger!Grant, Ledger!OneOpen, AttemptsOK, Ledger!ClosingsAreTrue
<1>2. ASSUME NEW k \in Key, Ledger!Open(k) PROVE LedgerInv'
  BY <1>2 DEF Ledger!Open, Ledger!OneOpen, AttemptsOK, Ledger!ClosingsAreTrue
<1>3. ASSUME NEW k \in Key, Ledger!Attempt(k) PROVE LedgerInv'
  BY <1>3 DEF Ledger!Attempt, Ledger!OneOpen, AttemptsOK, Ledger!ClosingsAreTrue
<1>4. ASSUME NEW k \in Key, Ledger!TakeEffect(k) PROVE LedgerInv'
  BY <1>4 DEF Ledger!TakeEffect, Ledger!OneOpen, AttemptsOK, Ledger!ClosingsAreTrue
<1>5. ASSUME NEW k \in Key, Ledger!Close(k) PROVE LedgerInv'
  BY <1>5 DEF Ledger!Close, Ledger!OneOpen, AttemptsOK, Ledger!ClosingsAreTrue
<1>6. CASE UNCHANGED Ledger!vars
  BY <1>6 DEF Ledger!vars, Ledger!OneOpen, AttemptsOK, Ledger!ClosingsAreTrue
<1> QED
  BY <1>1, <1>2, <1>3, <1>4, <1>5, <1>6 DEF Ledger!Next

LEMMA LedgerInvariance ==
    ASSUME MaxAttempts \in Nat
    PROVE  Ledger!Spec => []LedgerInv
<1>1. Ledger!Init => LedgerInv
  BY InitLedger
<1>2. LedgerInv /\ [Ledger!Next]_Ledger!vars => LedgerInv'
  BY NextLedger
<1> QED
  BY <1>1, <1>2, PTL DEF Ledger!Spec

\* Every intent is attempted at most MaxAttempts times.
THEOREM LedgerTypeCorrect ==
    ASSUME MaxAttempts \in Nat
    PROVE  Ledger!Spec => []Ledger!LedgerTypeOK
<1>1. LedgerInv => Ledger!LedgerTypeOK
  BY DEF LedgerInv
<1> QED
  BY <1>1, LedgerInvariance, PTL

\* At most one intent is open.
THEOREM OneOpenAlways ==
    ASSUME MaxAttempts \in Nat
    PROVE  Ledger!Spec => []Ledger!OneOpen
<1>1. LedgerInv => Ledger!OneOpen
  BY DEF LedgerInv
<1> QED
  BY <1>1, LedgerInvariance, PTL

\* A write told to be unsent or refused was not applied, whenever the source
\* acts on what was sent.
THEOREM ClosingsAreTrueAlways ==
    ASSUME MaxAttempts \in Nat
    PROVE  Ledger!Spec => []Ledger!ClosingsAreTrue
<1>1. LedgerInv => Ledger!ClosingsAreTrue
  BY DEF LedgerInv
<1> QED
  BY <1>1, LedgerInvariance, PTL
-----------------------------------------------------------------------------
(***************************************************************************)
(* The keyed queue.                                                        *)
(***************************************************************************)

\* Giving leases up keeps the others exclusive, and the freed keys are free.
LEMMA FreeExclusive ==
    ASSUME Keyed!Exclusive, NEW freed \in SUBSET held, Keyed!Free(freed)
    PROVE  Keyed!Exclusive'
<1>1. PICK again \in SUBSET {h[1] : h \in freed} : ready' = ready \cup again
  BY DEF Keyed!Free
<1>2. held' = held \ freed
  BY DEF Keyed!Free
<1>3. \A h \in held : h = <<h[1], h[2]>> /\ h[1] \in Key
  BY DEF Keyed!Exclusive
<1>4. \A g, h \in held : g[1] = h[1] <=> g[2] = h[2]
  BY DEF Keyed!Exclusive
<1>5. ready \subseteq Key /\ ready \cap Keyed!Taken = {}
  BY DEF Keyed!Exclusive
<1>6. ready' \subseteq Key
  BY <1>1, <1>3, <1>5
<1>7. ASSUME NEW k \in ready', NEW h \in held', h[1] = k PROVE FALSE
  <2>1. k \notin ready
    BY <1>2, <1>5, <1>7 DEF Keyed!Taken
  <2>2. PICK f \in freed : f[1] = k
    BY <1>1, <2>1
  <2>3. f[2] = h[2]
    BY <1>2, <1>4, <1>7, <2>2
  <2>4. f = h
    BY <1>2, <1>3, <1>7, <2>2, <2>3
  <2> QED
    BY <1>2, <2>4
<1>8. ready' \cap Keyed!Taken' = {}
  BY <1>7 DEF Keyed!Taken
<1> QED
  BY <1>2, <1>3, <1>4, <1>6, <1>8 DEF Keyed!Exclusive

LEMMA TakeExclusive ==
    ASSUME Keyed!Exclusive, NEW k \in Key, Keyed!Take(k)
    PROVE  Keyed!Exclusive'
<1>1. PICK l \in going' \ going : l \notin Keyed!Leases /\ held' = held \cup {<<k, l>>}
  BY DEF Keyed!Take
<1>2. k \in ready /\ ready' = ready \ {k}
  BY DEF Keyed!Take
<1>3. \A h \in held : h = <<h[1], h[2]>> /\ h[1] \in Key
  BY DEF Keyed!Exclusive
<1>4. \A g, h \in held : g[1] = h[1] <=> g[2] = h[2]
  BY DEF Keyed!Exclusive
<1>5. ready \subseteq Key /\ ready \cap Keyed!Taken = {}
  BY DEF Keyed!Exclusive
<1>6. \A h \in held : h[1] # k /\ h[1] \notin ready
  BY <1>2, <1>5 DEF Keyed!Taken
<1>7. \A h \in held : h[2] # l
  BY <1>1 DEF Keyed!Leases
<1> DEFINE new == <<k, l>>
<1>8. new[1] = k /\ new[2] = l /\ new = <<new[1], new[2]>>
  OBVIOUS
<1>9. held' = held \cup {new}
  BY <1>1
<1> HIDE DEF new
<1>10. \A h \in held' : h = <<h[1], h[2]>> /\ h[1] \in Key
  BY <1>3, <1>8, <1>9
<1>11. \A g, h \in held' : g[1] = h[1] <=> g[2] = h[2]
  BY <1>4, <1>6, <1>7, <1>8, <1>9
<1>12. \A h \in held' : h[1] \notin ready'
  BY <1>2, <1>6, <1>8, <1>9
<1>13. ready' \subseteq Key /\ ready' \cap Keyed!Taken' = {}
  BY <1>2, <1>5, <1>12 DEF Keyed!Taken
<1> QED
  BY <1>10, <1>11, <1>13 DEF Keyed!Exclusive

LEMMA StepExclusive == Keyed!Exclusive /\ [Keyed!Next]_(Keyed!vars) => Keyed!Exclusive'
<1> SUFFICES ASSUME Keyed!Exclusive, [Keyed!Next]_(Keyed!vars)
             PROVE  Keyed!Exclusive'
  OBVIOUS
<1>1. CASE UNCHANGED <<ready, held>>
  BY <1>1 DEF Keyed!Exclusive, Keyed!Taken
<1>2. CASE Keyed!Command
  BY <1>2 DEF Keyed!Command, Keyed!Exclusive, Keyed!Taken
<1>3. ASSUME NEW l \in going, Keyed!End(l) PROVE Keyed!Exclusive'
  <2>1. {h \in held : h[2] = l} \in SUBSET held
    OBVIOUS
  <2> QED
    BY <1>1, <1>3, <2>1, FreeExclusive DEF Keyed!End
<1>4. CASE Keyed!Reclaim
  BY <1>4, FreeExclusive DEF Keyed!Reclaim
<1> QED
  BY <1>1, <1>2, <1>3, <1>4, TakeExclusive DEF Keyed!Next, Keyed!vars

\* What handlers and commands may count on (jobs.ts): a key has one holder, a lease
\* one key, and no job is ready beside a held one.
THEOREM ExclusiveAlways == Keyed!Spec => []Keyed!Exclusive
<1>1. Keyed!Init => Keyed!Exclusive
  BY DEF Keyed!Init, Keyed!Exclusive, Keyed!Taken
<1> QED
  BY <1>1, StepExclusive, PTL DEF Keyed!Spec
=============================================================================
