---------------------------- MODULE RecoveryGate ----------------------------
(***************************************************************************)
(* The pure recovery gate of packages/domain/src/recovery.ts: the one      *)
(* function that is asked before a proposal is created, before a person's  *)
(* approval is accepted, and before a write is prepared.                   *)
(*                                                                         *)
(* A gate context is a record; times and ages are seconds (integers), a    *)
(* fingerprint is any value, and an absent proposal is one whose status is *)
(* "NONE".  The checks are ordered: the first one that applies decides.    *)
(***************************************************************************)
EXTENDS Integers

CONSTANTS
    RecoveryCutoff,     \* LIMITS.RECOVERY_CUTOFF_SECONDS
    PrecheckMaxAge      \* LIMITS.PRECHECK_MAX_AGE_SECONDS

ASSUME LimitsAssumption ==
    /\ RecoveryCutoff \in Nat
    /\ PrecheckMaxAge \in Nat

Verdicts == {"SATISFIED_SCHEDULED", "SATISFIED_ENDED", "MISMATCH",
             "UNVERIFIABLE", "OUT_OF_SCOPE"}

RequestStatuses == {"ACTIVE", "SUPERSEDED", "RETIRED"}

PolicyModes == {"OBSERVE_ONLY", "REQUIRE_APPROVAL", "AUTO_RECOVER"}

Stages == {"proposal", "approval", "dispatch"}

ProposalStatuses == {"PROPOSED", "AWAITING_APPROVAL", "BLOCKED", "AUTHORIZED",
                     "CONSUMED", "REJECTED", "EXPIRED", "SUPERSEDED"}

NoFingerprint == ""     \* current_fingerprint is absent
NoAge == -1             \* evidence_age_seconds is absent

Decisions == {"ALREADY_SATISFIED", "REQUEST_NOT_ACTIVE", "NOT_CANDIDATE",
              "PRIOR_REVERSAL", "OPERATION_UNRESOLVED", "OBSERVE_ONLY",
              "CUTOFF_REACHED", "APPROVAL_EXPIRED", "APPROVAL_STALE",
              "CONNECTION_CHANGED", "EVIDENCE_TOO_OLD", "WRITES_PAUSED",
              "APPROVAL_REQUIRED", "EXECUTION_ALLOWED"}

\* Mutant: the cutoff only matters for the write itself.
CutoffReachedAtDispatch(c) ==
    c.stage = "dispatch" /\ c.period_end <= c.now + RecoveryCutoff

\* Too close to the authorized period end.
CutoffReached(c) == c.period_end <= c.now + RecoveryCutoff

\* The part of the gate that looks at the evaluation, the request and the
\* policy, before any proposal: the decision that refuses, or "PASS".
ContextDecision(c) ==
    IF c.verdict \in {"SATISFIED_SCHEDULED", "SATISFIED_ENDED"}
        THEN "ALREADY_SATISFIED"
    ELSE IF c.request_status # "ACTIVE" THEN "REQUEST_NOT_ACTIVE"
    ELSE IF ~c.candidate \/ c.reason # "SCHEDULE_MISSING" THEN "NOT_CANDIDATE"
    ELSE IF c.prior_verified THEN "PRIOR_REVERSAL"
    ELSE IF c.unresolved THEN "OPERATION_UNRESOLVED"
    ELSE IF c.mode = "OBSERVE_ONLY" THEN "OBSERVE_ONLY"
    ELSE IF CutoffReached(c) THEN "CUTOFF_REACHED"
    ELSE "PASS"

\* Mutant: the comparison is the wrong way round.
ProposalExpiredSwapped(p, now) == p.status = "EXPIRED" \/ now <= p.expires_at

\* The proposal's own window is over.
ProposalExpired(p, now) == p.status = "EXPIRED" \/ p.expires_at <= now

\* The part that binds an existing proposal to the request, the policy, the
\* connection and the evidence it was prepared from.
BindingDecision(c) ==
    LET p == c.proposal IN
    IF p.status = "NONE" THEN "PASS"
    ELSE IF ProposalExpired(p, c.now) THEN "APPROVAL_EXPIRED"
    ELSE IF p.request_version # c.request_version THEN "APPROVAL_STALE"
    ELSE IF p.policy_version # c.policy_version THEN "APPROVAL_STALE"
    ELSE IF p.config_version # c.config_version THEN "CONNECTION_CHANGED"
    ELSE IF c.fingerprint # NoFingerprint /\ c.fingerprint # p.fingerprint
        THEN "APPROVAL_STALE"
    ELSE "PASS"

\* Mutant: evidence of exactly the maximal age is refused.
EvidenceTooOldByOne(c) ==
    c.evidence_age = NoAge \/ c.evidence_age >= PrecheckMaxAge

\* There is no precheck, or it was read too long ago.
EvidenceTooOld(c) ==
    c.evidence_age = NoAge \/ c.evidence_age > PrecheckMaxAge

\* The part that depends on the stage: the last word before a write is
\* "dispatch"; "approval" and "proposal" decide what may wait for one.
StageDecision(c) ==
    IF c.stage = "dispatch"
    THEN IF EvidenceTooOld(c) THEN "EVIDENCE_TOO_OLD"
         ELSE IF c.paused THEN "WRITES_PAUSED"
         ELSE IF /\ c.mode = "REQUIRE_APPROVAL"
                 /\ c.proposal.status \notin {"AUTHORIZED", "CONSUMED"}
             THEN "APPROVAL_REQUIRED"
         ELSE "EXECUTION_ALLOWED"
    ELSE IF c.mode = "REQUIRE_APPROVAL" /\ c.stage # "approval"
         THEN "APPROVAL_REQUIRED"
    ELSE IF c.paused THEN "WRITES_PAUSED"
    ELSE "EXECUTION_ALLOWED"

\* evaluateRecoveryGate(ctx).decision
Gate(c) ==
    IF ContextDecision(c) # "PASS" THEN ContextDecision(c)
    ELSE IF BindingDecision(c) # "PASS" THEN BindingDecision(c)
    ELSE StageDecision(c)

\* evaluateRecoveryGate(ctx).allowed
Allowed(c) == Gate(c) = "EXECUTION_ALLOWED"
-----------------------------------------------------------------------------
(***************************************************************************)
(* What a write needs, stated as one unordered conjunction: every row of   *)
(* the "recovery gate" list of RECOVERY-CONTRACT.md that the code checks.  *)
(***************************************************************************)
WriteConditions(c) ==
    /\ c.verdict \notin {"SATISFIED_SCHEDULED", "SATISFIED_ENDED"}
    /\ c.request_status = "ACTIVE"
    /\ c.candidate /\ c.reason = "SCHEDULE_MISSING"
    /\ ~c.prior_verified /\ ~c.unresolved
    /\ c.mode # "OBSERVE_ONLY"
    /\ c.now + RecoveryCutoff < c.period_end
    /\ c.proposal.status = "NONE" \/
          /\ c.proposal.status # "EXPIRED"
          /\ c.now < c.proposal.expires_at
          /\ c.proposal.request_version = c.request_version
          /\ c.proposal.policy_version = c.policy_version
          /\ c.proposal.config_version = c.config_version
          /\ c.fingerprint \in {NoFingerprint, c.proposal.fingerprint}
    /\ 0 <= c.evidence_age /\ c.evidence_age <= PrecheckMaxAge
    /\ ~c.paused
    /\ c.mode = "REQUIRE_APPROVAL" =>
          c.proposal.status \in {"AUTHORIZED", "CONSUMED"}

\* The context of the dispatch that follows an authorization: a proposal bound
\* to what the authorizing gate saw, and a precheck just read.
Authorized(c) ==
    LET bound == [status |-> "AUTHORIZED", expires_at |-> c.period_end,
                  request_version |-> c.request_version,
                  policy_version |-> c.policy_version,
                  config_version |-> c.config_version,
                  fingerprint |-> c.fingerprint]
    IN  [c EXCEPT !.stage = "dispatch", !.evidence_age = 0,
                  !.proposal = IF @.status = "NONE" THEN bound
                               ELSE [@ EXCEPT !.status = "AUTHORIZED"]]

Proposals(Time, Version, Fingerprint) ==
    [status : ProposalStatuses \cup {"NONE"}, expires_at : Time,
     request_version : Version, policy_version : Version,
     config_version : Version, fingerprint : Fingerprint]

\* The gate contexts over given times, ages, versions and fingerprints.
Contexts(Time, Age, Version, Fingerprint, Reason) ==
    [verdict : Verdicts, reason : Reason, candidate : BOOLEAN,
     request_status : RequestStatuses, request_version : Version,
     period_end : Time, now : Time, mode : PolicyModes,
     policy_version : Version, paused : BOOLEAN, config_version : Version,
     proposal : Proposals(Time, Version, Fingerprint),
     fingerprint : Fingerprint \cup {NoFingerprint},
     evidence_age : Age \cup {NoAge},
     unresolved : BOOLEAN, prior_verified : BOOLEAN, stage : Stages]
=============================================================================
