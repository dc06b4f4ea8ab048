--------------------------- MODULE MCRecoveryGate ---------------------------
(***************************************************************************)
(* The recovery gate over small contexts, and over what time does to one.  *)
(* Time is counted in units that put every boundary inside 0..MaxNow:      *)
(* the period end, its cutoff, and the proposal's expiry before it.        *)
(***************************************************************************)
EXTENDS GateInTime

CONSTANT PeriodEnd  \* the authorized period end

\* A sample of what the evaluator can say: only a missing schedule before the
\* boundary is a recovery candidate.
MCEvaluations ==
    {<<"SATISFIED_SCHEDULED", "CANCELLATION_SCHEDULED", FALSE>>,
     <<"MISMATCH", "SCHEDULE_MISSING", TRUE>>,
     <<"MISMATCH", "SCHEDULE_MISSING", FALSE>>,
     <<"UNVERIFIABLE", "SOURCE_UNAVAILABLE", FALSE>>}

\* A proposal bound to other versions or to another fingerprint, not to both.
MCProposals ==
    {p \in Proposals({1, 3}, {1, 2}, {"f1", "f2"}) :
        /\ p.status \in {"NONE", "AWAITING_APPROVAL", "AUTHORIZED", "CONSUMED",
                        "EXPIRED"}
        /\ \/ p.fingerprint = "f1"
           \/ <<p.request_version, p.policy_version, p.config_version>>
                 = <<1, 1, 1>>}

MCContexts ==
    {[verdict |-> e[1], reason |-> e[2], candidate |-> e[3],
      request_status |-> s, request_version |-> 1, period_end |-> PeriodEnd,
      now |-> 0, mode |-> m, policy_version |-> 1, paused |-> b[1],
      config_version |-> 1, proposal |-> p, fingerprint |-> f,
      evidence_age |-> a, unresolved |-> b[2], prior_verified |-> b[3],
      stage |-> g] :
        e \in MCEvaluations, s \in {"ACTIVE", "RETIRED"}, p \in MCProposals,
        m \in PolicyModes, g \in Stages, b \in [1..3 -> BOOLEAN],
        a \in {NoAge, 0}, f \in {"f1", NoFingerprint}}
=============================================================================
