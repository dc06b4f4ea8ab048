----------------------------- MODULE GateInTime ------------------------------
(***************************************************************************)
(* What time does to a gate context between two uses of the gate, from any *)
(* contexts to start with: the clock goes on and the evidence ages, the    *)
(* rest stays.  Times and ages are whole seconds, versions the integers of *)
(* the database, fingerprints and reasons the strings of the evaluator.    *)
(***************************************************************************)
EXTENDS RecoveryGate

CONSTANTS
    Start,          \* the contexts to follow
    MaxNow          \* bound: how long

AllContexts == Contexts(Int, Nat, Nat, STRING, STRING)

ASSUME StartAssumption == Start \subseteq AllContexts /\ MaxNow \in Int

VARIABLE ctx

Init == ctx \in Start

\* A second passes between two uses of the gate; evidence ages with it.
TimePasses ==
    /\ ctx.now < MaxNow
    /\ ctx' = [ctx EXCEPT !.now = @ + 1,
                          !.evidence_age = IF @ = NoAge THEN NoAge ELSE @ + 1]

Next == TimePasses

Spec == Init /\ [][Next]_ctx
-----------------------------------------------------------------------------
\* The gate before a write allows it exactly when every condition that
\* RECOVERY-CONTRACT.md lists holds, whatever the order of the checks.
DispatchGateIsExact ==
    ctx.stage = "dispatch" => (Allowed(ctx) <=> WriteConditions(ctx))

\* What the approval gate lets a person authorize, and what the proposal gate
\* authorizes by policy, would pass the dispatch gate on fresh evidence: the
\* three stages never disagree about the conditions they share.
AuthorizedWouldDispatch ==
    ctx.stage # "dispatch" /\ Allowed(ctx) => Allowed(Authorized(ctx))

\* Waiting never turns a refusal into a permission: every deadline of the gate
\* (cutoff, proposal expiry, age of the evidence) only closes.
WaitingNeverAllows == [][Allowed(ctx)' => Allowed(ctx)]_ctx
=============================================================================
