------------------------- MODULE RecoveryRefinement -------------------------
(***************************************************************************)
(* Recovery implements WriteLedger.  An intent is reported from resolved_at *)
(* and attribution, which no late response overwrites, not from state.     *)
(* Its jobs are those of a KeyedQueue, which JobQueue implements as well.  *)
(***************************************************************************)
EXTENDS Recovery

Grants == {p \in Proposal : decision[p] \in {"APPROVE", "AUTO_POLICY"}}

\* A resolved operation: how the source that was read is explained.
Closing(p) ==
    IF op[p].count = 0 THEN "UNSENT"
    ELSE IF op[p].attribution = "PROOFWORK" THEN "APPLIED"
    ELSE IF op[p].attribution = "UNATTRIBUTED" THEN "EXTERNAL"
    ELSE "REFUSED"

Report(p) ==
    IF op[p].state = "NONE" THEN "NONE"
    ELSE IF op[p].resolved THEN Closing(p) ELSE "OPEN"

Reports == [p \in Proposal |-> Report(p)]
Dispatches == [p \in Proposal |-> op[p].count]

Writes == INSTANCE WriteLedger WITH
    Key <- Proposal, MaxAttempts <- MaxDispatches, granted <- Grants,
    report <- Reports, attempts <- Dispatches, effect <- ledger

\* Every step of the workers, the owner, the source and time is a step of the
\* write ledger, or changes nothing of it.
ImplementsWriteLedger == Writes!Spec
-----------------------------------------------------------------------------
\* A worker runs one job at a time, so a lease is known by worker and key.
ReadyKeys == {k \in JobKey : job[k] = "READY"}
HeldKeys == {<<k, <<job[k], k>>>> : k \in {j \in JobKey : job[j] \in Worker}}
GoingLeases == {<<w, work[w].job>> : w \in {v \in Worker : work[v].pc # "IDLE"}}

Keyed == INSTANCE KeyedQueue WITH
    Key <- JobKey, ready <- ReadyKeys, held <- HeldKeys, going <- GoingLeases

\* Handlers, commands, crashes and maintenance use the jobs as a keyed queue allows.
UsesKeyedQueue == Keyed!Spec
=============================================================================
