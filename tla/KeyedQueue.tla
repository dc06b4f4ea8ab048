---------------------------- MODULE KeyedQueue -----------------------------
(***************************************************************************)
(* What the job queue of packages/database/src/jobs.ts promises to the     *)
(* handlers and commands that use it, without rows, attempts, tokens,      *)
(* deadlines or workers: for each dedupe key there is at most one job, it  *)
(* is ready or held by one lease, and only the run that has this lease, or *)
(* the maintenance, gives the key free.                                    *)
(*                                                                         *)
(* A lease stands for one handing out of a job.  A run may go on without   *)
(* its lease, and a lease outlives a run that died.                        *)
(***************************************************************************)
EXTENDS Naturals

CONSTANT
    Key         \* dedupe keys

VARIABLES
    ready,      \* the keys with a job that may be leased
    held,       \* the pairs of a key and the lease that holds it
    going       \* the leases whose runs go on

vars == <<ready, held, going>>

Taken == {h[1] : h \in held}
Leases == {h[2] : h \in held} \cup going

Init ==
    /\ ready \subseteq Key
    /\ held = {}
    /\ going = {}

\* Jobs are queued or canceled; none is queued beside a leased one.
Command ==
    /\ ready' \subseteq Key
    /\ ready' \cap Taken = {}
    /\ UNCHANGED <<held, going>>

\* A ready job goes to a run of its own, under a lease like no other.
Take(k) ==
    /\ k \in ready
    /\ ready' = ready \ {k}
    /\ \E l \in going' \ going :
        /\ l \notin Leases
        /\ going' = going \cup {l}
        /\ held' = held \cup {<<k, l>>}

\* Leases end; some of their jobs are to be run again.
Free(freed) ==
    /\ held' = held \ freed
    /\ \E again \in SUBSET {h[1] : h \in freed} : ready' = ready \cup again

\* A run settles its job, if the lease is still its own, or just ends.
End(l) ==
    /\ l \in going
    /\ going' = going \ {l}
    /\ Free({h \in held : h[2] = l}) \/ UNCHANGED <<ready, held>>

\* Maintenance takes leases back, whether or not their runs go on.
Reclaim ==
    /\ \E lost \in SUBSET held : Free(lost)
    /\ UNCHANGED going

Next ==
    \/ Command
    \/ \E k \in Key : Take(k)
    \/ \E l \in going : End(l)
    \/ Reclaim

Spec == Init /\ [][Next]_vars
-----------------------------------------------------------------------------
\* One holder per key, and one key per lease; a held key has no second job.
Exclusive ==
    /\ ready \subseteq Key
    /\ \A h \in held : h = <<h[1], h[2]>> /\ h[1] \in Key
    /\ \A g, h \in held : g[1] = h[1] <=> g[2] = h[2]
    /\ ready \cap Taken = {}
=============================================================================
