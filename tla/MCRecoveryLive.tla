--------------------------- MODULE MCRecoveryLive ---------------------------
(***************************************************************************)
(* Recovery with a bounded number of crashes, for liveness: workers that   *)
(* crash for ever settle nothing.                                          *)
(***************************************************************************)
EXTENDS MCRecovery

CONSTANT MaxCrashes     \* bound: crashes in a behavior

VARIABLE crashes

LiveInit == Init /\ crashes = 0

LiveNext ==
    \/ Steady /\ UNCHANGED crashes
    \/ /\ crashes < MaxCrashes
       /\ \E w \in Worker : Crash(w)
       /\ crashes' = crashes + 1

LiveSpec == LiveInit /\ [][LiveNext]_<<vars, crashes>> /\ Fairness
=============================================================================
