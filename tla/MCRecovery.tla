----------------------------- MODULE MCRecovery -----------------------------
(***************************************************************************)
(* Small instances of Recovery.                                            *)
(***************************************************************************)
EXTENDS RecoveryRefinement, TLC

MCApproval == <<"REQUIRE_APPROVAL">>
MCAuto == <<"AUTO_RECOVER">>
MCBoth == <<"REQUIRE_APPROVAL", "AUTO_RECOVER">>

MCSymmetry == Permutations(Worker)
=============================================================================
