---------------------------- MODULE MCRegistration ---------------------------
(***************************************************************************)
(* One subscription at the first of two sources, a page and up to two      *)
(* confirmations it has sent, a preview valid until the next tick, and a   *)
(* period that ends soon or later.                                         *)
(***************************************************************************)
EXTENDS Registration, TLC

CONSTANTS s1, a1, a2

MCAt == (s1 :> a1)

MCSnapshots == {[active |-> TRUE, end |-> e, flag |-> FALSE] : e \in {2, 3}}

MCSymmetry == Permutations(Call)
=============================================================================
