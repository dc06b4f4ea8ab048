---------------------------- MODULE MCDecisions ------------------------------
(* Decisions for TLC: two proposals of one task, three transactions at a time. *)
EXTENDS Decisions, TLC

CONSTANTS c1, c2, c3

MCProposal == {1, 2}
MCCall == {c1, c2, c3}
MCSymmetry == Permutations(MCCall)
=============================================================================
