----------------------------- MODULE MCIngestion -----------------------------
(***************************************************************************)
(* An agent with one token and the page report on two requests, with two   *)
(* calls on the server at a time.                                          *)
(***************************************************************************)
EXTENDS Ingestion, TLC

MCSymmetry == Permutations(Call) \cup Permutations(Request)
=============================================================================
