------------------------------ MODULE MCJobQueue -----------------------------
(***************************************************************************)
(* Two workers, two rows, two keys of which a command may cancel one.      *)
(***************************************************************************)
EXTENDS JobQueue

CONSTANTS k1, k2

MCKey == {k1, k2}
MCCommandKey == {k1}
=============================================================================
