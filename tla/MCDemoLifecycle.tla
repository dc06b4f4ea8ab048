--------------------------- MODULE MCDemoLifecycle ---------------------------
(***************************************************************************)
(* Two demos of one starter scenario and one random number.                *)
(***************************************************************************)
EXTENDS DemoLifecycle
=============================================================================
