--------------------------- MODULE MCPublication ---------------------------
(***************************************************************************)
(* Small instances of Publication: one web server thread, as the shipped   *)
(* configuration starts it, beside the recovery command.                   *)
(***************************************************************************)
EXTENDS Publication

CONSTANTS s1
=============================================================================
