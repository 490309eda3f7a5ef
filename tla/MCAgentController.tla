------------------------- MODULE MCAgentController -------------------------
(***************************************************************************)
(* Small instances of AgentController.                                     *)
(***************************************************************************)
EXTENDS AgentController, TLC

CONSTANTS p1, p2

Symmetry == Permutations(Procs)
=============================================================================
