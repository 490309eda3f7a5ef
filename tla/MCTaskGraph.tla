---------------------------- MODULE MCTaskGraph ----------------------------
(***************************************************************************)
(* A small instance of TaskGraph: every node may be attempted twice.       *)
(***************************************************************************)
EXTENDS TaskGraph, TLC

CONSTANTS n1, w1, w2

MCMaximumAttempts == [n \in Nodes |-> 2]
Symmetry == Permutations(Workers)
=============================================================================
