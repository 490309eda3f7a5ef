--------------------------- MODULE MCApprovalStore ---------------------------
(***************************************************************************)
(* One request of the maker, two checkers, a condition below and one above *)
(* the manifest's limit, and plans below, at and above both.               *)
(***************************************************************************)
EXTENDS ApprovalStore, TLC

CONSTANTS r1, maker, checker1, checker2

MCRequestedBy == [r \in Requests |-> maker]
Symmetry == Permutations({checker1, checker2})
=============================================================================
