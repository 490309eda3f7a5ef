----------------------------- MODULE MCCampaign -----------------------------
(***************************************************************************)
(* An instance of Campaign: two applications, a scan of the first, and     *)
(* three processes, one or two of which may hold calls of the review       *)
(* commands that looked at the case long ago.                              *)
(***************************************************************************)
EXTENDS Campaign, TLC

CONSTANTS ada, bob, rev, eve, a1, a2, s1, p1, p2, p3, confirmed,
          false_positive

MCFamily == [a \in Apps |-> a]
MCAppOf == [s \in Scans |-> a1]

Symmetry == Permutations(Procs) \cup Permutations({rev, eve}) \cup Permutations(Outcomes)
=============================================================================
