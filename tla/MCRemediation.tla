--------------------------- MODULE MCRemediation ---------------------------
(***************************************************************************)
(* Small instances of Remediation: two web server threads, and people who  *)
(* may take several of the parts that have to be kept apart.               *)
(***************************************************************************)
EXTENDS Remediation

CONSTANTS p1, p2, dev, op, rev, wri, r1, r2

Symmetry == Permutations(Procs) \cup Permutations(Revisions)
=============================================================================
