------------------------ MODULE MCEngineeringLoop ------------------------
(* The instance of EngineeringLoop that TLC checks.                        *)
EXTENDS EngineeringLoop, TLC

\* The actors other than the builder are interchangeable, so are processes.
Symmetry == Permutations(People \ {Builder}) \cup Permutations(Procs)

\* The readings of the tree that are torn, in evidence files or on their way.
TornFiles == {<<k, i>> \in Kinds \X Iterations : Has(k, i) /\ evidence[k][i].torn}
TornCalls ==
  torn \cup {p \in Procs : call[p] # None /\ call[p].record # None /\ call[p].record.torn}
Tears == Cardinality(TornFiles) + Cardinality(TornCalls)

\* Bounds: one mishap, a torn reading included, and after it the loop is
\* followed until its second evaluation is over.
Followed ==
  /\ Tears + overlaps + crashes <= 1
  /\ Tears + overlaps + crashes > 0 => manifest.iteration <= 1
===========================================================================
