--------------------------- MODULE MCAssessmentRun ---------------------------
(***************************************************************************)
(* Instances of AssessmentRun, with and without crashes.                   *)
(***************************************************************************)
EXTENDS AssessmentRun
=============================================================================
