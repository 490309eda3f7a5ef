--------------------------- MODULE MCWorkerSpool ---------------------------
(***************************************************************************)
(* Small instances of WorkerSpool: the values of its constants are in the  *)
(* configurations, one per question.                                       *)
(***************************************************************************)
EXTENDS WorkerSpool, TLC

CONSTANTS j1, w1, w2, w3, s1
=============================================================================
