-------------------------- MODULE MCExecutionStore --------------------------
(***************************************************************************)
(* An instance of ExecutionStore: the worker command, a stop request that  *)
(* may overlap any of its steps, and two processes that die.               *)
(***************************************************************************)
EXTENDS ExecutionStore

CONSTANT r1
=============================================================================
