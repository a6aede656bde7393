-------------------------- MODULE MCExecutionService --------------------------
(***************************************************************************)
(* ExecutionService for a chain of nodes with requests as model values.    *)
(* The bounds of the runs are in their .cfg files.                         *)
(***************************************************************************)
EXTENDS ExecutionService

=============================================================================
