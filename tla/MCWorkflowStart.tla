---------------------------- MODULE MCWorkflowStart ----------------------------
(***************************************************************************)
(* WorkflowStart with model values and two settings of the breaker.        *)
(***************************************************************************)
EXTENDS WorkflowStart, TLC

MCLimits == {[window |-> 1, max |-> 1], [window |-> 2, max |-> 2]}

MCSymmetry == Permutations(Edits) \cup Permutations(Starts)

=============================================================================
