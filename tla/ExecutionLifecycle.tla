-------------------------- MODULE ExecutionLifecycle --------------------------
(***************************************************************************)
(* What the repository's README promises of one execution's status ("the   *)
(* execution status flow"): running may pause for input and go on, finish  *)
(* or fail; running and waiting executions may be cancelled; a finished    *)
(* execution never moves again.                                            *)
(***************************************************************************)

VARIABLE status

Finished == {"completed", "failed", "cancelled"}

Init == status = "running"

Pause    == status = "running" /\ status' = "waiting_input"
Continue == status = "waiting_input" /\ status' = "running"
Complete == status = "running" /\ status' = "completed"
Fail     == status \in {"running", "waiting_input"} /\ status' = "failed"
Cancel   == status \in {"running", "waiting_input"} /\ status' = "cancelled"

Next == Pause \/ Continue \/ Complete \/ Fail \/ Cancel

Spec == Init /\ [][Next]_status

=============================================================================
