------------------------------ MODULE Lifecycle ------------------------------
(***************************************************************************)
(* The automaton behind StatusFromLifecycleEvents                          *)
(* (workflowruntime/lifecycle.go).  The code folds it over the whole event *)
(* list each time it needs a status; the fold carries one value, so a      *)
(* snapshot's LifecycleEvents is represented by the automaton's state      *)
(* after them, and appending an event is one LifeStep.                     *)
(***************************************************************************)

LifeEvent == {"BEGIN", "WAIT_INPUT", "RESUME", "COMPLETE", "FAIL", "CANCEL"}

LifeState ==
    {"idle", "running", "waiting_input", "completed", "failed", "cancelled"}

ExecutionStatus == LifeState \ {"idle"}

\* Where each event leads from each state; every other event is ignored, and
\* so are all events of a finished execution.
LifeEdges ==
    { <<"idle",          "BEGIN",      "running">>,
      <<"running",       "WAIT_INPUT", "waiting_input">>,
      <<"running",       "COMPLETE",   "completed">>,
      <<"running",       "FAIL",       "failed">>,
      <<"running",       "CANCEL",     "cancelled">>,
      <<"waiting_input", "RESUME",     "running">>,
      <<"waiting_input", "FAIL",       "failed">>,
      <<"waiting_input", "CANCEL",     "cancelled">> }

LifeStep(life, event) ==
    IF \E to \in LifeState : <<life, event, to>> \in LifeEdges
    THEN CHOOSE to \in LifeState : <<life, event, to>> \in LifeEdges
    ELSE life

\* The status the code derives: an idle automaton still reads as running.
StatusOf(life) == IF life = "idle" THEN "running" ELSE life

=============================================================================
