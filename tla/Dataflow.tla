------------------------------- MODULE Dataflow -------------------------------
(***************************************************************************)
(* What running a workflow means, with no queue, no pauses and no resumes: *)
(* a node may succeed once its join policy is satisfied by nodes that have *)
(* succeeded, and the execution completes only when no such node is left.  *)
(* A definition's start node needs no arrival, and the runtime also allows *)
(* that of every node without incoming edges (see UnreachableIsSkipped in  *)
(* WorkflowRun for what is surprising about the latter).                   *)
(***************************************************************************)
EXTENDS WorkflowGraph

VARIABLES
    dsl,       \* the definition being run
    done,      \* the nodes that have succeeded
    branch,    \* the handle each if-else node answered
    outcome    \* "running", "completed" or "failed"

dfVars == <<dsl, done, branch, outcome>>

\* n has work to do: its inputs are there and it has not been executed.
Ready(n) ==
    /\ n \in dsl.nodes \ done
    /\ JoinSatisfied(dsl, n, ArrivalsFrom(dsl, done, branch)[n])

Source(n) == n = dsl.start \/ Sources(dsl, n) = {}

Init ==
    /\ WellFormed(dsl)
    /\ done = {}
    /\ branch = [n \in Id |-> NoHandle]
    /\ outcome = "running"

Succeed(n) ==
    /\ outcome = "running"
    /\ n \in dsl.nodes \ done
    /\ Ready(n) \/ Source(n)
    /\ done' = done \cup {n}
    /\ IF dsl.kind[n] = "if-else"
       THEN \E h \in Handle \ {NoHandle} : branch' = [branch EXCEPT ![n] = h]
       ELSE UNCHANGED branch
    /\ UNCHANGED <<dsl, outcome>>

\* Completion is allowed only when nothing that received its inputs is left
\* out: a pause may delay such a node but must not lose it.
Complete ==
    /\ outcome = "running"
    /\ ~ \E n \in dsl.nodes \ {dsl.start} : Sources(dsl, n) # {} /\ Ready(n)
    /\ outcome' = "completed"
    /\ UNCHANGED <<dsl, done, branch>>

Fail ==
    /\ outcome = "running"
    /\ outcome' = "failed"
    /\ UNCHANGED <<dsl, done, branch>>

Next == (\E n \in Id : Succeed(n)) \/ Complete \/ Fail

Spec == Init /\ [][Next]_dfVars

=============================================================================
