----------------------------- MODULE WorkflowRun -----------------------------
(***************************************************************************)
(* The workflow engine: runUntilPauseOrEnd of workflowruntime/runtime.go,  *)
(* from the start of an execution through its pauses for input to its end. *)
(* One execution, one segment of it at a time: a segment is one call of    *)
(* runUntilPauseOrEnd, and everything the call keeps in local variables    *)
(* (the queue, the pushed set, the arrivals) is gone when it returns and   *)
(* has to be rebuilt from the saved execution by the next one.             *)
(*                                                                         *)
(* Abstracted: variables, outputs, events other than node.branch, logs.    *)
(* What an executor answers is a free choice among what its kind allows.   *)
(* The order of the targets of one fan-out (canvas position or DSL order,  *)
(* by fanOutMode) and of the nodes re-queued on a resume (plan order) is a *)
(* free choice too; the queue is first-in first-out as in the code.        *)
(***************************************************************************)
EXTENDS WorkflowGraph, Lifecycle, Sequences

CONSTANTS None       \* no node

NoneAssumption == None \notin Id
ASSUME NoneAssumption

VARIABLES
    \* what the saved execution holds
    dsl,          \* WorkflowDSL
    nodeStatus,   \* NodeStates[n].Status
    branch,       \* handle of the last node.branch event of n
    waiting,      \* WaitingInput.NodeID
    life,         \* LifecycleEvents
    \* locals of the current segment
    phase,        \* where runUntilPauseOrEnd stands
    resumed,      \* options.ResumedNodeID
    queue,
    pushed,
    arrived,      \* arrivedSources
    current,      \* the node being executed
    attempt,
    stepCount

saved  == <<dsl, nodeStatus, branch, waiting, life>>
locals == <<phase, resumed, queue, pushed, arrived, current, attempt, stepCount>>
vars   == <<saved, locals>>

NodeRunStatus ==
    {"pending", "running", "waiting_input", "succeeded", "failed", "skipped"}

Phase == {"begin", "loop", "execute", "returned"}

status == StatusOf(life)

MaxSteps ==
    IF 8 * Cardinality(dsl.nodes) > 32 THEN 8 * Cardinality(dsl.nodes) ELSE 32

NodesIn(s) == {n \in dsl.nodes : nodeStatus[n] = s}

-----------------------------------------------------------------------------
\* All the ways to list a finite set: the orders a batch may be queued in.
Orderings(S) ==
    {s \in [1 .. Cardinality(S) -> S] : \A x \in S : \E i \in DOMAIN s : s[i] = x}

\* Mutant: enqueue() forgets to record what it queued.
EnqueueUnrecorded(q, batch, alreadyPushed) ==
    /\ \E s \in Orderings(batch) : queue' = q \o s
    /\ pushed' = alreadyPushed

\* enqueue() of a batch of nodes behind the queue `q`.
Enqueue(q, batch, alreadyPushed) ==
    /\ \E s \in Orderings(batch) : queue' = q \o s
    /\ pushed' = alreadyPushed \cup batch

\* Mutants: enqueue() does not look the node up; enqueue() ignores the join.
MayEnqueueUndeclared(n, arr) ==
    ShouldWaitAllIncoming(dsl, n) => Sources(dsl, n) \subseteq arr[n]
MayEnqueueEarly(n, arr) == n \in dsl.nodes

\* enqueue()'s own guard, when the arrivals are `arr`.
MayEnqueue(n, arr) ==
    /\ n \in dsl.nodes
    /\ ShouldWaitAllIncoming(dsl, n) => Sources(dsl, n) \subseteq arr[n]

\* Mutant: a resume counts on the queue to still hold what had been reached.
CanEnqueueRootsOnly(n, arr) == Sources(dsl, n) = {}

CanEnqueueFromHistory(n, arr) ==
    Sources(dsl, n) = {} \/ JoinSatisfied(dsl, n, arr[n])

\* markArrived for each edge of `edges`.
MarkArrived(edges) ==
    [t \in Id |-> arrived[t] \cup {e.source : e \in {x \in edges : x.target = t}}]

-----------------------------------------------------------------------------
Init ==
    /\ dsl \in Graphs
    /\ nodeStatus = [n \in Id |-> "pending"]
    /\ branch = [n \in Id |-> NoHandle]
    /\ waiting = None
    /\ life = LifeStep("idle", "BEGIN")
    /\ phase = "begin"
    /\ resumed = None
    /\ queue = << >>
    /\ pushed = {}
    /\ arrived = [n \in Id |-> {}]
    /\ current = None
    /\ attempt = 0
    /\ stepCount = 0

\* A fresh segment queues the start node, subject to its join policy.
Begin ==
    /\ phase = "begin"
    /\ Enqueue(queue, {n \in {dsl.start} : MayEnqueue(n, arrived)}, pushed)
    /\ phase' = "loop"
    /\ UNCHANGED <<saved, resumed, arrived, current, attempt, stepCount>>

\* failExecution.
FailExecution ==
    /\ life' = LifeStep(life, "FAIL")
    /\ phase' = "returned"
    /\ UNCHANGED <<nodeStatus, current, attempt>>

SkipFinished == UNCHANGED <<life, phase, nodeStatus, current, attempt>>

StartNode(n) ==
    /\ nodeStatus' = [nodeStatus EXCEPT ![n] = "running"]
    /\ current' = n
    /\ attempt' = 1
    /\ phase' = "execute"
    /\ UNCHANGED life

\* Mutant: the loop executes whatever the queue holds.
DequeueUnchecked ==
    /\ phase = "loop"
    /\ queue # << >>
    /\ queue' = Tail(queue)
    /\ stepCount' = stepCount + 1
    /\ IF stepCount + 1 > MaxSteps THEN FailExecution ELSE StartNode(Head(queue))
    /\ UNCHANGED <<dsl, branch, waiting, resumed, pushed, arrived>>

\* One turn of the loop: take the head of the queue, and execute it unless it
\* has been executed in an earlier segment.
Dequeue ==
    /\ phase = "loop"
    /\ queue # << >>
    /\ queue' = Tail(queue)
    /\ stepCount' = stepCount + 1
    /\ IF stepCount + 1 > MaxSteps THEN FailExecution
       ELSE IF nodeStatus[Head(queue)] \in {"succeeded", "skipped"}
            THEN SkipFinished
            ELSE StartNode(Head(queue))
    /\ UNCHANGED <<dsl, branch, waiting, resumed, pushed, arrived>>

-----------------------------------------------------------------------------
\* Which answers the executors can give for the current node.
HasInput    == dsl.kind[current] = "input" /\ resumed = current
CanSucceed  == dsl.kind[current] \in {"start", "task", "end"} \/ HasInput
CanFail     == dsl.kind[current] = "task" \/ HasInput
AsksForInput == dsl.kind[current] = "input" /\ resumed # current

\* A failed attempt of a node that has attempts left.
Retry ==
    /\ phase = "execute"
    /\ CanFail
    /\ attempt < dsl.retry[current] + 1
    /\ attempt' = attempt + 1
    /\ UNCHANGED <<saved, phase, resumed, queue, pushed, arrived, current, stepCount>>

\* NodeExecutorResultWaitingInput: the segment returns and forgets its queue.
PauseForInput ==
    /\ phase = "execute"
    /\ AsksForInput
    /\ nodeStatus' = [nodeStatus EXCEPT ![current] = "waiting_input"]
    /\ waiting' = current
    /\ life' = LifeStep(life, "WAIT_INPUT")
    /\ phase' = "returned"
    /\ current' = None
    /\ UNCHANGED <<dsl, branch, resumed, queue, pushed, arrived, attempt, stepCount>>

\* Mutant: the failed node's state is not written back.
NodeFailedUnmarked ==
    /\ phase = "execute"
    /\ CanFail
    /\ attempt >= dsl.retry[current] + 1
    /\ life' = LifeStep(life, "FAIL")
    /\ phase' = "returned"
    /\ current' = None
    /\ UNCHANGED <<dsl, nodeStatus, branch, waiting, resumed, queue, pushed,
                   arrived, attempt, stepCount>>

\* NodeExecutorResultFailed with no attempt left.
NodeFailed ==
    /\ phase = "execute"
    /\ CanFail
    /\ attempt >= dsl.retry[current] + 1
    /\ nodeStatus' = [nodeStatus EXCEPT ![current] = "failed"]
    /\ life' = LifeStep(life, "FAIL")
    /\ phase' = "returned"
    /\ current' = None
    /\ UNCHANGED <<dsl, branch, waiting, resumed, queue, pushed, arrived, attempt, stepCount>>

\* The end of a successful turn: mark the arrivals, queue what they unlock.
Forward(edges) ==
    LET arr   == MarkArrived(edges)
        batch == {t \in {e.target : e \in edges} \ pushed : MayEnqueue(t, arr)}
    IN  /\ arrived' = arr
        /\ Enqueue(queue, batch, pushed)
        /\ nodeStatus' = [nodeStatus EXCEPT ![current] = "succeeded"]
        /\ phase' = "loop"
        /\ current' = None
        /\ UNCHANGED <<dsl, waiting, life, resumed, attempt, stepCount>>

NodeSucceeded ==
    /\ phase = "execute"
    /\ CanSucceed
    /\ Forward(Out(dsl, current))
    /\ UNCHANGED branch

\* Mutant: an if-else node fans out like any other.
NodeBranchedEverywhere ==
    /\ phase = "execute"
    /\ dsl.kind[current] = "if-else"
    /\ \E h \in Handle \ {NoHandle} :
          /\ branch' = [branch EXCEPT ![current] = h]
          /\ Forward(Out(dsl, current))

\* NodeExecutorResultBranch: the chosen handle is kept in the events.
NodeBranched ==
    /\ phase = "execute"
    /\ dsl.kind[current] = "if-else"
    /\ \E h \in Handle \ {NoHandle} :
          /\ branch' = [branch EXCEPT ![current] = h]
          /\ Forward(SelectIfElseNextEdges(Out(dsl, current), h))

\* Mutant: the execution is only over when every node has had its turn.
CompleteWhenAllDone ==
    /\ phase = "loop"
    /\ queue = << >>
    /\ NodesIn("pending") = {}
    /\ life' = LifeStep(life, "COMPLETE")
    /\ phase' = "returned"
    /\ UNCHANGED <<dsl, nodeStatus, branch, waiting, resumed, queue, pushed,
                   arrived, current, attempt, stepCount>>

\* The queue ran empty: what was never reached is skipped.
Complete ==
    /\ phase = "loop"
    /\ queue = << >>
    /\ nodeStatus' = [n \in Id |-> IF n \in NodesIn("pending") THEN "skipped"
                                                               ELSE nodeStatus[n]]
    /\ life' = LifeStep(life, "COMPLETE")
    /\ phase' = "returned"
    /\ UNCHANGED <<dsl, branch, waiting, resumed, queue, pushed, arrived,
                   current, attempt, stepCount>>

-----------------------------------------------------------------------------
\* What seedArrivedFromHistory rebuilds from node states and branch events.
HistoryArrivals == ArrivalsFrom(dsl, NodesIn("succeeded"), branch)

\* Mutant: the resumed execution keeps its WaitingInput.
ResumeStillWaiting ==
    /\ phase = "returned"
    /\ status = "waiting_input"
    /\ waiting # None
    /\ LET eligible == {n \in NodesIn("pending") :
                           /\ CanEnqueueFromHistory(n, HistoryArrivals)
                           /\ MayEnqueue(n, HistoryArrivals)}
       IN  Enqueue(<<waiting>>, eligible, {waiting})
    /\ resumed' = waiting
    /\ arrived' = HistoryArrivals
    /\ life' = LifeStep(life, "RESUME")
    /\ nodeStatus' = [nodeStatus EXCEPT ![waiting] = "running"]
    /\ phase' = "loop"
    /\ current' = None
    /\ attempt' = 0
    /\ stepCount' = 0
    /\ UNCHANGED <<dsl, branch, waiting>>

\* prepareResumeExecution with valid input, and the head of the segment it
\* launches: the node that waited is queued whatever its join policy says,
\* and behind it every pending node its arrivals make eligible.
Resume ==
    /\ phase = "returned"
    /\ status = "waiting_input"
    /\ waiting # None
    /\ LET eligible == {n \in NodesIn("pending") :
                           /\ CanEnqueueFromHistory(n, HistoryArrivals)
                           /\ MayEnqueue(n, HistoryArrivals)}
       IN  Enqueue(<<waiting>>, eligible, {waiting})
    /\ resumed' = waiting
    /\ arrived' = HistoryArrivals
    /\ waiting' = None
    /\ life' = LifeStep(life, "RESUME")
    /\ nodeStatus' = [nodeStatus EXCEPT ![waiting] = "running"]
    /\ phase' = "loop"
    /\ current' = None
    /\ attempt' = 0
    /\ stepCount' = 0
    /\ UNCHANGED <<dsl, branch>>

Segment ==
    \/ Begin
    \/ Dequeue
    \/ Retry
    \/ PauseForInput
    \/ NodeFailed
    \/ NodeSucceeded
    \/ NodeBranched
    \/ Complete

Next == Segment \/ Resume

\* A segment runs on its own goroutine and nothing blocks it but an executor:
\* it is assumed to answer (HTTP requests have a time limit; a script or a
\* model that never answers holds its segment for ever).  Whether a user ever
\* answers a waiting execution is not assumed.
Spec == Init /\ [][Next]_vars /\ WF_vars(Segment)

-----------------------------------------------------------------------------
(* Properties. *)

\* Every variable keeps its type.
TypeOK ==
    /\ WellFormed(dsl)
    /\ nodeStatus \in [Id -> NodeRunStatus]
    /\ branch \in [Id -> Handle]
    /\ waiting \in dsl.nodes \cup {None}
    /\ life \in LifeState
    /\ phase \in Phase
    /\ resumed \in dsl.nodes \cup {None}
    /\ queue \in Seq(dsl.nodes)
    /\ pushed \subseteq dsl.nodes
    /\ arrived \in [Id -> SUBSET Id]
    /\ current \in dsl.nodes \cup {None}
    /\ attempt \in Nat
    /\ stepCount \in Nat

\* The execution's status, its WaitingInput and the node states tell the same
\* story: it waits exactly when one node waits, and that node is the one a
\* resume must name.  prepareResumeExecution rejects anything else.
WaitingCoherent ==
    /\ status = "waiting_input" <=> waiting # None
    /\ NodesIn("waiting_input") = {waiting} \ {None}

\* At most one node runs, and none once the segment has returned: the trace a
\* client renders from node.started and node.finished never overlaps.
OneNodeAtATime ==
    \A m, n \in NodesIn("running") : m = n /\ phase # "returned"

\* The arrivals a segment collects as it goes are those that
\* seedArrivedFromHistory would rebuild from the node states and the branch
\* events.  This is what makes it safe to drop them at a pause.
ArrivedIsHistory == arrived = HistoryArrivals

\* No node is executed before its join policy is satisfied, whatever pauses,
\* branches and resumes came before.
JoinRespected ==
    \A n \in dsl.nodes :
        nodeStatus[n] \notin {"pending", "skipped"} =>
            \/ n = dsl.start
            \/ Sources(dsl, n) = {}
            \/ JoinSatisfied(dsl, n, HistoryArrivals[n])

\* A completed execution has executed every node whose join policy was
\* satisfied: the queue that a pause drops costs nothing.
NothingLost ==
    status = "completed" =>
        \A n \in dsl.nodes \ {dsl.start} :
            Sources(dsl, n) # {} /\ JoinSatisfied(dsl, n, HistoryArrivals[n])
                => nodeStatus[n] = "succeeded"

\* The loop makes at most one turn per node, far below MaxSteps: the "possible
\* loop" failure cannot happen, whatever cycles the definition has.
LoopDetectionUnreachable == stepCount <= Cardinality(dsl.nodes)

\* A node that has succeeded is never executed again, although a later segment
\* may queue it once more (a second arrival at a joinMode=any node).
SucceededOnce ==
    [][\A n \in Id : nodeStatus[n] = "succeeded" => nodeStatus'[n] = "succeeded"]_vars

\* Every segment returns: the execution ends or waits for input.
SegmentReturns == phase # "returned" ~> phase = "returned"

\* Pauses and resumes are invisible in the result: the engine runs the
\* workflow as the plain data flow does.
DF == INSTANCE Dataflow WITH
          done    <- NodesIn("succeeded"),
          outcome <- IF status = "waiting_input" THEN "running" ELSE status

ImplementsDataflow == DF!Spec

\* What docs/workflow-runtime/README.md says of skipped nodes: unreachable ones
\* end as skipped.  A node without incoming edges that is not the start is
\* unreachable, yet a resume queues it.
UnreachableIsSkipped ==
    status = "completed" =>
        \A n \in dsl.nodes \ {dsl.start} :
            Sources(dsl, n) = {} => nodeStatus[n] = "skipped"

=============================================================================
