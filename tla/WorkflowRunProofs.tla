--------------------------- MODULE WorkflowRunProofs ---------------------------
(***************************************************************************)
(* Theorems about WorkflowRun, for every finite set of definitions: any    *)
(* nodes, edges (cycles and dangling ones included) and join policies.     *)
(***************************************************************************)
EXTENDS WorkflowRun, FiniteSetTheorems, SequenceTheorems, TLAPS

-----------------------------------------------------------------------------
(* The inductive invariant. *)

InQueue(n) == \E i \in 1 .. Len(queue) : queue[i] = n

Live == phase \in {"loop", "execute"}

\* Nothing has happened before the first segment begins.
Fresh ==
    phase = "begin" =>
        /\ nodeStatus = [n \in Id |-> "pending"]
        /\ arrived = [n \in Id |-> {}]
        /\ queue = << >>
        /\ pushed = {}
        /\ stepCount = 0
        /\ waiting = None

\* The phase of the segment and the life cycle of the execution agree.
PhaseFits ==
    /\ phase = "execute" <=> current # None
    /\ phase = "returned" => life \in {"waiting_input", "completed", "failed"}
    /\ phase # "returned" => life = "running"

\* Failed and skipped nodes exist only once the execution is over.
StatusesFit ==
    /\ life # "failed" => NodesIn("failed") = {}
    /\ life # "completed" => NodesIn("skipped") = {}

\* The node that runs is the one being executed, or the resumed one that
\* heads the queue.
RunningFits ==
    /\ phase = "loop" => \A n \in NodesIn("running") : queue # << >> /\ n = Head(queue)
    /\ phase = "execute" => NodesIn("running") = {current}
    /\ phase \in {"begin", "returned"} => NodesIn("running") = {}

\* Every turn of the loop takes a node of the pushed set out of the queue.
TurnsCounted == stepCount + Len(queue) = Cardinality(pushed)

\* What has been pushed is still queued, is being executed or has succeeded.
PushedFits ==
    Live => \A n \in pushed : InQueue(n) \/ n = current \/ nodeStatus[n] = "succeeded"

\* n may be executed; n has to be executed.
Justified(n) ==
    n = dsl.start \/ Sources(dsl, n) = {} \/ JoinSatisfied(dsl, n, arrived[n])

Due(n) ==
    /\ n \in dsl.nodes \ {dsl.start}
    /\ Sources(dsl, n) # {}
    /\ JoinSatisfied(dsl, n, arrived[n])

QueueJustified == \A i \in 1 .. Len(queue) : Justified(queue[i])

ExecutedJustified ==
    \A n \in dsl.nodes : nodeStatus[n] \notin {"pending", "skipped"} => Justified(n)

\* Nothing that is due has been forgotten.
DueKept ==
    Live => \A n \in dsl.nodes :
                Due(n) => InQueue(n) \/ n = current \/ nodeStatus[n] = "succeeded"

CompletedAll ==
    life = "completed" => \A n \in dsl.nodes : Due(n) => nodeStatus[n] = "succeeded"

IInv ==
    /\ TypeOK
    /\ Fresh
    /\ PhaseFits
    /\ StatusesFit
    /\ RunningFits
    /\ WaitingCoherent
    /\ TurnsCounted
    /\ PushedFits
    /\ ArrivedIsHistory
    /\ QueueJustified
    /\ ExecutedJustified
    /\ DueKept
    /\ CompletedAll

-----------------------------------------------------------------------------
(* Definitions and batches. *)

\* What WellFormed says of the definition an execution runs.
LEMMA GraphFacts ==
    ASSUME WellFormed(dsl)
    PROVE  /\ dsl.nodes \subseteq Id /\ dsl.start \in dsl.nodes
           /\ IsFiniteSet(dsl.nodes) /\ Cardinality(dsl.nodes) \in Nat
           /\ Cardinality(dsl.nodes) >= 1
           /\ \A e \in dsl.edges : e.source \in Id /\ e.target \in Id
<1>1. dsl.nodes \subseteq Id /\ dsl.start \in dsl.nodes /\ dsl.edges \subseteq Edge
  BY DEF WellFormed, Graph
<1>2. IsFiniteSet(dsl.nodes) /\ Cardinality(dsl.nodes) \in Nat
  BY <1>1, GraphsAssumption, FS_Subset, FS_CardinalityType DEF GraphsAssumption
<1>3. Cardinality(dsl.nodes) >= 1
  <2>1. {dsl.start} \in SUBSET dsl.nodes /\ Cardinality({dsl.start}) = 1
    BY <1>1, FS_Singleton
  <2> QED
    BY <1>2, <2>1, FS_Subset
<1>4. \A e \in dsl.edges : e.source \in Id /\ e.target \in Id
  BY <1>1 DEF Edge
<1> QED
  BY <1>1, <1>2, <1>3, <1>4

\* An ordering of a finite set is a sequence of all of its members.
LEMMA OrderingsFit ==
    ASSUME NEW S, IsFiniteSet(S), NEW s \in Orderings(S)
    PROVE  /\ s \in Seq(S) /\ Len(s) = Cardinality(S) /\ Cardinality(S) \in Nat
           /\ \A x \in S : \E i \in 1 .. Len(s) : s[i] = x
<1>1. Cardinality(S) \in Nat
  BY FS_CardinalityType
<1>2. s \in [1 .. Cardinality(S) -> S] /\ \A x \in S : \E i \in DOMAIN s : s[i] = x
  BY DEF Orderings
<1> QED
  BY <1>1, <1>2

\* enqueue() puts a batch behind the queue.
LEMMA EnqueueFits ==
    ASSUME NEW N, IsFiniteSet(N), NEW q \in Seq(N), NEW batch \in SUBSET N, NEW done,
           Enqueue(q, batch, done)
    PROVE  /\ queue' \in Seq(N)
           /\ Len(queue') = Len(q) + Cardinality(batch)
           /\ Cardinality(batch) \in Nat
           /\ \A i \in 1 .. Len(q) : queue'[i] = q[i]
           /\ \A i \in 1 .. Len(queue') : i > Len(q) => queue'[i] \in batch
           /\ \A x \in batch : InQueue(x)'
           /\ pushed' = done \cup batch
<1>1. PICK s \in Orderings(batch) : queue' = q \o s
  BY DEF Enqueue
<1>2. IsFiniteSet(batch)
  BY FS_Subset
<1>3. /\ s \in Seq(batch) /\ Len(s) = Cardinality(batch) /\ Cardinality(batch) \in Nat
      /\ \A x \in batch : \E i \in 1 .. Len(s) : s[i] = x
  BY <1>2, OrderingsFit
<1>4. s \in Seq(N) /\ Len(q) \in Nat
  BY <1>3
<1>5. /\ queue' \in Seq(N)
      /\ Len(queue') = Len(q) + Cardinality(batch)
      /\ \A i \in 1 .. Len(q) : queue'[i] = q[i]
      /\ \A i \in 1 .. Len(s) : queue'[Len(q) + i] = s[i]
  <2>1. /\ q \o s \in Seq(N) /\ Len(q \o s) = Len(q) + Len(s)
        /\ \A i \in 1 .. Len(q) + Len(s) :
              (q \o s)[i] = IF i <= Len(q) THEN q[i] ELSE s[i - Len(q)]
    BY <1>4, ConcatProperties
  <2>2. \A i \in 1 .. Len(s) : Len(q) + i - Len(q) = i
    BY <1>3, <1>4
  <2> QED
    BY <1>1, <1>3, <1>4, <2>1, <2>2
<1>6. ASSUME NEW i \in 1 .. Len(queue'), i > Len(q) PROVE queue'[i] \in batch
  <2>1. i - Len(q) \in 1 .. Len(s) /\ Len(q) + (i - Len(q)) = i
    BY <1>3, <1>4, <1>5, <1>6
  <2>2. s[i - Len(q)] \in batch
    BY <1>3, <2>1
  <2> QED
    BY <1>5, <2>1, <2>2
<1>7. ASSUME NEW x \in batch PROVE InQueue(x)'
  <2>1. PICK i \in 1 .. Len(s) : s[i] = x
    BY <1>3
  <2>2. Len(q) + i \in 1 .. Len(queue') /\ queue'[Len(q) + i] = x
    BY <1>3, <1>4, <1>5, <2>1
  <2> QED
    BY <2>2 DEF InQueue
<1>8. pushed' = done \cup batch
  BY DEF Enqueue
<1> QED
  BY <1>3, <1>5, <1>6, <1>7, <1>8

\* A join policy that is satisfied stays satisfied as more sources arrive.
LEMMA JoinMonotonic ==
    ASSUME NEW n, NEW A, NEW B, A \subseteq B, JoinSatisfied(dsl, n, A)
    PROVE  JoinSatisfied(dsl, n, B)
  BY DEF JoinSatisfied

\* enqueue()'s guard is the join policy, for a node that something has reached.
LEMMA MayEnqueueIsJoin ==
    ASSUME NEW n, NEW arr, arr[n] # {}
    PROVE  MayEnqueue(n, arr) <=> n \in dsl.nodes /\ JoinSatisfied(dsl, n, arr[n])
  BY DEF MayEnqueue, JoinSatisfied

-----------------------------------------------------------------------------
(* What the invariant says at the head of the loop and at its body. *)

\* While an attempt of a node is under way, that node is the only one that runs.
LEMMA ExecutingFacts ==
    ASSUME IInv, phase = "execute"
    PROVE  /\ current \in dsl.nodes /\ current \in Id /\ current # None
           /\ nodeStatus[current] = "running" /\ NodesIn("running") = {current}
           /\ life = "running" /\ waiting = None
           /\ NodesIn("waiting_input") = {}
<1>1. current \in dsl.nodes /\ current \in Id /\ current # None
  BY GraphFacts DEF IInv, TypeOK, PhaseFits
<1>2. NodesIn("running") = {current} /\ life = "running"
  BY DEF IInv, RunningFits, PhaseFits
<1>3. waiting = None /\ NodesIn("waiting_input") = {}
  BY <1>2 DEF IInv, WaitingCoherent, status, StatusOf
<1>4. nodeStatus[current] = "running"
  BY <1>2 DEF NodesIn
<1> QED
  BY <1>1, <1>2, <1>3, <1>4

\* At the head of the loop the execution runs and nothing waits or has failed.
LEMMA LoopingFacts ==
    ASSUME IInv, phase = "loop"
    PROVE  /\ current = None /\ life = "running" /\ waiting = None
           /\ NodesIn("waiting_input") = {} /\ NodesIn("failed") = {} /\ NodesIn("skipped") = {}
<1>1. current = None /\ life = "running"
  BY DEF IInv, PhaseFits
<1> QED
  BY <1>1 DEF IInv, WaitingCoherent, status, StatusOf, StatusesFit

\* Taking the head of the queue.
LEMMA QueueFacts ==
    ASSUME TypeOK, queue # << >>
    PROVE  /\ Head(queue) \in dsl.nodes /\ Head(queue) = queue[1]
           /\ Len(queue) \in Nat /\ Len(queue) >= 1
           /\ Tail(queue) \in Seq(dsl.nodes) /\ Len(Tail(queue)) = Len(queue) - 1
           /\ \A i \in 1 .. Len(Tail(queue)) : Tail(queue)[i] = queue[i + 1]
           /\ \A n : InQueue(n) => n = Head(queue)
                        \/ \E i \in 1 .. Len(Tail(queue)) : Tail(queue)[i] = n
<1>1. queue \in Seq(dsl.nodes)
  BY DEF TypeOK
<1>2. /\ Head(queue) \in dsl.nodes /\ Head(queue) = queue[1]
      /\ Len(queue) \in Nat /\ Len(queue) >= 1
      /\ Tail(queue) \in Seq(dsl.nodes) /\ Len(Tail(queue)) = Len(queue) - 1
      /\ \A i \in 1 .. Len(Tail(queue)) : Tail(queue)[i] = queue[i + 1]
  BY <1>1, HeadTailProperties, EmptySeq
<1>3. ASSUME NEW n, InQueue(n), n # Head(queue)
      PROVE  \E i \in 1 .. Len(Tail(queue)) : Tail(queue)[i] = n
  <2>1. PICK i \in 1 .. Len(queue) : queue[i] = n
    BY <1>3 DEF InQueue
  <2>2. i - 1 \in 1 .. Len(Tail(queue)) /\ i - 1 + 1 = i
    BY <1>2, <1>3, <2>1
  <2> QED
    BY <1>2, <2>1, <2>2
<1> QED
  BY <1>2, <1>3

\* The loop has turns to spare: it stops for an empty queue first.
LEMMA TurnsToSpare ==
    ASSUME IInv
    PROVE  stepCount + Len(queue) <= Cardinality(dsl.nodes) /\ Len(queue) \in Nat
<1>1. WellFormed(dsl) /\ pushed \in SUBSET dsl.nodes /\ queue \in Seq(dsl.nodes)
  BY DEF IInv, TypeOK
<1>2. Cardinality(pushed) <= Cardinality(dsl.nodes)
  BY <1>1, GraphFacts, FS_Subset
<1> QED
  BY <1>1, <1>2 DEF IInv, TurnsCounted

\* Nothing about arrivals changes with steps that leave the succeeded nodes and
\* the branches alone.
LEMMA SameArrivals ==
    ASSUME UNCHANGED <<dsl, branch, arrived>>, NodesIn("succeeded")' = NodesIn("succeeded"),
           ArrivedIsHistory
    PROVE  /\ ArrivedIsHistory'
           /\ \A n : Justified(n)' <=> Justified(n)
           /\ \A n : Due(n)' <=> Due(n)
  BY DEF ArrivedIsHistory, HistoryArrivals, Justified, Due

-----------------------------------------------------------------------------
(* Every action keeps the invariant. *)

\* What the invariant says does not depend on the attempt counter alone.
LEMMA SameButAttempt ==
    ASSUME IInv, UNCHANGED <<saved, phase, resumed, queue, pushed, arrived, current, stepCount>>,
           attempt' \in Nat
    PROVE  IInv'
<1> USE DEF IInv, saved, NodesIn
<1>1. TypeOK'
  BY DEF TypeOK
<1>2. Fresh' /\ PhaseFits' /\ StatusesFit' /\ RunningFits' /\ TurnsCounted'
  BY DEF Fresh, PhaseFits, StatusesFit, RunningFits, TurnsCounted
<1>3. WaitingCoherent' /\ PushedFits'
  BY DEF WaitingCoherent, status, PushedFits, InQueue, Live
<1>4. /\ ArrivedIsHistory'
      /\ \A n : Justified(n)' <=> Justified(n)
      /\ \A n : Due(n)' <=> Due(n)
  BY SameArrivals
<1>5. QueueJustified' /\ ExecutedJustified'
  BY <1>4 DEF QueueJustified, ExecutedJustified
<1>6. DueKept' /\ CompletedAll'
  BY <1>4 DEF DueKept, CompletedAll, InQueue, Live
<1> QED
  BY <1>1, <1>2, <1>3, <1>4, <1>5, <1>6

\* The retry loop around executor.Execute changes the attempt counter only.
LEMMA RetryKeeps ==
    ASSUME IInv, Retry
    PROVE  IInv'
<1>1. attempt' \in Nat
  BY DEF Retry, IInv, TypeOK
<1> QED
  BY <1>1, SameButAttempt DEF Retry

\* The first segment queues the start node.
LEMMA BeginKeeps ==
    ASSUME IInv, Begin
    PROVE  IInv'
<1> DEFINE batch == {n \in {dsl.start} : MayEnqueue(n, arrived)}
<1>1. /\ phase = "begin" /\ phase' = "loop" /\ life = "running" /\ current = None
      /\ queue = << >> /\ pushed = {} /\ stepCount = 0 /\ waiting = None
      /\ nodeStatus = [n \in Id |-> "pending"] /\ arrived = [n \in Id |-> {}]
      /\ UNCHANGED <<saved, resumed, arrived, current, attempt, stepCount>>
  BY DEF Begin, IInv, Fresh, PhaseFits
<1>2. /\ WellFormed(dsl)
      /\ IsFiniteSet(dsl.nodes)
      /\ dsl.nodes \subseteq Id
      /\ batch \in SUBSET dsl.nodes
      /\ queue \in Seq(dsl.nodes)
  BY GraphFacts DEF IInv, TypeOK
<1>3. Enqueue(queue, batch, pushed)
  BY DEF Begin
<1> HIDE DEF batch
<1>4. /\ /\ queue' \in Seq(dsl.nodes)
      /\ Len(queue') = Cardinality(batch)
      /\ Cardinality(batch) \in Nat
      /\ \A i \in 1 .. Len(queue') : queue'[i] \in batch
      /\ \A x \in batch : InQueue(x)'
      /\ pushed' = batch
  <2>1. Len(queue) = 0
    BY <1>1
  <2>2. /\ queue' \in Seq(dsl.nodes) /\ Len(queue') = Len(queue) + Cardinality(batch)
        /\ Cardinality(batch) \in Nat
        /\ \A i \in 1 .. Len(queue') : i > Len(queue) => queue'[i] \in batch
        /\ \A x \in batch : InQueue(x)'
        /\ pushed' = pushed \cup batch
    BY <1>2, <1>3, EnqueueFits
  <2> QED
    BY <1>1, <2>1, <2>2
<1>5. TypeOK'
  BY <1>1, <1>2, <1>4 DEF IInv, TypeOK, saved, Phase
<1>6. NodesIn("running") = {} /\ NodesIn("succeeded") = {} /\ NodesIn("failed") = {}
      /\ \A s : NodesIn(s)' = NodesIn(s)
  BY <1>1, <1>2 DEF NodesIn, saved
<1>7. Fresh' /\ PhaseFits' /\ StatusesFit' /\ RunningFits' /\ TurnsCounted'
  BY <1>1, <1>4, <1>6
  DEF IInv, Fresh, PhaseFits, StatusesFit, RunningFits, TurnsCounted, saved
<1>8. WaitingCoherent' /\ PushedFits'
  BY <1>1, <1>4, <1>6 DEF IInv, WaitingCoherent, status, PushedFits, saved
<1>9. /\ ArrivedIsHistory'
      /\ \A n : Justified(n)' <=> Justified(n)
      /\ \A n : Due(n)' <=> Due(n)
  BY <1>1, <1>6, SameArrivals DEF IInv, saved
<1>10. QueueJustified'
  BY <1>4, <1>9 DEF QueueJustified, Justified, batch
<1>11. ExecutedJustified'
  BY <1>1, <1>9 DEF IInv, ExecutedJustified, saved
<1>12. \A n \in dsl.nodes : ~ Due(n)
  BY <1>1, <1>2 DEF Due, JoinSatisfied
<1>13. DueKept' /\ CompletedAll'
  BY <1>1, <1>9, <1>12 DEF DueKept, CompletedAll, saved
<1> QED
  BY <1>5, <1>7, <1>8, <1>9, <1>10, <1>11, <1>13 DEF IInv

\* A turn of the loop starts the head of the queue, or drops it when it has
\* succeeded in an earlier segment.
LEMMA DequeueKeeps ==
    ASSUME IInv, Dequeue
    PROVE  IInv'
<1>1. /\ /\ phase = "loop"
      /\ queue # << >>
      /\ queue' = Tail(queue)
      /\ stepCount' = stepCount + 1
      /\ UNCHANGED <<dsl, branch, waiting, resumed, pushed, arrived>>
  BY DEF Dequeue
<1>2. /\ current = None /\ life = "running" /\ waiting = None
      /\ NodesIn("waiting_input") = {} /\ NodesIn("failed") = {} /\ NodesIn("skipped") = {}
  BY <1>1, LoopingFacts
<1>3. /\ Head(queue) \in dsl.nodes /\ Head(queue) = queue[1]
      /\ Len(queue) \in Nat /\ Len(queue) >= 1
      /\ Tail(queue) \in Seq(dsl.nodes) /\ Len(Tail(queue)) = Len(queue) - 1
      /\ \A i \in 1 .. Len(Tail(queue)) : Tail(queue)[i] = queue[i + 1]
      /\ \A n : InQueue(n) => n = Head(queue) \/ InQueue(n)'
  BY <1>1, QueueFacts DEF IInv, InQueue
<1>4. ~ (stepCount + 1 > MaxSteps)
  <2>1. stepCount \in Nat /\ Cardinality(dsl.nodes) \in Nat
    BY GraphFacts DEF IInv, TypeOK
  <2> QED
    BY <1>3, <2>1, TurnsToSpare DEF MaxSteps
<1>5. WellFormed(dsl) /\ dsl.nodes \subseteq Id
  BY GraphFacts DEF IInv, TypeOK
<1>6. TurnsCounted'
  BY <1>1, <1>3 DEF IInv, TypeOK, TurnsCounted
<1>7. \A i \in 1 .. Len(queue') : i + 1 \in 1 .. Len(queue) /\ queue'[i] = queue[i + 1]
  BY <1>1, <1>3
<1>8. CASE nodeStatus[Head(queue)] \in {"succeeded", "skipped"}
  <2>1. UNCHANGED <<life, phase, nodeStatus, current, attempt>>
    BY <1>4, <1>8 DEF Dequeue, SkipFinished, FailExecution
  <2>2. nodeStatus[Head(queue)] = "succeeded"
    BY <1>2, <1>3, <1>8 DEF NodesIn
  <2>3. \A s : NodesIn(s)' = NodesIn(s)
    BY <1>1, <2>1 DEF NodesIn
  <2>4. TypeOK'
    BY <1>1, <1>3, <2>1 DEF IInv, TypeOK
  <2>5. NodesIn("running") = {}
    BY <1>1, <2>2 DEF IInv, RunningFits, NodesIn
  <2>6. Fresh' /\ PhaseFits' /\ StatusesFit' /\ RunningFits'
    BY <1>1, <1>2, <2>1, <2>3, <2>5
    DEF IInv, Fresh, PhaseFits, StatusesFit, RunningFits
  <2>7. WaitingCoherent'
    BY <1>1, <2>1, <2>3 DEF IInv, WaitingCoherent, status
  <2>8. PushedFits'
    BY <1>1, <1>3, <2>1, <2>2 DEF IInv, PushedFits, Live
  <2>9. /\ ArrivedIsHistory'
        /\ \A n : Justified(n)' <=> Justified(n)
        /\ \A n : Due(n)' <=> Due(n)
    BY <1>1, <2>3, SameArrivals DEF IInv
  <2>10. QueueJustified' /\ ExecutedJustified'
    BY <1>1, <1>7, <2>1, <2>9 DEF IInv, QueueJustified, ExecutedJustified
  <2>11. DueKept' /\ CompletedAll'
    BY <1>1, <1>2, <1>3, <2>1, <2>2, <2>9 DEF IInv, DueKept, CompletedAll, Live
  <2> QED
    BY <1>6, <2>4, <2>6, <2>7, <2>8, <2>9, <2>10, <2>11 DEF IInv
<1>9. CASE nodeStatus[Head(queue)] \notin {"succeeded", "skipped"}
  <2>1. StartNode(Head(queue))
    BY <1>4, <1>9 DEF Dequeue, FailExecution
  <2>2. /\ nodeStatus' = [nodeStatus EXCEPT ![Head(queue)] = "running"]
        /\ current' = Head(queue) /\ attempt' = 1 /\ phase' = "execute" /\ life' = life
    BY <2>1 DEF StartNode
  <2>3. nodeStatus \in [Id -> NodeRunStatus] /\ Head(queue) \in Id /\ Head(queue) # None
    BY <1>3, <1>5, NoneAssumption DEF IInv, TypeOK, NoneAssumption
  <2>4. /\ NodesIn("running") \subseteq {Head(queue)}
        /\ NodesIn("running")' = {Head(queue)}
        /\ NodesIn("succeeded")' = NodesIn("succeeded")
        /\ NodesIn("waiting_input")' = {} /\ NodesIn("failed")' = {} /\ NodesIn("skipped")' = {}
    <3>1. NodesIn("running") \subseteq {Head(queue)}
      BY <1>1 DEF IInv, RunningFits
    <3> QED
      BY <1>1, <1>2, <1>3, <1>9, <2>2, <2>3, <3>1 DEF NodesIn
  <2>5. TypeOK'
    BY <1>1, <1>3, <2>2, <2>3 DEF IInv, TypeOK, NodeRunStatus, Phase
  <2>6. Fresh' /\ PhaseFits' /\ StatusesFit' /\ RunningFits'
    BY <1>1, <1>2, <2>2, <2>3, <2>4
    DEF Fresh, PhaseFits, StatusesFit, RunningFits
  <2>7. WaitingCoherent'
    BY <1>1, <1>2, <2>2, <2>4 DEF WaitingCoherent, status, StatusOf
  <2>8. PushedFits'
    <3>1. pushed \subseteq dsl.nodes /\ \A n \in dsl.nodes : n # current
      BY <1>2, <1>5, NoneAssumption DEF IInv, TypeOK, NoneAssumption
    <3> QED
      BY <1>1, <1>3, <1>5, <2>2, <2>3, <3>1 DEF IInv, PushedFits, Live
  <2>9. /\ ArrivedIsHistory'
        /\ \A n : Justified(n)' <=> Justified(n)
        /\ \A n : Due(n)' <=> Due(n)
    BY <1>1, <2>4, SameArrivals DEF IInv
  <2>10. QueueJustified'
    BY <1>7, <2>9 DEF IInv, QueueJustified
  <2>11. ExecutedJustified'
    <3>1. Justified(Head(queue))
      BY <1>3 DEF IInv, QueueJustified
    <3> QED
      BY <1>1, <2>2, <2>3, <2>9, <3>1 DEF IInv, ExecutedJustified
  <2>12. DueKept' /\ CompletedAll'
    <3>1. \A n \in dsl.nodes : n # current
      BY <1>2, <1>5, NoneAssumption DEF NoneAssumption
    <3> QED
      BY <1>1, <1>2, <1>3, <1>5, <2>2, <2>3, <2>9, <3>1
      DEF IInv, DueKept, CompletedAll, Live
  <2> QED
    BY <1>6, <2>5, <2>6, <2>7, <2>8, <2>9, <2>10, <2>11, <2>12 DEF IInv
<1> QED
  BY <1>8, <1>9

\* A pause: the queue is given up, but the execution waits.
LEMMA PauseForInputKeeps ==
    ASSUME IInv, PauseForInput
    PROVE  IInv'
<1>1. /\ /\ phase = "execute"
      /\ phase' = "returned"
      /\ current' = None
      /\ waiting' = current
      /\ nodeStatus' = [nodeStatus EXCEPT ![current] = "waiting_input"]
      /\ UNCHANGED <<dsl, branch, resumed, queue, pushed, arrived, attempt, stepCount>>
  BY DEF PauseForInput
<1>2. /\ current \in dsl.nodes /\ current \in Id /\ current # None
      /\ nodeStatus[current] = "running" /\ NodesIn("running") = {current}
      /\ life = "running" /\ NodesIn("waiting_input") = {}
  BY <1>1, ExecutingFacts
<1>3. life' = "waiting_input"
  BY <1>2 DEF PauseForInput, LifeStep, LifeEdges, LifeState
<1>4. nodeStatus \in [Id -> NodeRunStatus] /\ dsl.nodes \subseteq Id
  BY GraphFacts DEF IInv, TypeOK
<1>5. /\ NodesIn("running")' = {} /\ NodesIn("waiting_input")' = {current}
      /\ NodesIn("succeeded")' = NodesIn("succeeded")
      /\ NodesIn("failed")' = NodesIn("failed") /\ NodesIn("skipped")' = NodesIn("skipped")
  BY <1>1, <1>2, <1>4 DEF NodesIn
<1>6. TypeOK'
  BY <1>1, <1>2, <1>3, <1>4 DEF IInv, TypeOK, NodeRunStatus, Phase, LifeState
<1>7. /\ Fresh'
      /\ PhaseFits'
      /\ StatusesFit'
      /\ RunningFits'
      /\ TurnsCounted'
      /\ PushedFits'
  BY <1>1, <1>2, <1>3, <1>5
  DEF IInv, Fresh, PhaseFits, StatusesFit, RunningFits, TurnsCounted, PushedFits, Live
<1>8. WaitingCoherent'
  BY <1>1, <1>2, <1>3, <1>5 DEF WaitingCoherent, status, StatusOf
<1>9. /\ ArrivedIsHistory'
      /\ \A n : Justified(n)' <=> Justified(n)
      /\ \A n : Due(n)' <=> Due(n)
  BY <1>1, <1>5, SameArrivals DEF IInv
<1>10. QueueJustified'
  BY <1>1, <1>9 DEF IInv, QueueJustified
<1>11. ExecutedJustified'
  BY <1>1, <1>2, <1>4, <1>9 DEF IInv, ExecutedJustified
<1>12. DueKept' /\ CompletedAll'
  BY <1>1, <1>3 DEF DueKept, CompletedAll, Live
<1> QED
  BY <1>6, <1>7, <1>8, <1>9, <1>10, <1>11, <1>12 DEF IInv

\* A failure ends the execution.
LEMMA NodeFailedKeeps ==
    ASSUME IInv, NodeFailed
    PROVE  IInv'
<1>1. /\ phase = "execute" /\ phase' = "returned" /\ current' = None
      /\ nodeStatus' = [nodeStatus EXCEPT ![current] = "failed"]
      /\ UNCHANGED <<dsl, branch, waiting, resumed, queue, pushed, arrived, attempt, stepCount>>
  BY DEF NodeFailed
<1>2. /\ current \in dsl.nodes /\ current \in Id /\ current # None
      /\ nodeStatus[current] = "running" /\ NodesIn("running") = {current}
      /\ life = "running" /\ waiting = None /\ NodesIn("waiting_input") = {}
  BY <1>1, ExecutingFacts
<1>3. life' = "failed"
  BY <1>2 DEF NodeFailed, LifeStep, LifeEdges, LifeState
<1>4. nodeStatus \in [Id -> NodeRunStatus] /\ dsl.nodes \subseteq Id
  BY GraphFacts DEF IInv, TypeOK
<1>5. /\ NodesIn("running")' = {} /\ NodesIn("waiting_input")' = {}
      /\ NodesIn("succeeded")' = NodesIn("succeeded")
      /\ NodesIn("skipped")' = NodesIn("skipped")
  BY <1>1, <1>2, <1>4 DEF NodesIn
<1>6. TypeOK'
  BY <1>1, <1>3, <1>4 DEF IInv, TypeOK, NodeRunStatus, Phase, LifeState
<1>7. /\ Fresh'
      /\ PhaseFits'
      /\ StatusesFit'
      /\ RunningFits'
      /\ TurnsCounted'
      /\ PushedFits'
  BY <1>1, <1>2, <1>3, <1>5
  DEF IInv, Fresh, PhaseFits, StatusesFit, RunningFits, TurnsCounted, PushedFits, Live
<1>8. WaitingCoherent'
  BY <1>1, <1>2, <1>3, <1>5 DEF WaitingCoherent, status, StatusOf
<1>9. /\ ArrivedIsHistory'
      /\ \A n : Justified(n)' <=> Justified(n)
      /\ \A n : Due(n)' <=> Due(n)
  BY <1>1, <1>5, SameArrivals DEF IInv
<1>10. QueueJustified'
  BY <1>1, <1>9 DEF IInv, QueueJustified
<1>11. ExecutedJustified'
  BY <1>1, <1>2, <1>4, <1>9 DEF IInv, ExecutedJustified
<1>12. DueKept' /\ CompletedAll'
  BY <1>1, <1>3 DEF DueKept, CompletedAll, Live
<1> QED
  BY <1>6, <1>7, <1>8, <1>9, <1>10, <1>11, <1>12 DEF IInv

\* The end of the loop: what was never reached is skipped, and nothing of what
\* is skipped was due.
LEMMA CompleteKeeps ==
    ASSUME IInv, Complete
    PROVE  IInv'
<1>1. /\ phase = "loop" /\ queue = << >> /\ phase' = "returned"
      /\ nodeStatus' = [n \in Id |-> IF n \in NodesIn("pending") THEN "skipped"
                                                                 ELSE nodeStatus[n]]
      /\ UNCHANGED <<dsl, branch, waiting, resumed, queue, pushed, arrived, current,
                     attempt, stepCount>>
  BY DEF Complete
<1>2. /\ current = None /\ life = "running" /\ waiting = None
      /\ NodesIn("waiting_input") = {} /\ NodesIn("failed") = {} /\ NodesIn("skipped") = {}
  BY <1>1, LoopingFacts
<1>3. life' = "completed"
  BY <1>2 DEF Complete, LifeStep, LifeEdges, LifeState
<1>4. nodeStatus \in [Id -> NodeRunStatus] /\ dsl.nodes \subseteq Id
  BY GraphFacts DEF IInv, TypeOK
<1>5. NodesIn("running") = {}
  BY <1>1 DEF IInv, RunningFits, NodesIn
<1>6. /\ NodesIn("running")' = {} /\ NodesIn("waiting_input")' = {}
      /\ NodesIn("succeeded")' = NodesIn("succeeded") /\ NodesIn("failed")' = {}
  BY <1>1, <1>2, <1>4, <1>5 DEF NodesIn
<1>7. TypeOK'
  BY <1>1, <1>3, <1>4 DEF IInv, TypeOK, NodeRunStatus, Phase, LifeState
<1>8. /\ Fresh'
      /\ PhaseFits'
      /\ StatusesFit'
      /\ RunningFits'
      /\ TurnsCounted'
      /\ PushedFits'
  BY <1>1, <1>2, <1>3, <1>6
  DEF IInv, Fresh, PhaseFits, StatusesFit, RunningFits, TurnsCounted, PushedFits, Live
<1>9. WaitingCoherent'
  BY <1>1, <1>2, <1>3, <1>6 DEF WaitingCoherent, status, StatusOf
<1>10. /\ ArrivedIsHistory'
       /\ \A n : Justified(n)' <=> Justified(n)
       /\ \A n : Due(n)' <=> Due(n)
  BY <1>1, <1>6, SameArrivals DEF IInv
<1>11. QueueJustified'
  BY <1>1, <1>10 DEF IInv, QueueJustified
<1>12. ExecutedJustified'
  BY <1>1, <1>4, <1>10 DEF IInv, ExecutedJustified, NodesIn
<1>13. \A n \in dsl.nodes : Due(n) => nodeStatus[n] = "succeeded"
  <2>1. \A n \in dsl.nodes : n # current /\ ~ InQueue(n)
    BY <1>1, <1>2, <1>4, NoneAssumption DEF InQueue, NoneAssumption
  <2> QED
    BY <1>1, <2>1 DEF IInv, DueKept, Live
<1>14. DueKept' /\ CompletedAll'
  BY <1>1, <1>4, <1>10, <1>13 DEF DueKept, CompletedAll, Live, NodesIn
<1> QED
  BY <1>7, <1>8, <1>9, <1>10, <1>11, <1>12, <1>14 DEF IInv

\* A node that succeeds and sends its arrivals along `edges`, when history will
\* credit it with exactly these edges.
LEMMA ForwardKeeps ==
    ASSUME IInv, phase = "execute", NEW edges, edges \subseteq Out(dsl, current),
           Forward(edges), branch' \in [Id -> Handle],
           TakenEdges(dsl, current, branch'[current]) = edges,
           \A n \in Id : n # current => branch'[n] = branch[n]
    PROVE  IInv'
<1> DEFINE arr   == MarkArrived(edges)
           batch == {t \in {e.target : e \in edges} \ pushed : MayEnqueue(t, arr)}
<1>1. /\ arrived' = arr
      /\ nodeStatus' = [nodeStatus EXCEPT ![current] = "succeeded"]
      /\ phase' = "loop" /\ current' = None
      /\ UNCHANGED <<dsl, waiting, life, resumed, attempt, stepCount>>
  BY DEF Forward
<1>2. /\ current \in dsl.nodes /\ current \in Id /\ current # None
      /\ nodeStatus[current] = "running" /\ NodesIn("running") = {current}
      /\ life = "running" /\ waiting = None /\ NodesIn("waiting_input") = {}
  BY ExecutingFacts
<1>3. /\ /\ WellFormed(dsl)
      /\ nodeStatus \in [Id -> NodeRunStatus]
      /\ dsl.nodes \subseteq Id
      /\ IsFiniteSet(dsl.nodes) /\ queue \in Seq(dsl.nodes) /\ pushed \in SUBSET dsl.nodes
      /\ arrived \in [Id -> SUBSET Id]
      /\ \A e \in dsl.edges : e.source \in Id /\ e.target \in Id
  BY GraphFacts DEF IInv, TypeOK
<1>4. \A e \in edges : e \in dsl.edges /\ e.source = current /\ e.target \in Id
  BY <1>3 DEF Out
\* The arrivals.
<1>5. \A t \in Id : arr[t] = IF \E e \in edges : e.target = t THEN arrived[t] \cup {current}
                                                           ELSE arrived[t]
  <2> SUFFICES ASSUME NEW t \in Id
               PROVE  arr[t] = IF \E e \in edges : e.target = t THEN arrived[t] \cup {current}
                                                                ELSE arrived[t]
    OBVIOUS
  <2>1. arr[t] = arrived[t] \cup {e.source : e \in {x \in edges : x.target = t}}
    BY DEF MarkArrived
  <2> QED
    BY <1>4, <2>1
<1>6. arr = [t \in Id |-> arr[t]]
  BY DEF MarkArrived
<1> HIDE DEF arr
<1>7. arr \in [Id -> SUBSET Id]
  <2>1. ASSUME NEW t \in Id PROVE arr[t] \in SUBSET Id
    <3>1. arrived[t] \in SUBSET Id /\ arrived[t] \cup {current} \in SUBSET Id
      BY <1>2, <1>3
    <3> QED
      BY <1>5, <3>1
  <2> QED
    BY <1>6, <2>1
<1>8. /\ \A e \in edges : current \in arr[e.target]
      /\ \A t \in Id : arrived[t] \subseteq arr[t]
      /\ \A t \in Id : arr[t] # arrived[t] => \E e \in edges : e.target = t
  BY <1>4, <1>5
<1>9. /\ NodesIn("running")' = {} /\ NodesIn("waiting_input")' = {}
      /\ NodesIn("succeeded")' = NodesIn("succeeded") \cup {current}
      /\ NodesIn("failed")' = NodesIn("failed") /\ NodesIn("skipped")' = NodesIn("skipped")
      /\ current \notin NodesIn("succeeded")
  BY <1>1, <1>2, <1>3 DEF NodesIn
<1>10. ArrivedIsHistory'
  <2>1. ASSUME NEW t \in Id PROVE arr[t] = HistoryArrivals'[t]
    <3>1. HistoryArrivals'[t] =
            {s \in (NodesIn("succeeded") \cup {current}) \cap dsl.nodes :
                \E e \in TakenEdges(dsl, s, branch'[s]) : e.target = t}
      BY <1>1, <1>9 DEF HistoryArrivals, ArrivalsFrom
    <3>2. arrived[t] = {s \in NodesIn("succeeded") \cap dsl.nodes :
                          \E e \in TakenEdges(dsl, s, branch[s]) : e.target = t}
      BY DEF IInv, ArrivedIsHistory, HistoryArrivals, ArrivalsFrom
    <3>3. \A s \in NodesIn("succeeded") : branch'[s] = branch[s]
      BY <1>3, <1>9 DEF NodesIn
    <3>4. NodesIn("succeeded") \subseteq dsl.nodes
      BY DEF NodesIn
    <3>5. (\E e \in edges : e.target = t) => HistoryArrivals'[t] = arrived[t] \cup {current}
      BY <1>2, <3>1, <3>2, <3>3, <3>4
    <3>6. ~ (\E e \in edges : e.target = t) => HistoryArrivals'[t] = arrived[t]
      BY <1>9, <3>1, <3>2, <3>3, <3>4
    <3> QED
      BY <1>5, <3>5, <3>6
  <2>2. HistoryArrivals' = [t \in Id |-> HistoryArrivals'[t]]
    BY <1>1 DEF HistoryArrivals, ArrivalsFrom
  <2> QED
    BY <1>1, <1>6, <2>1, <2>2 DEF ArrivedIsHistory
<1>11. Enqueue(queue, batch, pushed)
  BY DEF Forward, arr
\* The queue.
<1>12. batch \in SUBSET dsl.nodes /\ batch \cap pushed = {}
  BY DEF MayEnqueue
<1>13. batch = {t \in {e.target : e \in edges} \ pushed : MayEnqueue(t, arr)}
  OBVIOUS
<1> HIDE DEF batch
<1>14. /\ queue' \in Seq(dsl.nodes)
       /\ Len(queue') = Len(queue) + Cardinality(batch)
       /\ Cardinality(batch) \in Nat
       /\ \A i \in 1 .. Len(queue) : queue'[i] = queue[i]
       /\ \A i \in 1 .. Len(queue') : i > Len(queue) => queue'[i] \in batch
       /\ \A x \in batch : InQueue(x)'
       /\ pushed' = pushed \cup batch
  <2>1. IsFiniteSet(dsl.nodes) /\ queue \in Seq(dsl.nodes)
    BY <1>3
  <2>2. batch \in SUBSET dsl.nodes
    BY <1>12
  <2> QED
    BY <1>11, <2>1, <2>2, EnqueueFits
<1>15. Len(queue) \in Nat /\ Len(queue') \in Nat
  BY <1>3, <1>14
<1>16. \A n : InQueue(n) => InQueue(n)'
  BY <1>14, <1>15 DEF InQueue
<1>17. \A t \in batch : JoinSatisfied(dsl, t, arr[t])
  <2> SUFFICES ASSUME NEW t \in batch PROVE JoinSatisfied(dsl, t, arr[t])
    OBVIOUS
  <2>1. MayEnqueue(t, arr) /\ \E e \in edges : e.target = t
    BY <1>13
  <2>2. t \in Id /\ arr[t] # {}
    BY <1>4, <1>8, <2>1
  <2> QED
    BY <2>1, <2>2, MayEnqueueIsJoin
<1>18. \A n \in dsl.nodes : Justified(n) => Justified(n)'
  BY <1>1, <1>3, <1>8, JoinMonotonic DEF Justified
\* The invariant.
<1>19. TypeOK'
  BY <1>1, <1>2, <1>3, <1>7, <1>12, <1>14 DEF IInv, TypeOK, NodeRunStatus, Phase
<1>20. Fresh' /\ PhaseFits' /\ StatusesFit' /\ RunningFits'
  BY <1>1, <1>2, <1>9 DEF IInv, Fresh, PhaseFits, StatusesFit, RunningFits
<1>21. WaitingCoherent'
  BY <1>1, <1>2, <1>9 DEF WaitingCoherent, status, StatusOf
<1>22. TurnsCounted'
  <2>1. IsFiniteSet(pushed) /\ IsFiniteSet(batch)
    BY <1>3, <1>12, FS_Subset
  <2>2. Cardinality(pushed \cup batch) = Cardinality(pushed) + Cardinality(batch)
    <3>1. pushed \cap batch = {}
      BY <1>12
    <3>2. Cardinality(pushed \cap batch) = 0
      BY <3>1, FS_EmptySet
    <3>3. Cardinality(pushed \cup batch)
            = Cardinality(pushed) + Cardinality(batch) - Cardinality(pushed \cap batch)
      BY <2>1, FS_Union
    <3>4. Cardinality(pushed) \in Nat /\ Cardinality(batch) \in Nat
      BY <2>1, FS_CardinalityType
    <3> QED
      BY <3>2, <3>3, <3>4
  <2>3. stepCount \in Nat
    BY DEF IInv, TypeOK
  <2> QED
    BY <1>1, <1>14, <1>15, <2>2, <2>3 DEF IInv, TurnsCounted
<1>23. PushedFits'
  <2> SUFFICES ASSUME NEW n \in pushed'
               PROVE  InQueue(n)' \/ nodeStatus'[n] = "succeeded"
    BY DEF PushedFits
  <2>1. CASE n \in batch
    BY <1>14, <2>1
  <2>2. CASE n \in pushed
    BY <1>1, <1>2, <1>3, <1>16, <2>2 DEF IInv, PushedFits, Live
  <2> QED
    BY <1>14, <2>1, <2>2
<1>24. QueueJustified'
  <2> SUFFICES ASSUME NEW i \in 1 .. Len(queue') PROVE Justified(queue[i])'
    BY DEF QueueJustified
  <2>1. CASE i <= Len(queue)
    <3>1. i \in 1 .. Len(queue) /\ queue'[i] = queue[i] /\ queue[i] \in dsl.nodes
      BY <1>3, <1>14, <1>15, <2>1
    <3>2. Justified(queue[i])
      BY <3>1 DEF IInv, QueueJustified
    <3> QED
      BY <1>18, <3>1, <3>2 DEF Justified
  <2>2. CASE i > Len(queue)
    <3>1. JoinSatisfied(dsl, queue'[i], arr[queue'[i]])
      BY <1>14, <1>17, <2>2
    <3> QED
      BY <1>1, <3>1 DEF Justified
  <2> QED
    BY <1>15, <2>1, <2>2
<1>25. ExecutedJustified'
  BY <1>1, <1>2, <1>3, <1>18 DEF IInv, ExecutedJustified
<1>26. DueKept'
  <2> SUFFICES ASSUME NEW n \in dsl.nodes, Due(n)'
               PROVE  InQueue(n)' \/ nodeStatus'[n] = "succeeded"
    BY <1>1 DEF DueKept
  <2>1. CASE Due(n)
    BY <1>1, <1>2, <1>3, <1>16, <2>1 DEF IInv, DueKept, Live
  <2>2. CASE n \in pushed
    BY <1>1, <1>2, <1>3, <1>16, <2>2 DEF IInv, PushedFits, Live
  <2>3. CASE ~ Due(n) /\ n \notin pushed
    <3>1. JoinSatisfied(dsl, n, arr[n]) /\ arr[n] # arrived[n]
      BY <1>1, <2>3 DEF Due
    <3>2. (\E e \in edges : e.target = n) /\ arr[n] # {}
      BY <1>3, <1>8, <3>1
    <3>3. MayEnqueue(n, arr)
      BY <3>1, <3>2, MayEnqueueIsJoin
    <3> QED
      BY <1>13, <1>14, <2>3, <3>2, <3>3
  <2> QED
    BY <2>1, <2>2, <2>3
<1>27. CompletedAll'
  BY <1>1, <1>2 DEF CompletedAll
<1> QED
  BY <1>10, <1>19, <1>20, <1>21, <1>22, <1>23, <1>24, <1>25, <1>26, <1>27 DEF IInv

\* A node that is not an if-else is credited with all of its edges.
LEMMA NodeSucceededKeeps ==
    ASSUME IInv, NodeSucceeded
    PROVE  IInv'
<1>1. phase = "execute" /\ Forward(Out(dsl, current)) /\ branch' = branch
  BY DEF NodeSucceeded
<1>2. dsl.kind[current] # "if-else"
  BY DEF NodeSucceeded, CanSucceed, HasInput
<1>3. branch \in [Id -> Handle]
  BY DEF IInv, TypeOK
<1>4. TakenEdges(dsl, current, branch'[current]) = Out(dsl, current)
  BY <1>2 DEF TakenEdges
<1> QED
  BY <1>1, <1>3, <1>4, ForwardKeeps

\* An if-else node is credited with the edges of the handle its event records.
LEMMA NodeBranchedKeeps ==
    ASSUME IInv, NodeBranched
    PROVE  IInv'
<1>1. PICK h \in Handle \ {NoHandle} :
        /\ branch' = [branch EXCEPT ![current] = h]
        /\ Forward(SelectIfElseNextEdges(Out(dsl, current), h))
  BY DEF NodeBranched
<1>2. phase = "execute" /\ dsl.kind[current] = "if-else"
  BY DEF NodeBranched
<1>3. branch \in [Id -> Handle] /\ current \in Id
  BY <1>2, ExecutingFacts DEF IInv, TypeOK
<1>4. branch'[current] = h /\ h # NoHandle
  BY <1>1, <1>3
<1>5. TakenEdges(dsl, current, branch'[current])
        = SelectIfElseNextEdges(Out(dsl, current), h)
  BY <1>2, <1>4 DEF TakenEdges
<1>6. SelectIfElseNextEdges(Out(dsl, current), h) \subseteq Out(dsl, current)
  BY DEF SelectIfElseNextEdges
<1>7. branch' \in [Id -> Handle] /\ \A n \in Id : n # current => branch'[n] = branch[n]
  BY <1>1, <1>3
<1> QED
  BY <1>1, <1>2, <1>5, <1>6, <1>7, ForwardKeeps

\* A queue of one node.
LEMMA OneElement ==
    ASSUME NEW S, NEW x \in S
    PROVE  <<x>> \in Seq(S) /\ Len(<<x>>) = 1 /\ <<x>>[1] = x
  OBVIOUS

\* A resume: the new segment queues the node that waited, and behind it every
\* pending node that is due.
LEMMA ResumeKeeps ==
    ASSUME IInv, Resume
    PROVE  IInv'
<1> DEFINE eligible == {n \in NodesIn("pending") :
                           /\ CanEnqueueFromHistory(n, HistoryArrivals)
                           /\ MayEnqueue(n, HistoryArrivals)}
<1>1. /\ phase = "returned" /\ status = "waiting_input" /\ waiting # None
      /\ resumed' = waiting /\ arrived' = HistoryArrivals /\ waiting' = None
      /\ nodeStatus' = [nodeStatus EXCEPT ![waiting] = "running"]
      /\ phase' = "loop" /\ current' = None /\ attempt' = 0 /\ stepCount' = 0
      /\ UNCHANGED <<dsl, branch>>
  BY DEF Resume
<1>2. /\ /\ WellFormed(dsl)
      /\ nodeStatus \in [Id -> NodeRunStatus]
      /\ dsl.nodes \subseteq Id
      /\ IsFiniteSet(dsl.nodes) /\ waiting \in dsl.nodes
      /\ arrived \in [Id -> SUBSET Id] /\ branch \in [Id -> Handle]
  BY <1>1, GraphFacts DEF IInv, TypeOK
<1>3. life = "waiting_input"
  BY <1>1 DEF IInv, PhaseFits, status, StatusOf
<1>4. life' = "running"
  BY <1>3 DEF Resume, LifeStep, LifeEdges, LifeState
<1>5. /\ NodesIn("waiting_input") = {waiting} /\ NodesIn("running") = {}
      /\ NodesIn("failed") = {} /\ NodesIn("skipped") = {}
  <2>1. NodesIn("waiting_input") = {waiting}
    BY <1>1 DEF IInv, WaitingCoherent
  <2> QED
    BY <1>1, <1>3, <2>1 DEF IInv, RunningFits, StatusesFit
<1>6. nodeStatus[waiting] = "waiting_input"
  BY <1>5 DEF NodesIn
<1>7. /\ NodesIn("running")' = {waiting} /\ NodesIn("waiting_input")' = {}
      /\ NodesIn("succeeded")' = NodesIn("succeeded")
      /\ NodesIn("failed")' = {} /\ NodesIn("skipped")' = {}
  BY <1>1, <1>2, <1>5, <1>6 DEF NodesIn
<1>8. \A n \in dsl.nodes : n = waiting \/ n \in NodesIn("pending") \/ nodeStatus[n] = "succeeded"
  BY <1>2, <1>5 DEF NodesIn, NodeRunStatus
\* The arrivals are those of the segment that paused.
<1>9. arrived' = arrived
  BY <1>1 DEF IInv, ArrivedIsHistory
<1>10. /\ ArrivedIsHistory'
       /\ \A n : Justified(n)' <=> Justified(n)
       /\ \A n : Due(n)' <=> Due(n)
  BY <1>1, <1>7, <1>9, SameArrivals DEF IInv
<1>11. HistoryArrivals = arrived
  BY DEF IInv, ArrivedIsHistory
\* The queue.
<1>12. eligible \in SUBSET dsl.nodes /\ waiting \notin eligible
  BY <1>6 DEF NodesIn
<1>13. \A n \in eligible : Justified(n)
  BY <1>11 DEF CanEnqueueFromHistory, Justified
<1>14. \A n \in NodesIn("pending") : Due(n) => n \in eligible
  BY <1>11 DEF Due, CanEnqueueFromHistory, MayEnqueue, JoinSatisfied
<1>15. Enqueue(<<waiting>>, eligible, {waiting})
  BY DEF Resume
<1> HIDE DEF eligible
<1>16. /\ queue' \in Seq(dsl.nodes)
       /\ Len(queue') = 1 + Cardinality(eligible)
       /\ Cardinality(eligible) \in Nat
       /\ queue'[1] = waiting
       /\ \A i \in 1 .. Len(queue') : i > 1 => queue'[i] \in eligible
       /\ \A x \in eligible : InQueue(x)'
       /\ pushed' = {waiting} \cup eligible
  <2> DEFINE q == <<waiting>>
  <2>1. q \in Seq(dsl.nodes) /\ Len(q) = 1 /\ q[1] = waiting
    <3>1. waiting \in dsl.nodes
      BY <1>2
    <3> QED
      BY <3>1, OneElement
  <2>2. IsFiniteSet(dsl.nodes) /\ eligible \in SUBSET dsl.nodes
    BY <1>2, <1>12
  <2>3. Enqueue(q, eligible, {waiting})
    BY <1>15
  <2> HIDE DEF q
  <2>4. /\ queue' \in Seq(dsl.nodes)
        /\ Len(queue') = Len(q) + Cardinality(eligible)
        /\ Cardinality(eligible) \in Nat
        /\ \A i \in 1 .. Len(q) : queue'[i] = q[i]
        /\ \A i \in 1 .. Len(queue') : i > Len(q) => queue'[i] \in eligible
        /\ \A x \in eligible : InQueue(x)'
        /\ pushed' = {waiting} \cup eligible
    BY <2>1, <2>2, <2>3, EnqueueFits
  <2>5. 1 \in 1 .. Len(q)
    BY <2>1
  <2> QED
    BY <2>1, <2>4, <2>5
<1>17. /\ \A n : n = waiting => InQueue(n)'
       /\ queue' # << >> /\ Head(queue') = waiting
  <2>1. 1 \in 1 .. Len(queue') /\ Len(queue') # 0
    BY <1>16
  <2>2. queue' # << >>
    BY <1>16, <2>1
  <2>3. Head(queue') = queue'[1]
    BY <1>16, <2>2, HeadTailProperties
  <2> QED
    BY <1>16, <2>1, <2>2, <2>3 DEF InQueue
\* The invariant.
<1>18. TypeOK'
  BY <1>1, <1>2, <1>4, <1>9, <1>12, <1>16
  DEF IInv, TypeOK, NodeRunStatus, Phase, LifeState
<1>19. Fresh' /\ PhaseFits' /\ StatusesFit' /\ RunningFits'
  BY <1>1, <1>4, <1>7, <1>17 DEF Fresh, PhaseFits, StatusesFit, RunningFits
<1>20. WaitingCoherent'
  BY <1>1, <1>4, <1>7 DEF WaitingCoherent, status, StatusOf
<1>21. TurnsCounted'
  <2>1. IsFiniteSet(eligible)
    BY <1>2, <1>12, FS_Subset
  <2>2. Cardinality(eligible \cup {waiting}) = Cardinality(eligible) + 1
    BY <1>12, <2>1, FS_AddElement
  <2>3. eligible \cup {waiting} = pushed'
    BY <1>16
  <2>4. /\ stepCount' = 0
        /\ Len(queue') = 1 + Cardinality(eligible)
        /\ Cardinality(eligible) \in Nat
    BY <1>1, <1>16
  <2>5. Cardinality(pushed') = Cardinality(eligible) + 1
    BY <2>2, <2>3
  <2> QED
    BY <2>4, <2>5 DEF TurnsCounted
<1>22. PushedFits'
  BY <1>16, <1>17 DEF PushedFits
<1>23. QueueJustified'
  <2>1. Justified(waiting)
    BY <1>2, <1>6 DEF IInv, ExecutedJustified
  <2>2. ASSUME NEW i \in 1 .. Len(queue') PROVE Justified(queue'[i])
    <3>1. i = 1 \/ i > 1
      BY <1>16
    <3> QED
      BY <1>13, <1>16, <2>1, <3>1
  <2> QED
    BY <1>10, <2>2 DEF QueueJustified
<1>24. ExecutedJustified'
  BY <1>1, <1>2, <1>6, <1>10 DEF IInv, ExecutedJustified
<1>25. DueKept' /\ CompletedAll'
  <2>1. ASSUME NEW n \in dsl.nodes, Due(n)
        PROVE  InQueue(n)' \/ nodeStatus'[n] = "succeeded"
    <3>1. CASE n = waiting
      BY <1>17, <3>1
    <3>2. CASE n \in NodesIn("pending")
      BY <1>14, <1>16, <2>1, <3>2
    <3>3. CASE nodeStatus[n] = "succeeded"
      BY <1>1, <1>2, <1>6, <3>3
    <3> QED
      BY <1>8, <3>1, <3>2, <3>3
  <2> QED
    BY <1>1, <1>4, <1>10, <2>1 DEF DueKept, CompletedAll
<1> QED
  BY <1>10, <1>18, <1>19, <1>20, <1>21, <1>22, <1>23, <1>24, <1>25 DEF IInv

-----------------------------------------------------------------------------
(* The invariant. *)

\* It holds of an execution that has just been started.
LEMMA InitIInv == Init => IInv
<1> SUFFICES ASSUME Init PROVE IInv
  OBVIOUS
<1>1. /\ dsl \in Graphs /\ nodeStatus = [n \in Id |-> "pending"]
      /\ branch = [n \in Id |-> NoHandle] /\ waiting = None
      /\ phase = "begin" /\ resumed = None /\ queue = << >> /\ pushed = {}
      /\ arrived = [n \in Id |-> {}] /\ current = None /\ attempt = 0 /\ stepCount = 0
  BY DEF Init
<1>2. WellFormed(dsl) /\ NoHandle \in Handle
  BY <1>1, GraphsAssumption DEF GraphsAssumption
<1>3. life = "running"
  BY DEF Init, LifeStep, LifeEdges, LifeState
<1>4. dsl.nodes \subseteq Id
  BY <1>2, GraphFacts
<1>5. \A s : s # "pending" => NodesIn(s) = {}
  BY <1>1, <1>4 DEF NodesIn
<1>6. Len(queue) = 0
  BY <1>1
<1>7. TypeOK
  BY <1>1, <1>2, <1>3 DEF TypeOK, NodeRunStatus, Phase, LifeState
<1>8. Fresh /\ PhaseFits /\ StatusesFit /\ RunningFits /\ PushedFits
  BY <1>1, <1>3, <1>5 DEF Fresh, PhaseFits, StatusesFit, RunningFits, PushedFits
<1>9. WaitingCoherent
  BY <1>1, <1>3, <1>5 DEF WaitingCoherent, status, StatusOf
<1>10. TurnsCounted
  BY <1>1, <1>6, FS_EmptySet DEF TurnsCounted
<1>11. ArrivedIsHistory
  <2>1. NodesIn("succeeded") \cap dsl.nodes = {}
    BY <1>5
  <2> QED
    BY <1>1, <2>1 DEF ArrivedIsHistory, HistoryArrivals, ArrivalsFrom
<1>12. QueueJustified /\ ExecutedJustified
  BY <1>1, <1>4, <1>6 DEF QueueJustified, ExecutedJustified
<1>13. DueKept /\ CompletedAll
  BY <1>1, <1>3 DEF DueKept, CompletedAll, Live
<1> QED
  BY <1>7, <1>8, <1>9, <1>10, <1>11, <1>12, <1>13 DEF IInv

\* Every step keeps it.
LEMMA StepKeepsIInv == IInv /\ [Next]_vars => IInv'
<1> SUFFICES ASSUME IInv, [Next]_vars PROVE IInv'
  OBVIOUS
<1>1. CASE Begin
  BY <1>1, BeginKeeps
<1>2. CASE Dequeue
  BY <1>2, DequeueKeeps
<1>3. CASE Retry
  BY <1>3, RetryKeeps
<1>4. CASE PauseForInput
  BY <1>4, PauseForInputKeeps
<1>5. CASE NodeFailed
  BY <1>5, NodeFailedKeeps
<1>6. CASE NodeSucceeded
  BY <1>6, NodeSucceededKeeps
<1>7. CASE NodeBranched
  BY <1>7, NodeBranchedKeeps
<1>8. CASE Complete
  BY <1>8, CompleteKeeps
<1>9. CASE Resume
  BY <1>9, ResumeKeeps
<1>10. CASE UNCHANGED vars
  <2>1. UNCHANGED <<saved, phase, resumed, queue, pushed, arrived, current, stepCount>>
    BY <1>10 DEF vars, locals
  <2>2. attempt' \in Nat
    BY <1>10 DEF vars, locals, IInv, TypeOK
  <2> QED
    BY <2>1, <2>2, SameButAttempt
<1> QED
  BY <1>1, <1>2, <1>3, <1>4, <1>5, <1>6, <1>7, <1>8, <1>9, <1>10 DEF Next, Segment

\* The inductive invariant of the engine.
LEMMA Invariance == Spec => []IInv
  BY InitIInv, StepKeepsIInv, PTL DEF Spec

-----------------------------------------------------------------------------
(* What follows from it. *)

\* Type correctness of the engine's state: in particular every node that is
\* queued, executed or waited for is one the definition declares, whatever ids
\* its edges name (the lookup at the head of enqueue(), runtime.go).
THEOREM TypeCorrect == Spec => []TypeOK
<1>1. IInv => TypeOK
  BY DEF IInv
<1> QED
  BY <1>1, Invariance, PTL

\* The saved status, WaitingInput and the node states of an execution tell the
\* same story, which is what prepareResumeExecution relies on.
THEOREM WaitingIsCoherent == Spec => []WaitingCoherent
<1>1. IInv => WaitingCoherent
  BY DEF IInv
<1> QED
  BY <1>1, Invariance, PTL

\* At most one node of an execution runs, and none once
\* runUntilPauseOrEnd has returned.
THEOREM NeverTwoNodes == Spec => []OneNodeAtATime
<1>1. ASSUME IInv, NEW m \in NodesIn("running"), NEW n \in NodesIn("running")
      PROVE  m = n /\ phase # "returned"
  BY <1>1 DEF IInv, TypeOK, Phase, RunningFits
<1>2. IInv => OneNodeAtATime
  BY <1>1 DEF OneNodeAtATime
<1> QED
  BY <1>2, Invariance, PTL

\* seedArrivedFromHistory rebuilds exactly the arrivals that the paused segment
\* had collected, for every definition and every history.
THEOREM HistoryIsEnough == Spec => []ArrivedIsHistory
<1>1. IInv => ArrivedIsHistory
  BY DEF IInv
<1> QED
  BY <1>1, Invariance, PTL

\* enqueue() and canEnqueueFromHistory together keep every join policy: no node
\* is executed before the arrivals it asks for.
THEOREM JoinsAreRespected == Spec => []JoinRespected
<1>1. ASSUME IInv, NEW n \in dsl.nodes, nodeStatus[n] \notin {"pending", "skipped"}
      PROVE  n = dsl.start \/ Sources(dsl, n) = {}
                \/ JoinSatisfied(dsl, n, HistoryArrivals[n])
  <2>1. Justified(n)
    BY <1>1 DEF IInv, ExecutedJustified
  <2>2. arrived = HistoryArrivals
    BY <1>1 DEF IInv, ArrivedIsHistory
  <2> QED
    BY <2>1, <2>2 DEF Justified
<1>2. IInv => JoinRespected
  BY <1>1 DEF JoinRespected
<1> QED
  BY <1>2, Invariance, PTL

\* A completed execution has executed everything that was due: the queue that
\* is thrown away when runUntilPauseOrEnd returns for input loses no node.
THEOREM PausesLoseNothing == Spec => []NothingLost
<1>1. ASSUME IInv, status = "completed", NEW n \in dsl.nodes \ {dsl.start},
             Sources(dsl, n) # {}, JoinSatisfied(dsl, n, HistoryArrivals[n])
      PROVE  nodeStatus[n] = "succeeded"
  <2>1. life = "completed"
    BY <1>1 DEF status, StatusOf
  <2>2. arrived = HistoryArrivals
    BY <1>1 DEF IInv, ArrivedIsHistory
  <2>3. Due(n)
    BY <1>1, <2>2 DEF Due
  <2> QED
    BY <1>1, <2>1, <2>3 DEF IInv, CompletedAll
<1>2. IInv => NothingLost
  BY <1>1 DEF NothingLost
<1> QED
  BY <1>2, Invariance, PTL

\* One segment never takes more turns than the definition has nodes, so the
\* maxSteps guard of runUntilPauseOrEnd cannot fire, cycles or no cycles.
THEOREM NoLoopIsDetected == Spec => []LoopDetectionUnreachable
<1>1. ASSUME IInv PROVE LoopDetectionUnreachable
  <2>1. stepCount \in Nat /\ Cardinality(dsl.nodes) \in Nat
    BY <1>1, GraphFacts DEF IInv, TypeOK
  <2>2. stepCount + Len(queue) <= Cardinality(dsl.nodes) /\ Len(queue) \in Nat
    BY <1>1, TurnsToSpare
  <2> QED
    BY <2>1, <2>2 DEF LoopDetectionUnreachable
<1> QED
  BY <1>1, Invariance, PTL

\* No node is taken out of the succeeded ones.
Kept == \A n \in Id : nodeStatus[n] = "succeeded" => nodeStatus'[n] = "succeeded"

\* What a step does to the nodes that have succeeded, the core of the next two
\* theorems: only a successful answer of the current node changes them.
LEMMA OnlySuccessAdds ==
    ASSUME IInv, [Next]_vars
    PROVE  /\ NodeSucceeded \/ NodeBranched =>
                NodesIn("succeeded")' = NodesIn("succeeded") \cup {current}
           /\ ~ (NodeSucceeded \/ NodeBranched) =>
                /\ NodesIn("succeeded")' = NodesIn("succeeded") /\ Kept
                /\ branch' = branch
           /\ dsl' = dsl
           /\ Kept
<1> USE DEF saved, locals, vars
<1>1. nodeStatus \in [Id -> NodeRunStatus] /\ dsl.nodes \subseteq Id
  BY GraphFacts DEF IInv, TypeOK
<1>2. ASSUME Begin \/ Retry \/ UNCHANGED vars
      PROVE  UNCHANGED <<dsl, nodeStatus, branch>>
  BY <1>2 DEF Begin, Retry
<1>3. ASSUME NodeSucceeded \/ NodeBranched
      PROVE  /\ UNCHANGED dsl
             /\ NodesIn("succeeded")' = NodesIn("succeeded") \cup {current} /\ Kept
  <2>1. phase = "execute"
    BY <1>3 DEF NodeSucceeded, NodeBranched
  <2>2. /\ current \in dsl.nodes
        /\ nodeStatus' = [nodeStatus EXCEPT ![current] = "succeeded"]
        /\ dsl' = dsl
    BY <1>3, <2>1, ExecutingFacts DEF NodeSucceeded, NodeBranched, Forward
  <2> QED
    BY <1>1, <2>2 DEF NodesIn, Kept
<1>4. ASSUME Dequeue
      PROVE  /\ UNCHANGED <<dsl, branch>>
             /\ NodesIn("succeeded")' = NodesIn("succeeded") /\ Kept
  <2>1. UNCHANGED <<dsl, branch>> /\ queue # << >>
    BY <1>4 DEF Dequeue
  <2>2. Head(queue) \in dsl.nodes
    BY <2>1, QueueFacts DEF IInv
  <2>3. \/ nodeStatus' = nodeStatus
        \/ /\ nodeStatus[Head(queue)] # "succeeded"
           /\ nodeStatus' = [nodeStatus EXCEPT ![Head(queue)] = "running"]
    BY <1>4 DEF Dequeue, FailExecution, SkipFinished, StartNode
  <2> QED
    BY <1>1, <2>1, <2>2, <2>3 DEF NodesIn, Kept
<1>5. ASSUME PauseForInput \/ NodeFailed
      PROVE  /\ UNCHANGED <<dsl, branch>>
             /\ NodesIn("succeeded")' = NodesIn("succeeded") /\ Kept
  <2>1. phase = "execute"
    BY <1>5 DEF PauseForInput, NodeFailed
  <2>2. current \in dsl.nodes /\ nodeStatus[current] = "running"
    BY <2>1, ExecutingFacts
  <2>3. /\ UNCHANGED <<dsl, branch>>
        /\ \E s \in {"waiting_input", "failed"} :
              nodeStatus' = [nodeStatus EXCEPT ![current] = s]
    BY <1>5 DEF PauseForInput, NodeFailed
  <2> QED
    BY <1>1, <2>2, <2>3 DEF NodesIn, Kept
<1>6. ASSUME Complete
      PROVE  /\ UNCHANGED <<dsl, branch>>
             /\ NodesIn("succeeded")' = NodesIn("succeeded") /\ Kept
  BY <1>1, <1>6 DEF Complete, NodesIn, Kept
<1>7. ASSUME Resume
      PROVE  /\ UNCHANGED <<dsl, branch>>
             /\ NodesIn("succeeded")' = NodesIn("succeeded") /\ Kept
  <2>1. /\ UNCHANGED <<dsl, branch>> /\ status = "waiting_input" /\ waiting # None
        /\ nodeStatus' = [nodeStatus EXCEPT ![waiting] = "running"]
    BY <1>7 DEF Resume
  <2>2. waiting \in NodesIn("waiting_input")
    BY <2>1 DEF IInv, WaitingCoherent
  <2> QED
    BY <1>1, <2>1, <2>2 DEF NodesIn, Kept
<1> QED
  BY <1>2, <1>3, <1>4, <1>5, <1>6, <1>7 DEF Next, Segment, NodesIn, Kept

\* A node that has succeeded stays succeeded: a later segment that queues it
\* again drops it at the head of its loop instead of executing it twice.
THEOREM NeverTwice == Spec => SucceededOnce
<1>1. IInv /\ [Next]_vars => [Kept]_vars
  BY OnlySuccessAdds
<1> QED
  BY <1>1, Invariance, PTL DEF Spec, SucceededOnce, Kept

-----------------------------------------------------------------------------
(* Every segment gets closer to its end. *)

\* What a segment still has before it: whether it has begun and returned, the
\* turns it may take, whether one is under way, and the attempts left in that.
Weight ==
    <<CASE phase = "begin" -> 2 [] phase = "returned" -> 0 [] OTHER -> 1,
      Cardinality(dsl.nodes) - stepCount,
      IF phase = "execute" THEN 1 ELSE 0,
      IF phase = "execute" THEN dsl.retry[current] + 1 - attempt ELSE 0>>

Weights == Nat \X Nat \X Nat \X Nat

\* The lexicographic order: v and w agree up to some place, and v is less there.
Less(v, w) ==
    \E i \in 1 .. 4 : v[i] < w[i] /\ \A j \in 1 .. (i - 1) : v[j] = w[j]

\* The attempts of a node are counted from one and never exceed its retries.
AttemptsBounded == phase = "execute" => attempt \in 1 .. dsl.retry[current] + 1

Shrinks == Segment => Less(Weight', Weight)

LEMMA AttemptsStayBounded ==
    ASSUME IInv, AttemptsBounded, [Next]_vars
    PROVE  AttemptsBounded'
<1>1. \A n \in Id : dsl.retry[n] \in Nat
  BY DEF IInv, TypeOK, WellFormed, Graph
<1>2. CASE Dequeue
  <2> SUFFICES ASSUME phase' = "execute" PROVE attempt' \in 1 .. dsl.retry'[current'] + 1
    BY DEF AttemptsBounded
  <2>1. attempt' = 1 /\ current' = Head(queue) /\ dsl' = dsl
    BY <1>2 DEF Dequeue, FailExecution, SkipFinished, StartNode
  <2>2. dsl.retry[Head(queue)] \in Nat
    BY <1>1, <1>2, QueueFacts, GraphFacts DEF Dequeue, IInv, TypeOK
  <2> QED
    BY <2>1, <2>2
<1>3. CASE Retry
  <2>1. phase = "execute" /\ current' = current /\ dsl' = dsl
        /\ attempt < dsl.retry[current] + 1 /\ attempt' = attempt + 1
    BY <1>3 DEF Retry, saved
  <2>2. dsl.retry[current] \in Nat
    BY <1>1, <2>1, ExecutingFacts
  <2> QED
    BY <2>1, <2>2 DEF AttemptsBounded
<1>4. CASE \/ Begin \/ PauseForInput \/ NodeFailed \/ NodeSucceeded \/ NodeBranched
           \/ Complete \/ Resume
  BY <1>4
  DEF Begin, PauseForInput, NodeFailed, NodeSucceeded, NodeBranched, Forward, Complete,
      Resume, AttemptsBounded
<1>5. CASE UNCHANGED vars
  BY <1>5 DEF vars, saved, locals, AttemptsBounded
<1> QED
  BY <1>2, <1>3, <1>4, <1>5 DEF Next, Segment

LEMMA WeightFits ==
    ASSUME IInv, AttemptsBounded
    PROVE  Weight \in Weights
<1>1. Cardinality(dsl.nodes) - stepCount \in Nat
  BY TurnsToSpare, GraphFacts DEF IInv, TypeOK
<1>2. phase = "execute" => dsl.retry[current] + 1 - attempt \in Nat
  <2> SUFFICES ASSUME phase = "execute" PROVE dsl.retry[current] + 1 - attempt \in Nat
    OBVIOUS
  <2>1. dsl.retry[current] \in Nat
    BY ExecutingFacts DEF IInv, TypeOK, WellFormed, Graph
  <2> QED
    BY <2>1 DEF AttemptsBounded
<1> QED
  BY <1>1, <1>2 DEF Weight, Weights

LEMMA SegmentShrinks ==
    ASSUME IInv, AttemptsBounded, Segment
    PROVE  Less(Weight', Weight)
<1> DEFINE w == Weight
           v == Weight'
<1>1. /\ stepCount \in Nat /\ Cardinality(dsl.nodes) \in Nat
      /\ dsl' = dsl /\ phase \in {"begin", "loop", "execute"}
  BY GraphFacts
  DEF IInv, TypeOK, Segment, Begin, Dequeue, Retry, PauseForInput, NodeFailed,
      NodeSucceeded, NodeBranched, Forward, Complete, saved
<1>2. CASE Begin \/ PauseForInput \/ NodeFailed \/ Complete \/ (Dequeue /\ phase' = "returned")
  <2>1. v[1] < w[1]
    BY <1>1, <1>2 DEF Weight, Begin, PauseForInput, NodeFailed, Complete, Dequeue
  <2> QED
    BY <2>1 DEF Less
<1>3. CASE Dequeue /\ phase' # "returned"
  <2>1. phase = "loop" /\ phase' \in {"loop", "execute"} /\ stepCount' = stepCount + 1
    BY <1>3 DEF Dequeue, FailExecution, SkipFinished, StartNode
  <2>2. v[1] = w[1] /\ v[2] < w[2]
    BY <1>1, <2>1 DEF Weight
  <2> QED
    BY <2>2 DEF Less
<1>4. CASE NodeSucceeded \/ NodeBranched
  <2>1. phase = "execute" /\ phase' = "loop" /\ stepCount' = stepCount
    BY <1>4 DEF NodeSucceeded, NodeBranched, Forward
  <2>2. v[1] = w[1] /\ v[2] = w[2] /\ v[3] < w[3]
    BY <1>1, <2>1 DEF Weight
  <2> QED
    BY <2>2 DEF Less
<1>5. CASE Retry
  <2>1. /\ phase = "execute" /\ phase' = "execute" /\ stepCount' = stepCount
        /\ current' = current /\ attempt' = attempt + 1
    BY <1>5 DEF Retry
  <2>2. dsl.retry[current] \in Nat /\ attempt \in Nat
    BY <2>1, ExecutingFacts DEF IInv, TypeOK, WellFormed, Graph
  <2>3. v[1] = w[1] /\ v[2] = w[2] /\ v[3] = w[3] /\ v[4] < w[4]
    BY <1>1, <2>1, <2>2 DEF Weight
  <2> QED
    BY <2>3 DEF Less
<1> QED
  BY <1>2, <1>3, <1>4, <1>5 DEF Segment

\* Every step of a segment lessens a weight of natural numbers, for every
\* definition, cycles and retries included: no segment goes on for ever
\* (runUntilPauseOrEnd, runtime.go).  This is the safety half of SegmentReturns.
THEOREM SegmentsShrink == Spec => [](Weight \in Weights) /\ [][Shrinks]_vars
<1>1. Init => AttemptsBounded
  BY DEF Init, AttemptsBounded
<1>2. Spec => []AttemptsBounded
  BY <1>1, AttemptsStayBounded, Invariance, PTL DEF Spec
<1>3. IInv /\ AttemptsBounded => Weight \in Weights
  BY WeightFits
<1>4. IInv /\ AttemptsBounded /\ [Next]_vars => [Shrinks]_vars
  BY SegmentShrinks DEF Shrinks
<1> QED
  BY <1>2, <1>3, <1>4, Invariance, PTL DEF Spec

\* A node is tried once more than its retries say, never oftener (the retry loop
\* around executor.Execute, runtime.go).
THEOREM RetriesRespected == Spec => []AttemptsBounded
<1>1. Init => AttemptsBounded
  BY DEF Init, AttemptsBounded
<1> QED
  BY <1>1, AttemptsStayBounded, Invariance, PTL DEF Spec

-----------------------------------------------------------------------------
(* The engine implements the plain data flow. *)

\* The abstract specification's questions about a definition are the engine's.
LEMMA SameQuestions ==
    /\ \A n : DF!Ready(n) <=> n \in dsl.nodes \ NodesIn("succeeded")
                                 /\ JoinSatisfied(dsl, n, HistoryArrivals[n])
    /\ \A n : DF!Source(n) <=> n = dsl.start \/ Sources(dsl, n) = {}
    /\ DF!WellFormed(dsl) <=> WellFormed(dsl)
<1>1. \A g, n : DF!Sources(g, n) = Sources(g, n) /\ DF!Out(g, n) = Out(g, n)
  BY DEF DF!Sources, Sources, DF!Out, Out
<1>2. \A E, h : DF!SelectIfElseNextEdges(E, h) = SelectIfElseNextEdges(E, h)
  BY DEF DF!SelectIfElseNextEdges, SelectIfElseNextEdges
<1>3. \A g, n, h : DF!TakenEdges(g, n, h) = TakenEdges(g, n, h)
  BY <1>1, <1>2 DEF DF!TakenEdges, TakenEdges
<1>4. \A g, S, b : DF!ArrivalsFrom(g, S, b) = ArrivalsFrom(g, S, b)
  BY <1>3 DEF DF!ArrivalsFrom, ArrivalsFrom
<1>5. \A g, n, A : DF!JoinSatisfied(g, n, A) <=> JoinSatisfied(g, n, A)
  <2>1. \A g, n : DF!ShouldWaitAllIncoming(g, n) <=> ShouldWaitAllIncoming(g, n)
    <3>1. \A S : DF!Cardinality(S) = Cardinality(S)
      BY DEF DF!Cardinality, Cardinality
    <3> QED
      BY <1>1, <3>1 DEF DF!ShouldWaitAllIncoming, ShouldWaitAllIncoming
  <2> QED
    BY <1>1, <2>1, Zenon DEF DF!JoinSatisfied, JoinSatisfied
<1>6. \A n : DF!Ready(n) <=> n \in dsl.nodes \ NodesIn("succeeded")
                                /\ JoinSatisfied(dsl, n, HistoryArrivals[n])
  BY <1>4, <1>5 DEF DF!Ready, HistoryArrivals
<1>7. \A n : DF!Source(n) <=> n = dsl.start \/ Sources(dsl, n) = {}
  BY <1>1 DEF DF!Source
<1>8. DF!WellFormed(dsl) <=> WellFormed(dsl)
  BY DEF DF!WellFormed, WellFormed, DF!Graph, Graph, DF!Kind, Kind,
      DF!JoinConfig, JoinConfig, DF!Edge, Edge
<1> QED
  BY <1>6, <1>7, <1>8

\* A new execution is a data flow in which nothing has been done.
LEMMA InitImplements == Init => DF!Init
<1> SUFFICES ASSUME Init PROVE DF!Init
  OBVIOUS
<1>1. IInv
  BY InitIInv
<1>2. NodesIn("succeeded") = {}
  BY GraphFacts, <1>1 DEF IInv, TypeOK, Init, NodesIn
<1>3. DF!WellFormed(dsl)
  BY <1>1, SameQuestions DEF IInv, TypeOK
<1>4. status = "running"
  BY DEF Init, status, StatusOf, LifeStep, LifeEdges, LifeState
<1> QED
  BY <1>2, <1>3, <1>4 DEF Init, DF!Init

\* A successful answer is one step of the data flow: it is allowed there
\* because the node was justified, and the branch it recorded is the same.
LEMMA SuccessImplements ==
    ASSUME IInv, NodeSucceeded \/ NodeBranched
    PROVE  DF!Succeed(current)
<1>1. phase = "execute"
  BY DEF NodeSucceeded, NodeBranched
<1>2. /\ current \in dsl.nodes /\ nodeStatus[current] = "running" /\ life = "running"
  BY <1>1, ExecutingFacts
<1>3. current \in dsl.nodes \ NodesIn("succeeded")
  BY <1>2 DEF NodesIn
<1>4. status = "running" /\ status' = "running"
  BY <1>2 DEF status, StatusOf, NodeSucceeded, NodeBranched, Forward
<1>5. DF!Ready(current) \/ DF!Source(current)
  <2>1. Justified(current)
    BY <1>2 DEF IInv, ExecutedJustified
  <2>2. arrived = HistoryArrivals
    BY DEF IInv, ArrivedIsHistory
  <2> QED
    BY <1>3, <2>1, <2>2, SameQuestions DEF Justified
<1>6. NodesIn("succeeded")' = NodesIn("succeeded") \cup {current} /\ dsl' = dsl
  BY OnlySuccessAdds DEF Next, Segment
<1>7. IF dsl.kind[current] = "if-else"
      THEN \E h \in Handle \ {NoHandle} : branch' = [branch EXCEPT ![current] = h]
      ELSE UNCHANGED branch
  BY DEF NodeSucceeded, NodeBranched, CanSucceed, HasInput
<1> QED
  BY <1>3, <1>4, <1>5, <1>6, <1>7 DEF DF!Succeed

\* The execution completes only when the data flow may: nothing is ready.
LEMMA CompleteImplements ==
    ASSUME IInv, Complete
    PROVE  DF!Complete
<1>1. /\ IInv' /\ phase = "loop" /\ dsl' = dsl /\ branch' = branch
      /\ NodesIn("succeeded")' = NodesIn("succeeded")
  BY CompleteKeeps, OnlySuccessAdds
  DEF Complete, Next, Segment, NodeSucceeded, NodeBranched
<1>2. life = "running"
  BY <1>1, LoopingFacts
<1>3. status = "running" /\ status' = "completed"
  BY <1>2 DEF status, StatusOf, Complete, LifeStep, LifeEdges, LifeState
<1>4. ASSUME NEW n \in dsl.nodes \ {dsl.start}, Sources(dsl, n) # {}, DF!Ready(n)
      PROVE  FALSE
  <2>1. JoinSatisfied(dsl, n, HistoryArrivals[n]) /\ n \notin NodesIn("succeeded")
    BY <1>4, SameQuestions
  <2>2. HistoryArrivals = arrived
    BY DEF IInv, ArrivedIsHistory
  <2>3. Due(n)
    BY <1>4, <2>1, <2>2 DEF Due
  <2>4. InQueue(n) \/ n = current
    BY <1>1, <2>1, <2>3 DEF IInv, DueKept, Live, NodesIn
  <2>5. queue = << >> /\ current = None
    BY <1>1, LoopingFacts DEF Complete
  <2>6. n # None
    BY NoneAssumption, GraphFacts DEF IInv, TypeOK, NoneAssumption
  <2> QED
    BY <2>4, <2>5, <2>6 DEF InQueue
<1>5. \A n : DF!Sources(dsl, n) = Sources(dsl, n)
  BY DEF DF!Sources, Sources
<1> QED
  BY <1>1, <1>3, <1>4, <1>5 DEF DF!Complete

\* What the steps do that are neither of the two: a failure, and steps that the
\* data flow does not see.
LEMMA OthersImplement ==
    ASSUME IInv, [Next]_vars, ~ (NodeSucceeded \/ NodeBranched), ~ Complete
    PROVE  DF!Fail \/ UNCHANGED DF!dfVars
<1>1. NodesIn("succeeded")' = NodesIn("succeeded") /\ branch' = branch /\ dsl' = dsl
  BY OnlySuccessAdds
<1>2. CASE NodeFailed
  <2>1. life = "running"
    BY <1>2, ExecutingFacts DEF NodeFailed
  <2>2. status = "running" /\ status' = "failed"
    BY <1>2, <2>1 DEF NodeFailed, status, StatusOf, LifeStep, LifeEdges, LifeState
  <2> QED
    BY <1>1, <2>2 DEF DF!Fail
<1>3. CASE Dequeue
  <2>1. life = "running"
    BY <1>3, LoopingFacts DEF Dequeue
  <2>2. status = "running" /\ status' \in {"running", "failed"}
    BY <1>3, <2>1
    DEF Dequeue, FailExecution, SkipFinished, StartNode, status, StatusOf,
        LifeStep, LifeEdges, LifeState
  <2> QED
    BY <1>1, <2>2 DEF DF!Fail, DF!dfVars
<1>4. CASE PauseForInput
  <2>1. life = "running"
    BY <1>4, ExecutingFacts DEF PauseForInput
  <2>2. status = "running" /\ status' = "waiting_input"
    BY <1>4, <2>1 DEF PauseForInput, status, StatusOf, LifeStep, LifeEdges, LifeState
  <2> QED
    BY <1>1, <2>2 DEF DF!dfVars
<1>5. CASE Resume
  <2>1. life = "waiting_input"
    BY <1>5 DEF Resume, IInv, PhaseFits, status, StatusOf
  <2>2. status = "waiting_input" /\ status' = "running"
    BY <1>5, <2>1 DEF Resume, status, StatusOf, LifeStep, LifeEdges, LifeState
  <2> QED
    BY <1>1, <2>2 DEF DF!dfVars
<1>6. CASE Begin \/ Retry \/ UNCHANGED vars
  <2>1. status' = status
    BY <1>6 DEF Begin, Retry, vars, saved, status
  <2> QED
    BY <1>1, <2>1 DEF DF!dfVars
<1> QED
  BY <1>2, <1>3, <1>4, <1>5, <1>6 DEF Next, Segment

\* The engine implements the data flow, for every definition: queues, pauses,
\* resumes, retries and the second segment's rebuilt state do not show.
THEOREM EngineImplementsDataflow == Spec => ImplementsDataflow
<1>1. Init => DF!Init
  BY InitImplements
<1>2. IInv /\ [Next]_vars => [DF!Next]_(DF!dfVars)
  <2> SUFFICES ASSUME IInv, [Next]_vars PROVE [DF!Next]_(DF!dfVars)
    OBVIOUS
  <2>1. CASE NodeSucceeded \/ NodeBranched
    <3>1. current \in Id
      BY <2>1, ExecutingFacts DEF NodeSucceeded, NodeBranched
    <3> QED
      BY <2>1, <3>1, SuccessImplements DEF DF!Next
  <2>2. CASE Complete
    BY <2>2, CompleteImplements DEF DF!Next
  <2>3. CASE ~ (NodeSucceeded \/ NodeBranched) /\ ~ Complete
    BY <2>3, OthersImplement DEF DF!Next
  <2> QED
    BY <2>1, <2>2, <2>3
<1> QED
  BY <1>1, <1>2, Invariance, PTL DEF Spec, ImplementsDataflow, DF!Spec

=============================================================================
