-------------------------- MODULE DebugSessionProofs --------------------------
(***************************************************************************)
(* Theorems about DebugSession, for every finite set of definitions, every *)
(* target and any number of requests.                                      *)
(***************************************************************************)
EXTENDS DebugSession, FiniteSetTheorems, SequenceTheorems, TLAPS

-----------------------------------------------------------------------------
(* The inductive invariant. *)

\* A session that is not being run says what it is: it waits exactly when its
\* status says so and for the node that asked, and has found its target when
\* that has succeeded.
Coherent(s) ==
    /\ (s.status = "waiting_input") <=> (s.waiting # None)
    /\ s.waiting # None => s.waiting \in dsl.nodes /\ s.node[s.waiting] = "waiting_input"
    /\ s.status = "target_succeeded" => s.node[target] = "succeeded"

StoredFits == stored # None => Explained(stored) /\ Coherent(stored)

\* Arrivals are history, and so is what they have put into the queue.
ArrivalsFit(r) == \A n \in Id : r.arrived[n] \subseteq Led(r.s, n)

\* x is somewhere in the sequence q.
Within(q, x) == \E i \in 1 .. Len(q) : q[i] = x

Queued(r, n) == Within(r.queue, n)

QueueFits(r) ==
    \A n \in dsl.nodes : Queued(r, n) => n \in Required /\ Justified(r.s, n)

CallFits(r) ==
    /\ Explained(r.s)
    /\ ArrivalsFit(r)
    /\ QueueFits(r)
    /\ r.returned => Coherent(r.s)
    /\ ~ r.returned => r.s.waiting = None

\* A call that runs everything that is missing, as long as it has not ended
\* with its target, a failure or a question.
Complete(r) == r.resumed = None /\ (r.returned => r.s.status = "ready")

\* A later run sees the answer of n.
Recognised(s, n) == dsl.kind[n] # "if-else" \/ InferBranch(s, n) # {}

\* What has succeeded has been seen, what is ready has been queued, and what
\* has been queued is still there or has succeeded.
NothingForgotten(r) ==
    Complete(r) =>
        /\ \A n \in SucceededIn(r.s) : Recognised(r.s, n) =>
              \A e \in TakenEdges(dsl, n, r.s.branch[n]) :
                  e.target \in Required => n \in r.arrived[e.target]
        /\ \A n \in Required : IsReadyToRun(n, r.arrived) =>
              r.s.node[n] = "succeeded" \/ Queued(r, n)
        /\ \A n \in r.pushed : r.s.node[n] = "succeeded" \/ Queued(r, n)
        /\ r.returned => r.queue = << >>

IInv ==
    /\ TypeOK
    /\ StoredFits
    /\ \A c \in Clients : run[c] # None => CallFits(run[c]) /\ NothingForgotten(run[c])

-----------------------------------------------------------------------------
(* Definitions, joins and batches. *)

LEMMA GraphFacts ==
    ASSUME TypeOK
    PROVE  /\ dsl.nodes \subseteq Id /\ IsFiniteSet(dsl.nodes)
           /\ target \in dsl.nodes /\ target \in Id
           /\ \A e \in dsl.edges : e.source \in Id /\ e.target \in Id
PROOF
  <1>1. dsl.nodes \subseteq Id /\ dsl.edges \subseteq Edge
    BY DEF TypeOK, WellFormed, Graph
  <1>2. IsFiniteSet(dsl.nodes)
    BY <1>1, GraphsAssumption, FS_Subset DEF GraphsAssumption
  <1> QED  BY <1>1, <1>2 DEF TypeOK, Edge

\* More arrivals never undo a join.
LEMMA JoinMonotone ==
    ASSUME NEW g, NEW n, NEW A, NEW B, A \subseteq B, JoinSatisfied(g, n, A)
    PROVE  JoinSatisfied(g, n, B)
PROOF  BY DEF JoinSatisfied

LEMMA OrdersFit ==
    ASSUME NEW S, IsFiniteSet(S), NEW q \in Orders(S)
    PROVE  q \in Seq(S) /\ \A x : Within(q, x) <=> x \in S
PROOF
  <1>1. Cardinality(S) \in Nat
    BY FS_CardinalityType
  <1>2. q \in [1 .. Cardinality(S) -> S] /\ \A x \in S : \E i \in DOMAIN q : q[i] = x
    BY DEF Orders
  <1> QED  BY <1>1, <1>2 DEF Within

LEMMA TailFits ==
    ASSUME NEW N, NEW q \in Seq(N), q # << >>
    PROVE  /\ Head(q) \in N /\ Tail(q) \in Seq(N)
           /\ \A x : Within(q, x) <=> x = Head(q) \/ Within(Tail(q), x)
PROOF
  <1>1. /\ Len(q) \in Nat \ {0} /\ Head(q) = q[1] /\ q[1] \in N
        /\ Tail(q) \in Seq(N) /\ Len(Tail(q)) = Len(q) - 1
        /\ \A i \in 1 .. Len(Tail(q)) : Tail(q)[i] = q[i + 1]
    OBVIOUS
  <1>2. ASSUME NEW i \in 1 .. Len(q)
        PROVE  q[i] = Head(q) \/ Within(Tail(q), q[i])
    <2>1. CASE i # 1
      <3>1. i - 1 \in 1 .. Len(Tail(q)) /\ Tail(q)[i - 1] = q[i]
        BY <1>1, <2>1
      <3> QED  BY <3>1 DEF Within
    <2> QED  BY <1>1, <2>1
  <1>3. ASSUME NEW i \in 1 .. Len(Tail(q))
        PROVE  Within(q, Tail(q)[i])
    <2>1. i + 1 \in 1 .. Len(q)
      BY <1>1
    <2> QED  BY <1>1, <2>1 DEF Within
  <1>4. Within(q, Head(q))
    BY <1>1 DEF Within
  <1> QED  BY <1>1, <1>2, <1>3, <1>4 DEF Within

LEMMA ConcatFits ==
    ASSUME NEW N, NEW p \in Seq(N), NEW q \in Seq(N)
    PROVE  /\ p \o q \in Seq(N)
           /\ \A x : Within(p \o q, x) <=> Within(p, x) \/ Within(q, x)
PROOF
  <1>1. /\ p \o q \in Seq(N) /\ Len(p \o q) = Len(p) + Len(q)
        /\ Len(p) \in Nat /\ Len(q) \in Nat
        /\ \A i \in 1 .. Len(p) : (p \o q)[i] = p[i]
        /\ \A i \in 1 .. Len(q) : (p \o q)[Len(p) + i] = q[i]
    OBVIOUS
  <1>2. ASSUME NEW i \in 1 .. Len(p \o q)
        PROVE  Within(p, (p \o q)[i]) \/ Within(q, (p \o q)[i])
    <2>1. CASE i <= Len(p)
      BY <1>1, <2>1 DEF Within
    <2>2. CASE i > Len(p)
      <3>1. i - Len(p) \in 1 .. Len(q) /\ i = Len(p) + (i - Len(p))
        BY <1>1, <2>2
      <3> QED  BY <1>1, <3>1 DEF Within
    <2> QED  BY <1>1, <2>1, <2>2
  <1>3. ASSUME NEW j \in 1 .. Len(q) PROVE Within(p \o q, q[j])
    <2>1. Len(p) + j \in 1 .. Len(p \o q)
      BY <1>1
    <2> QED  BY <1>1, <2>1 DEF Within
  <1>4. ASSUME NEW j \in 1 .. Len(p) PROVE Within(p \o q, p[j])
    <2>1. j \in 1 .. Len(p \o q)
      BY <1>1
    <2> QED  BY <1>1, <2>1 DEF Within
  <1>5. ASSUME NEW x, Within(p \o q, x) PROVE Within(p, x) \/ Within(q, x)
    BY <1>2, <1>5 DEF Within
  <1>6. ASSUME NEW x, Within(p, x) \/ Within(q, x) PROVE Within(p \o q, x)
    BY <1>3, <1>4, <1>6 DEF Within
  <1> QED  BY <1>1, <1>5, <1>6

\* An if-else answer that is recognised selects the edges that were taken.
LEMMA CreditedTaken ==
    ASSUME NEW s, NEW n
    PROVE  /\ Credited(s, n) \subseteq TakenEdges(dsl, n, s.branch[n])
           /\ Recognised(s, n) => Credited(s, n) = TakenEdges(dsl, n, s.branch[n])
           /\ TakenEdges(dsl, n, s.branch[n]) \subseteq Out(dsl, n)
PROOF
  BY DEF Credited, TakenEdges, InferBranch, Recognised, SelectIfElseNextEdges, Out

\* What a node that has succeeded has led to is history: a success of a node,
\* the target's answers apart, only adds to it.
LEMMA LedGrows ==
    ASSUME NEW s, NEW t,
           SucceededIn(s) \ {target} \subseteq SucceededIn(t),
           \A n \in SucceededIn(s) \ {target} : t.branch[n] = s.branch[n],
           s.branch[target] # NoHandle => t.branch[target] # NoHandle,
           NEW n \in Id
    PROVE  Led(s, n) \subseteq Led(t, n)
PROOF
  <1>1. ArrivalsFrom(dsl, SucceededIn(s) \ {target}, s.branch)[n]
           \subseteq ArrivalsFrom(dsl, SucceededIn(t) \ {target}, t.branch)[n]
    BY DEF ArrivalsFrom
  <1> QED  BY <1>1 DEF Led

\* A success leads where its edges lead.
LEMMA LedBySuccess ==
    ASSUME TypeOK, NEW s, NEW n \in SucceededIn(s),
           n = target => s.branch[n] # NoHandle,
           NEW e \in TakenEdges(dsl, n, s.branch[n])
    PROVE  n \in Led(s, e.target)
PROOF
  <1>1. e \in Out(dsl, n) /\ e.source = n /\ e.target \in Id
    BY CreditedTaken, GraphFacts DEF Out
  <1>2. CASE n = target
    BY <1>1, <1>2 DEF Led
  <1>3. CASE n # target
    <2>1. n \in (SucceededIn(s) \ {target}) \cap dsl.nodes
      BY <1>3 DEF SucceededIn
    <2>2. n \in ArrivalsFrom(dsl, SucceededIn(s) \ {target}, s.branch)[e.target]
      BY <1>1, <2>1 DEF ArrivalsFrom
    <2> QED  BY <2>2 DEF Led
  <1> QED  BY <1>2, <1>3

LEMMA ReadyJustified ==
    ASSUME NEW s, NEW n, NEW arrived, arrived[n] \subseteq Led(s, n),
           IsReadyToRun(n, arrived)
    PROVE  Justified(s, n)
PROOF  BY JoinMonotone DEF IsReadyToRun, Justified

\* seedArrivedFromStates marks what the history explains, and all of it that
\* is recognised.
LEMMA SeedFits ==
    ASSUME TypeOK, NEW s \in Session, s.node[target] # "succeeded"
    PROVE  /\ Seed(s) \in [Id -> SUBSET Id]
           /\ \A n \in Id : Seed(s)[n] \subseteq Led(s, n)
           /\ \A n \in SucceededIn(s) \cap Required : Recognised(s, n) =>
                 \A e \in TakenEdges(dsl, n, s.branch[n]) :
                     e.target \in Required => n \in Seed(s)[e.target]
PROOF
  <1>1. SucceededIn(s) \subseteq Id /\ target \notin SucceededIn(s)
    BY GraphFacts DEF SucceededIn
  <1>2. Seed(s) \in [Id -> SUBSET Id]
    BY <1>1 DEF Seed
  <1>3. ASSUME NEW t \in Id, NEW n \in Seed(s)[t]
        PROVE  n \in Led(s, t)
    <2>1. n \in SucceededIn(s) /\ \E e \in Credited(s, n) : e.target = t
      BY <1>3 DEF Seed
    <2>2. PICK e \in TakenEdges(dsl, n, s.branch[n]) : e.target = t
      BY <2>1, CreditedTaken
    <2> QED  BY <1>1, <2>1, <2>2, LedBySuccess
  <1>4. ASSUME NEW n \in SucceededIn(s) \cap Required, Recognised(s, n),
               NEW e \in TakenEdges(dsl, n, s.branch[n]), e.target \in Required
        PROVE  n \in Seed(s)[e.target]
    <2>1. e \in Credited(s, n) /\ e.target \in Id
      BY <1>4, CreditedTaken, GraphFacts DEF Out
    <2> QED  BY <1>4, <2>1 DEF Seed
  <1> QED  BY <1>2, <1>3, <1>4

-----------------------------------------------------------------------------
(* The beginning of a call. *)

Good(r) == r \in Call /\ CallFits(r) /\ NothingForgotten(r)

\* Clearing what a session waits for and resetting its target takes nothing
\* away from its history.
LEMMA ResetFits ==
    ASSUME TypeOK, NEW s \in Session, Explained(s),
           NEW u \in Session, u.branch = s.branch,
           u.node = [s.node EXCEPT ![target] = "pending"]
    PROVE  /\ u.node[target] = "pending"
           /\ Explained(u)
           /\ \A n \in Id : Led(s, n) \subseteq Led(u, n)
           /\ \A n \in dsl.nodes : Justified(s, n) => Justified(u, n)
PROOF
  <1>1. u.node[target] = "pending" /\ \A n \in Id \ {target} : u.node[n] = s.node[n]
    BY GraphFacts DEF Session
  <1>2. SucceededIn(s) \ {target} \subseteq SucceededIn(u)
    BY <1>1, GraphFacts DEF SucceededIn
  <1>3. ASSUME NEW n \in Id PROVE Led(s, n) \subseteq Led(u, n)
    <2>1. s.branch[target] # NoHandle => u.branch[target] # NoHandle
      OBVIOUS
    <2>2. \A m \in SucceededIn(s) \ {target} : u.branch[m] = s.branch[m]
      OBVIOUS
    <2> QED  BY <1>2, <2>1, <2>2, LedGrows
  <1>4. \A n \in dsl.nodes : Justified(s, n) => Justified(u, n)
    BY <1>3, GraphFacts, JoinMonotone DEF Justified
  <1>5. Explained(u)
    <2> SUFFICES ASSUME NEW n \in Touched(u) PROVE n \in Required /\ Justified(u, n)
      BY DEF Explained
    <2>1. n \in dsl.nodes /\ n \in Touched(s)
      BY <1>1, GraphFacts DEF Touched
    <2> QED  BY <1>4, <2>1 DEF Explained
  <1> QED  BY <1>1, <1>3, <1>4, <1>5

LEMMA OpenFits ==
    ASSUME TypeOK, NEW s \in Session, Explained(s),
           NEW resumed \in dsl.nodes \cup {None},
           resumed # None => s.node[resumed] = "waiting_input",
           NEW c, Open(c, s, resumed)
    PROVE  \E r : Good(r) /\ run' = [run EXCEPT ![c] = r]
PROOF
  <1> DEFINE u     == [s EXCEPT !.waiting = None, !.node[target] = "pending"]
             batch == IF resumed # None THEN {resumed}
                      ELSE {n \in Missing(u) : IsReadyToRun(n, Seed(u))}
  <1>1. PICK q \in Orders(batch) :
           run' = [run EXCEPT ![c] =
                     [s |-> u, queue |-> q, pushed |-> batch, arrived |-> Seed(u),
                      resumed |-> resumed, returned |-> FALSE]]
    BY Zenon DEF Open
  <1> HIDE DEF u
  <1>2. /\ u \in Session /\ u.waiting = None /\ u.node[target] = "pending"
        /\ Explained(u)
        /\ \A n \in dsl.nodes : Justified(s, n) => Justified(u, n)
    <2>1. /\ u \in Session /\ u.waiting = None /\ u.branch = s.branch
          /\ u.node = [s.node EXCEPT ![target] = "pending"]
      BY DEF u, Session
    <2> QED  BY <2>1, ResetFits
  <1>3. /\ Seed(u) \in [Id -> SUBSET Id]
        /\ \A n \in Id : Seed(u)[n] \subseteq Led(u, n)
        /\ \A n \in SucceededIn(u) \cap Required : Recognised(u, n) =>
              \A e \in TakenEdges(dsl, n, u.branch[n]) :
                  e.target \in Required => n \in Seed(u)[e.target]
    BY <1>2, SeedFits
  <1>4. /\ batch \subseteq dsl.nodes /\ batch \subseteq Required
        /\ \A n \in batch : Justified(u, n)
    <2>1. CASE resumed # None
      <3>1. resumed \in dsl.nodes /\ resumed \in Touched(s)
        BY <2>1 DEF Touched
      <3> QED  BY <1>2, <2>1, <3>1 DEF Explained
    <2>2. CASE resumed = None
      BY <1>3, <2>2, ReadyJustified, GraphFacts DEF Missing, IsReadyToRun
    <2> QED  BY <2>1, <2>2
  <1>5. IsFiniteSet(batch)
    BY <1>4, GraphFacts, FS_Subset
  <1>6. q \in Seq(batch) /\ \A n : Within(q, n) <=> n \in batch
    BY <1>5, OrdersFit
  <1>7. q \in Seq(dsl.nodes)
    BY <1>4, <1>6
  <1> DEFINE r == [s |-> u, queue |-> q, pushed |-> batch, arrived |-> Seed(u),
                   resumed |-> resumed, returned |-> FALSE]
  <1>8. r \in Call
    BY <1>2, <1>3, <1>4, <1>7, GraphFacts DEF Call
  <1>9. CallFits(r)
    BY <1>2, <1>3, <1>4, <1>6 DEF CallFits, ArrivalsFit, QueueFits, Queued
  <1>10. NothingForgotten(r)
    <2> SUFFICES ASSUME resumed = None PROVE NothingForgotten(r)
      BY DEF NothingForgotten, Complete
    <2>1. SucceededIn(u) \subseteq Required
      BY <1>2 DEF Explained, Touched, SucceededIn
    <2>2. ASSUME NEW n \in Required, IsReadyToRun(n, Seed(u))
          PROVE  u.node[n] = "succeeded" \/ n \in batch
      BY <2>2 DEF Missing
    <2> QED  BY <1>3, <1>6, <2>1, <2>2 DEF NothingForgotten, Queued
  <1> QED  BY <1>1, <1>8, <1>9, <1>10 DEF Good

-----------------------------------------------------------------------------
(* A turn of a call. *)

\* The call of c, in the middle of its loop, at the head of its queue.
LEMMA TurnFacts ==
    ASSUME IInv, NEW c \in Clients, HasTurn(c)
    PROVE  /\ Good(run[c]) /\ ~ run[c].returned
           /\ run[c].queue \in Seq(dsl.nodes) /\ run[c].queue # << >>
           /\ Current(c) \in dsl.nodes /\ Current(c) \in Id
           /\ Current(c) \in Required /\ Justified(run[c].s, Current(c))
           /\ Tail(run[c].queue) \in Seq(dsl.nodes)
           /\ \A n : Queued(run[c], n) <=> n = Current(c) \/ Within(Tail(run[c].queue), n)
PROOF
  <1>1. Good(run[c]) /\ ~ run[c].returned /\ run[c].queue # << >>
    BY DEF HasTurn, Running, Idle, IInv, TypeOK, Good
  <1>2. run[c].queue \in Seq(dsl.nodes)
    BY <1>1 DEF Good, Call
  <1>3. /\ Current(c) \in dsl.nodes
        /\ Tail(run[c].queue) \in Seq(dsl.nodes)
        /\ \A n : Queued(run[c], n) <=> n = Current(c) \/ Within(Tail(run[c].queue), n)
    BY <1>1, <1>2, TailFits DEF Current, Queued
  <1>4. Current(c) \in Required /\ Justified(run[c].s, Current(c))
    BY <1>1, <1>3 DEF Good, CallFits, QueueFits
  <1> QED  BY <1>1, <1>2, <1>3, <1>4, GraphFacts DEF IInv

LEMMA SkipFits ==
    ASSUME IInv, NEW c \in Clients, Skip(c)
    PROVE  \E r : Good(r) /\ run' = [run EXCEPT ![c] = r]
PROOF
  <1> DEFINE r == Pop(c)
  <1>1. HasTurn(c) /\ Skipped(c) /\ run' = [run EXCEPT ![c] = r]
    BY DEF Skip
  <1>2. run[c] \in Call
    BY <1>1, TurnFacts DEF Good
  <1>3. /\ r \in Call /\ r.queue = Tail(run[c].queue) /\ r.s = run[c].s
        /\ r.pushed = run[c].pushed /\ r.arrived = run[c].arrived
        /\ r.resumed = run[c].resumed /\ r.returned = run[c].returned
    BY <1>1, <1>2, TurnFacts DEF Pop, Call
  <1> HIDE DEF r
  <1>4. CallFits(r)
    BY <1>1, <1>3, TurnFacts DEF CallFits, ArrivalsFit, QueueFits, Queued, Good
  <1>5. ASSUME NEW n, Queued(run[c], n)
        PROVE  r.s.node[n] = "succeeded" \/ Queued(r, n)
    BY <1>1, <1>3, <1>5, TurnFacts DEF Skipped, Queued
  <1>6. NothingForgotten(r)
    <2> SUFFICES ASSUME Complete(r) PROVE NothingForgotten(r)
      BY DEF NothingForgotten
    <2>1. NothingForgotten(run[c]) /\ Complete(run[c]) /\ ~ r.returned
      BY <1>1, <1>3, TurnFacts DEF Complete, Good
    <2>2. \A n \in r.pushed : r.s.node[n] = "succeeded" \/ Queued(r, n)
      BY <1>3, <1>5, <2>1 DEF NothingForgotten
    <2>3. \A n \in Required : IsReadyToRun(n, r.arrived) =>
             r.s.node[n] = "succeeded" \/ Queued(r, n)
      BY <1>3, <1>5, <2>1 DEF NothingForgotten
    <2> QED  BY <1>3, <2>1, <2>2, <2>3 DEF NothingForgotten
  <1> QED  BY <1>1, <1>3, <1>4, <1>6 DEF Good

\* A node that has been explained and runs, for the first time or because it is
\* the target, takes nothing away from the session's history.
LEMMA NodeStepFits ==
    ASSUME TypeOK, NEW s \in Session, Explained(s),
           NEW n \in dsl.nodes, n \in Required, Justified(s, n),
           n # target => s.node[n] # "succeeded",
           NEW st, NEW u \in Session,
           u.node = [s.node EXCEPT ![n] = st],
           \/ u.branch = s.branch
           \/ \E h \in Handle \ {NoHandle} : u.branch = [s.branch EXCEPT ![n] = h]
    PROVE  /\ Explained(u)
           /\ \A m \in Id : Led(s, m) \subseteq Led(u, m)
           /\ \A m \in dsl.nodes : Justified(s, m) => Justified(u, m)
PROOF
  <1>1. /\ n \in Id /\ target \in Id
        /\ \A m \in Id \ {n} : u.node[m] = s.node[m] /\ u.branch[m] = s.branch[m]
        /\ u.branch[n] = s.branch[n] \/ u.branch[n] # NoHandle
    BY GraphFacts DEF Session
  <1>2. /\ SucceededIn(s) \ {target} \subseteq SucceededIn(u)
        /\ \A m \in SucceededIn(s) \ {target} : u.branch[m] = s.branch[m]
    BY <1>1, GraphFacts DEF SucceededIn
  <1>3. s.branch[target] # NoHandle => u.branch[target] # NoHandle
    BY <1>1
  <1>4. \A m \in Id : Led(s, m) \subseteq Led(u, m)
    BY <1>2, <1>3, LedGrows
  <1>5. \A m \in dsl.nodes : Justified(s, m) => Justified(u, m)
    BY <1>4, GraphFacts, JoinMonotone DEF Justified
  <1>6. \A m \in Touched(u) : m = n \/ m \in Touched(s)
    BY <1>1, GraphFacts DEF Touched
  <1>7. Explained(u)
    BY <1>5, <1>6 DEF Explained, Touched
  <1> QED  BY <1>4, <1>5, <1>7

\* The result that ends a call is what the session then says of itself.
LEMMA ReturnFits ==
    ASSUME IInv, NEW c \in Clients, HasTurn(c), ~ Skipped(c),
           NEW nodeStatus \in {"waiting_input", "succeeded", "failed"},
           NEW status \in DebugStatus \ {"ready"},
           NEW waiting \in {Current(c), None},
           Return(c, nodeStatus, status, waiting),
           (status = "waiting_input") <=> (waiting # None),
           waiting # None => nodeStatus = "waiting_input",
           status = "target_succeeded" => nodeStatus = "succeeded" /\ Current(c) = target
    PROVE  \E r : Good(r) /\ run' = [run EXCEPT ![c] = r]
PROOF
  <1> DEFINE n == Current(c)
             u == [run[c].s EXCEPT !.node[n] = nodeStatus, !.status = status,
                                   !.waiting = waiting]
             r == [run[c] EXCEPT !.queue = Tail(@), !.s = u, !.returned = TRUE]
  <1>2. /\ run[c] \in Call /\ run[c].s \in Session /\ CallFits(run[c])
        /\ n \in dsl.nodes /\ n \in Id /\ n \in Required /\ Justified(run[c].s, n)
    BY TurnFacts DEF Good, Call
  <1>3. /\ u \in Session /\ u.branch = run[c].s.branch
        /\ u.node = [run[c].s.node EXCEPT ![n] = nodeStatus]
        /\ u.node[n] = nodeStatus
        /\ u.status = status /\ u.waiting = waiting
    <2>1. status \in DebugStatus /\ waiting \in Id \cup {None}
      BY <1>2
    <2> HIDE DEF n
    <2> QED  BY <1>2, <2>1 DEF Session
  <1>4. /\ r \in Call /\ r.queue = Tail(run[c].queue) /\ r.s = u
        /\ r.arrived = run[c].arrived /\ r.returned = TRUE
    <2> HIDE DEF u
    <2> QED  BY <1>2, <1>3, TurnFacts DEF Call
  <1>1. run' = [run EXCEPT ![c] = r]
    <2>1. [Pop(c) EXCEPT !.s = [@ EXCEPT !.node[n] = nodeStatus, !.status = status,
                                         !.waiting = waiting],
                         !.returned = TRUE] = r
      BY <1>2 DEF Pop, Call
    <2> QED  BY <2>1, Zenon DEF Return
  <1> HIDE DEF r, u
  <1>5. /\ Explained(u)
        /\ \A m \in Id : Led(run[c].s, m) \subseteq Led(u, m)
        /\ \A m \in dsl.nodes : Justified(run[c].s, m) => Justified(u, m)
    <2>1. n # target => run[c].s.node[n] # "succeeded"
      BY DEF Skipped
    <2> QED  BY <1>2, <1>3, <2>1, NodeStepFits DEF CallFits, IInv
  <1>6. ArrivalsFit(r) /\ QueueFits(r)
    BY <1>2, <1>4, <1>5, TurnFacts DEF CallFits, ArrivalsFit, QueueFits, Queued
  <1>7. Coherent(u)
    BY <1>2, <1>3 DEF Coherent
  <1>8. NothingForgotten(r)
    BY <1>3, <1>4 DEF NothingForgotten, Complete
  <1> QED  BY <1>1, <1>4, <1>5, <1>6, <1>7, <1>8 DEF Good, CallFits

\* A success marks its arrivals and queues what they make ready.
LEMMA ForwardFits ==
    ASSUME IInv, NEW c \in Clients, HasTurn(c), ~ Skipped(c),
           NEW s \in Session,
           s.node = run[c].s.node, s.waiting = run[c].s.waiting,
           \/ s.branch = run[c].s.branch
           \/ \E h \in Handle \ {NoHandle} :
                 s.branch = [run[c].s.branch EXCEPT ![Current(c)] = h],
           Current(c) = target => s.branch[target] # NoHandle,
           NEW edges, edges = TakenEdges(dsl, Current(c), s.branch[Current(c)]),
           Forward(c, edges, s)
    PROVE  \E r : Good(r) /\ run' = [run EXCEPT ![c] = r]
PROOF
  <1> DEFINE n == Current(c)
             old == run[c].arrived
             reached == {e \in edges : e.target \in Required}
             arr == [t \in Id |-> old[t] \cup {e.source : e \in {x \in reached : x.target = t}}]
             batch == {t \in {e.target : e \in reached} \ run[c].pushed :
                          IsReadyToRun(t, arr)}
             u == [s EXCEPT !.node[n] = "succeeded"]
  <1>1. PICK q \in Orders(batch) :
           run' = [run EXCEPT ![c] = [Pop(c) EXCEPT !.s = u, !.queue = @ \o q,
                                                    !.pushed = @ \cup batch,
                                                    !.arrived = arr]]
    BY Zenon DEF Forward
  <1>2. /\ run[c] \in Call /\ run[c].s \in Session /\ CallFits(run[c])
        /\ NothingForgotten(run[c]) /\ ~ run[c].returned /\ TypeOK
        /\ n \in dsl.nodes /\ n \in Id /\ n \in Required /\ Justified(run[c].s, n)
        /\ n # target => run[c].s.node[n] # "succeeded"
        /\ old \in [Id -> SUBSET Id] /\ run[c].pushed \subseteq dsl.nodes
    BY TurnFacts DEF Good, Call, IInv, Skipped
  <1>3. /\ u \in Session /\ u.branch = s.branch
        /\ u.node = [run[c].s.node EXCEPT ![n] = "succeeded"]
        /\ u.node[n] = "succeeded"
        /\ \/ u.branch = run[c].s.branch
           \/ \E h \in Handle \ {NoHandle} :
                 u.branch = [run[c].s.branch EXCEPT ![n] = h]
        /\ \A m \in Id \ {n} : /\ u.node[m] = run[c].s.node[m]
                               /\ u.branch[m] = run[c].s.branch[m]
        /\ u.waiting = None
    <2> HIDE DEF n
    <2>1. run[c].s.waiting = None
      BY <1>2 DEF CallFits
    <2>2. /\ u \in Session /\ u.branch = s.branch /\ u.waiting = None
          /\ u.node = [run[c].s.node EXCEPT ![n] = "succeeded"]
      BY <1>2, <2>1 DEF Session
    <2> HIDE DEF u
    <2>3. \/ u.branch = run[c].s.branch
          \/ \E h \in Handle \ {NoHandle} :
                u.branch = [run[c].s.branch EXCEPT ![n] = h]
      BY <2>2 DEF n
    <2>4. /\ u.node[n] = "succeeded"
          /\ \A m \in Id \ {n} : u.node[m] = run[c].s.node[m]
      BY <1>2, <2>2 DEF Session
    <2>5. \A m \in Id \ {n} : u.branch[m] = run[c].s.branch[m]
      BY <1>2, <2>3 DEF Session
    <2> QED  BY <2>2, <2>3, <2>4, <2>5
  <1> HIDE DEF u
  <1>4. /\ Explained(u)
        /\ \A m \in Id : Led(run[c].s, m) \subseteq Led(u, m)
        /\ \A m \in dsl.nodes : Justified(run[c].s, m) => Justified(u, m)
    <2>1. Explained(run[c].s)
      BY <1>2 DEF CallFits
    <2>2. /\ u.node = [run[c].s.node EXCEPT ![n] = "succeeded"]
          /\ \/ u.branch = run[c].s.branch
             \/ \E h \in Handle \ {NoHandle} :
                   u.branch = [run[c].s.branch EXCEPT ![n] = h]
      BY <1>3
    <2> HIDE DEF n
    <2> QED  BY ONLY <1>2, <1>3, <2>1, <2>2, NodeStepFits
  <1>5. \A e \in edges : e.source = n /\ e.target \in Id /\ e \in dsl.edges
    BY CreditedTaken, GraphFacts, <1>2 DEF Out
  <1>6. arr \in [Id -> SUBSET Id] /\ \A t \in Id : old[t] \subseteq arr[t]
    BY <1>2, <1>5
  <1>7. ASSUME NEW e \in reached
        PROVE  n \in arr[e.target]
    BY <1>5
  <1>8. ASSUME NEW t \in Id, NEW m \in arr[t]
        PROVE  m \in old[t] \/ (m = n /\ \E e \in reached : e.target = t)
    BY <1>5
  <1> HIDE DEF arr, reached
  <1>9. ASSUME NEW t \in Id PROVE arr[t] \subseteq Led(u, t)
    <2> SUFFICES ASSUME NEW m \in arr[t] PROVE m \in Led(u, t)
      OBVIOUS
    <2>1. CASE m \in old[t]
      BY <1>2, <1>4, <2>1 DEF CallFits, ArrivalsFit
    <2>2. CASE m = n /\ \E e \in reached : e.target = t
      <3>1. PICK e \in edges : e.target = t
        BY <2>2 DEF reached
      <3>2. n \in SucceededIn(u) /\ e \in TakenEdges(dsl, n, u.branch[n])
        BY <1>2, <1>3, <3>1 DEF SucceededIn
      <3>3. n = target => u.branch[n] # NoHandle
        BY <1>3
      <3> QED  BY <1>2, <2>2, <3>1, <3>2, <3>3, LedBySuccess
    <2> QED  BY <1>8, <2>1, <2>2
  <1>10. /\ batch \subseteq dsl.nodes
         /\ \A t \in batch : t \in Required /\ Justified(u, t)
    <2> SUFFICES ASSUME NEW t \in batch
                 PROVE  t \in dsl.nodes /\ t \in Required /\ Justified(u, t)
      OBVIOUS
    <2>1. t \in dsl.nodes /\ t \in Required /\ IsReadyToRun(t, arr)
      BY DEF reached, IsReadyToRun
    <2> QED  BY <1>2, <1>9, <2>1, ReadyJustified, GraphFacts
  <1>11. IsFiniteSet(batch)
    BY <1>2, <1>10, GraphFacts, FS_Subset
  <1>12. ASSUME NEW t \in Id, t \notin batch, IsReadyToRun(t, arr), t \notin run[c].pushed
         PROVE  IsReadyToRun(t, old)
    <2>1. arr[t] \subseteq old[t]
      BY <1>8, <1>12 DEF reached
    <2> QED  BY <1>12, <2>1, JoinMonotone DEF IsReadyToRun
  <1> HIDE DEF batch
  <1>13. q \in Seq(batch) /\ \A x : Within(q, x) <=> x \in batch
    BY <1>11, OrdersFit
  <1>14. q \in Seq(dsl.nodes)
    BY <1>10, <1>13
  <1> DEFINE tl == Tail(run[c].queue)
             qq == tl \o q
             r  == [run[c] EXCEPT !.queue = qq, !.s = u,
                                  !.pushed = @ \cup batch, !.arrived = arr]
  <1>15. /\ tl \in Seq(dsl.nodes)
         /\ \A m : Queued(run[c], m) <=> m = n \/ Within(tl, m)
    BY TurnFacts
  <1> HIDE DEF tl
  <1>16. /\ qq \in Seq(dsl.nodes)
         /\ \A m : Within(qq, m) <=> Within(tl, m) \/ m \in batch
    BY <1>13, <1>14, <1>15, ConcatFits
  <1> HIDE DEF qq
  <1>17. /\ r \in Call /\ r.s = u /\ r.queue = qq /\ r.arrived = arr
         /\ r.pushed = run[c].pushed \cup batch
         /\ r.resumed = run[c].resumed /\ r.returned = FALSE
    BY <1>2, <1>3, <1>6, <1>10, <1>16 DEF Call
  <1>18. run' = [run EXCEPT ![c] = r]
    <2>1. [Pop(c) EXCEPT !.s = u, !.queue = @ \o q, !.pushed = @ \cup batch,
                         !.arrived = arr] = r
      BY <1>2 DEF Pop, Call, tl, qq
    <2> QED  BY <1>1, <2>1, Zenon
  <1> HIDE DEF r
  <1>19. CallFits(r)
    <2>1. QueueFits(r)
      BY <1>2, <1>4, <1>10, <1>15, <1>16, <1>17 DEF CallFits, QueueFits, Queued
    <2> QED  BY <1>3, <1>4, <1>9, <1>17, <2>1 DEF CallFits, ArrivalsFit
  <1>20. NothingForgotten(r)
    <2> SUFFICES ASSUME Complete(r) PROVE NothingForgotten(r)
      BY DEF NothingForgotten
    <2>1. Complete(run[c])
      BY <1>2, <1>17 DEF Complete
    <2>2. \A m : Queued(run[c], m) => u.node[m] = "succeeded" \/ Queued(r, m)
      BY <1>3, <1>15, <1>16, <1>17 DEF Queued
    <2>3. \A m \in Id : run[c].s.node[m] = "succeeded" => u.node[m] = "succeeded"
      BY <1>3
    <2>4. ASSUME NEW m \in SucceededIn(u), Recognised(u, m),
                 NEW e \in TakenEdges(dsl, m, u.branch[m]), e.target \in Required
          PROVE  m \in arr[e.target]
      <3>1. CASE m = n
        BY <1>3, <1>7, <2>4, <3>1 DEF reached
      <3>2. CASE m # n
        <4>1. m \in SucceededIn(run[c].s) /\ u.branch[m] = run[c].s.branch[m]
          BY <1>2, <1>3, <3>2, GraphFacts DEF SucceededIn
        <4>2. Recognised(run[c].s, m)
          BY <2>4, <4>1 DEF Recognised, InferBranch
        <4>3. e.target \in Id
          BY <1>2, CreditedTaken, GraphFacts DEF Out
        <4>4. m \in old[e.target]
          BY <1>2, <2>1, <2>4, <4>1, <4>2 DEF NothingForgotten
        <4> QED  BY <1>6, <4>3, <4>4
      <3> QED  BY <3>1, <3>2
    <2>5. ASSUME NEW m \in run[c].pushed
          PROVE  u.node[m] = "succeeded" \/ Queued(r, m)
      <3>1. m \in Id /\ (run[c].s.node[m] = "succeeded" \/ Queued(run[c], m))
        BY <1>2, <2>1, GraphFacts DEF NothingForgotten
      <3> QED  BY <2>2, <2>3, <3>1
    <2>6. ASSUME NEW m \in batch PROVE Queued(r, m)
      BY <1>16, <1>17 DEF Queued
    <2>7. ASSUME NEW m \in Required, IsReadyToRun(m, arr)
          PROVE  u.node[m] = "succeeded" \/ Queued(r, m)
      <3>1. m \in Id
        BY <1>2, <2>7, GraphFacts DEF IsReadyToRun
      <3>2. CASE m \in batch \/ m \in run[c].pushed
        BY <2>5, <2>6, <3>2
      <3>3. CASE m \notin batch /\ m \notin run[c].pushed
        <4>1. run[c].s.node[m] = "succeeded" \/ Queued(run[c], m)
          BY <1>2, <1>12, <2>1, <2>7, <3>1, <3>3 DEF NothingForgotten
        <4> QED  BY <2>2, <2>3, <3>1, <4>1
      <3> QED  BY <3>2, <3>3
    <2> QED  BY <1>17, <2>4, <2>5, <2>6, <2>7 DEF NothingForgotten
  <1> QED  BY <1>17, <1>18, <1>19, <1>20 DEF Good

LEMMA RunDryFits ==
    ASSUME IInv, NEW c \in Clients, RunDry(c)
    PROVE  \E r : Good(r) /\ run' = [run EXCEPT ![c] = r]
PROOF
  <1> DEFINE s == run[c].s
             u == [s EXCEPT !.status = "ready"]
             r == [run[c] EXCEPT !.s = u, !.returned = TRUE]
  <1>1. /\ run[c] \in Call /\ CallFits(run[c]) /\ NothingForgotten(run[c])
        /\ s \in Session /\ ~ run[c].returned /\ run[c].queue = << >>
    BY DEF RunDry, Running, Idle, IInv, TypeOK, Call
  <1>2. run' = [run EXCEPT ![c] = r]
    <2>1. [run[c] EXCEPT !.s.status = "ready", !.returned = TRUE] = r
      BY <1>1 DEF Call
    <2> QED  BY <2>1 DEF RunDry
  <1>3. /\ u \in Session /\ u.status = "ready" /\ u.waiting = s.waiting
        /\ u.node = s.node /\ u.branch = s.branch
    BY <1>1 DEF Session, DebugStatus
  <1>4. /\ r \in Call /\ r.s = u /\ r.queue = run[c].queue /\ r.pushed = run[c].pushed
        /\ r.arrived = run[c].arrived /\ r.resumed = run[c].resumed /\ r.returned = TRUE
    <2> HIDE DEF u
    <2> QED  BY <1>1, <1>3 DEF Call
  <1> HIDE DEF u, r, s
  <1>5. /\ SucceededIn(u) = SucceededIn(s) /\ Touched(u) = Touched(s)
        /\ \A n : /\ Led(u, n) = Led(s, n) /\ (Justified(u, n) <=> Justified(s, n))
                  /\ Recognised(u, n) <=> Recognised(s, n)
    <2>1. SucceededIn(u) = SucceededIn(s) /\ Touched(u) = Touched(s)
      BY <1>3 DEF SucceededIn, Touched
    <2>2. \A n : Led(u, n) = Led(s, n)
      BY <1>3, <2>1 DEF Led
    <2> QED  BY <1>3, <2>1, <2>2 DEF Justified, Recognised, InferBranch
  <1>6. CallFits(r)
    <2>1. Explained(u) /\ ArrivalsFit(r) /\ QueueFits(r)
      BY <1>1, <1>4, <1>5 DEF CallFits, Explained, ArrivalsFit, QueueFits, Queued, s
    <2>2. Coherent(u)
      BY <1>1, <1>3 DEF Coherent, CallFits, s
    <2> QED  BY <1>4, <2>1, <2>2 DEF CallFits
  <1>7. NothingForgotten(r)
    <2> SUFFICES ASSUME Complete(r) PROVE NothingForgotten(r)
      BY DEF NothingForgotten
    <2>1. Complete(run[c])
      BY <1>1, <1>4 DEF Complete
    <2> QED
      BY <1>1, <1>3, <1>4, <1>5, <2>1 DEF NothingForgotten, Queued, s
  <1> QED  BY <1>2, <1>4, <1>6, <1>7 DEF Good

LEMMA TurnFits ==
    ASSUME IInv, NEW c \in Clients,
           Skip(c) \/ AskForInput(c) \/ Fail(c) \/ Succeed(c) \/ Branch(c) \/ RunDry(c)
    PROVE  /\ \E r : Good(r) /\ run' = [run EXCEPT ![c] = r]
           /\ UNCHANGED <<dsl, target, mode, stored>>
PROOF
  <1>1. UNCHANGED <<dsl, target, mode, stored>>
    BY DEF Skip, AskForInput, Fail, Succeed, Branch, RunDry
  <1>2. CASE Skip(c) \/ RunDry(c)
    BY <1>1, <1>2, SkipFits, RunDryFits
  <1>3. CASE AskForInput(c)
    <2>1. Current(c) # None
      BY <1>3, TurnFacts, ClientsAssumption DEF AskForInput, ClientsAssumption
    <2> QED  BY <1>1, <1>3, <2>1, ReturnFits DEF AskForInput, DebugStatus
  <1>4. CASE Fail(c)
    BY <1>1, <1>4, ReturnFits DEF Fail, DebugStatus
  <1>5. CASE Succeed(c)
    <2>1. HasTurn(c) /\ ~ Skipped(c)
      BY <1>5 DEF Succeed
    <2>2. CASE Current(c) = target
      BY <1>1, <1>5, <2>1, <2>2, ReturnFits DEF Succeed, DebugStatus
    <2>3. CASE Current(c) # target
      <3>1. Forward(c, Out(dsl, Current(c)), run[c].s)
        BY <1>5, <2>3 DEF Succeed
      <3>2. dsl.kind[Current(c)] # "if-else"
        BY <1>5 DEF Succeed, Answered
      <3>3. Out(dsl, Current(c))
              = TakenEdges(dsl, Current(c), run[c].s.branch[Current(c)])
        BY <3>2 DEF TakenEdges
      <3>4. run[c].s \in Session
        BY <2>1, TurnFacts DEF Good, Call
      <3> DEFINE edges == Out(dsl, Current(c))
                 s     == run[c].s
      <3>5. /\ edges = TakenEdges(dsl, Current(c), s.branch[Current(c)])
            /\ Forward(c, edges, s) /\ s \in Session
            /\ s.node = run[c].s.node /\ s.waiting = run[c].s.waiting
            /\ s.branch = run[c].s.branch
            /\ Current(c) # target
        BY <2>3, <3>1, <3>3, <3>4
      <3> HIDE DEF edges, s
      <3> QED  BY <1>1, <2>1, <3>5, ForwardFits
    <2> QED  BY <2>2, <2>3
  <1>6. CASE Branch(c)
    <2>1. HasTurn(c) /\ ~ Skipped(c) /\ dsl.kind[Current(c)] = "if-else"
      BY <1>6 DEF Branch
    <2> DEFINE s(h) == [run[c].s EXCEPT !.branch[Current(c)] = h]
    <2>2. PICK h \in Handle \ {NoHandle} :
             Forward(c, SelectIfElseNextEdges(Out(dsl, Current(c)), h), s(h))
      BY <1>6, Zenon DEF Branch
    <2>3. run[c].s \in Session /\ Current(c) \in Id
      BY <2>1, TurnFacts DEF Good, Call
    <2>4. /\ s(h) \in Session /\ s(h).node = run[c].s.node
          /\ s(h).waiting = run[c].s.waiting
          /\ s(h).branch = [run[c].s.branch EXCEPT ![Current(c)] = h]
          /\ s(h).branch[Current(c)] = h
      BY <2>3 DEF Session
    <2> HIDE DEF s
    <2>5. SelectIfElseNextEdges(Out(dsl, Current(c)), h)
            = TakenEdges(dsl, Current(c), s(h).branch[Current(c)])
      BY <2>1, <2>4 DEF TakenEdges
    <2> DEFINE edges == SelectIfElseNextEdges(Out(dsl, Current(c)), h)
               t     == s(h)
    <2>6. /\ edges = TakenEdges(dsl, Current(c), t.branch[Current(c)])
          /\ Forward(c, edges, t) /\ t \in Session
          /\ t.node = run[c].s.node /\ t.waiting = run[c].s.waiting
          /\ \E x \in Handle \ {NoHandle} :
                t.branch = [run[c].s.branch EXCEPT ![Current(c)] = x]
          /\ Current(c) = target => t.branch[target] # NoHandle
      BY <2>2, <2>4, <2>5
    <2> HIDE DEF edges, t
    <2> QED  BY <1>1, <2>1, <2>6, ForwardFits
  <1> QED  BY <1>1, <1>2, <1>3, <1>4, <1>5, <1>6

-----------------------------------------------------------------------------
(* Requests. *)

LEMMA FreshFits == TypeOK => Fresh \in Session /\ Explained(Fresh)
PROOF
  <1>1. Fresh \in Session
    BY GraphsAssumption DEF Fresh, Session, DebugStatus, GraphsAssumption
  <1>2. ASSUME TypeOK PROVE Touched(Fresh) = {}
    BY <1>2, GraphFacts DEF Touched, Fresh
  <1> QED  BY <1>1, <1>2 DEF Explained

LEMMA RequestFits ==
    ASSUME IInv, NEW c \in Clients, Request(c)
    PROVE  /\ \E r : Good(r) /\ run' = [run EXCEPT ![c] = r]
           /\ UNCHANGED <<dsl, target, mode, stored>>
PROOF
  <1>1. TypeOK /\ UNCHANGED <<dsl, target, mode, stored>>
    BY DEF IInv, Request, Start, Continue, Rerun, Rebuild
  <1>2. CASE Start(c) \/ Rebuild(c)
    <2>1. Open(c, Fresh, None)
      BY <1>2 DEF Start, Rebuild
    <2> QED  BY <1>1, <2>1, FreshFits, OpenFits
  <1>3. CASE Continue(c)
    <2>1. /\ stored \in Session /\ Explained(stored)
          /\ stored.waiting \in dsl.nodes /\ stored.node[stored.waiting] = "waiting_input"
          /\ Open(c, stored, stored.waiting)
      BY <1>1, <1>3 DEF Continue, TypeOK, IInv, StoredFits, Coherent
    <2> QED  BY <1>1, <2>1, OpenFits
  <1>4. CASE Rerun(c)
    <2>1. stored \in Session /\ Explained(stored) /\ Open(c, stored, None)
      BY <1>1, <1>4 DEF Rerun, TypeOK, IInv, StoredFits
    <2> QED  BY <1>1, <2>1, OpenFits
  <1> QED  BY <1>1, <1>2, <1>3, <1>4 DEF Request

-----------------------------------------------------------------------------
\* The definition, the target and the mode of a session never change; so it is
\* enough that the new calls and the new session fit the old ones' definition.
LEMMA FitsNext ==
    ASSUME IInv, UNCHANGED <<dsl, target, mode>>,
           \A c \in Clients : run'[c] # None => Good(run'[c]),
           run' \in [Clients -> Call \cup {None}],
           stored' \in Session \cup {None},
           stored' # None => Explained(stored') /\ Coherent(stored')
    PROVE  IInv'
PROOF
  <1>1. TypeOK'
    BY DEF IInv, TypeOK, Call, Session
  <1>2. StoredFits'
    <2>1. (stored # None => Explained(stored))'
      BY DEF Explained, Touched, Required, Justified, Led, SucceededIn
    <2>2. (stored # None => Coherent(stored))'
      BY DEF Coherent
    <2> QED  BY <2>1, <2>2 DEF StoredFits
  <1>3. \A c \in Clients : (run[c] # None => CallFits(run[c]))'
    <2> SUFFICES ASSUME NEW c \in Clients, run'[c] # None PROVE CallFits(run[c])'
      OBVIOUS
    <2>1. CallFits(run'[c])
      BY DEF Good
    <2>2. Explained(run[c].s)'
      BY <2>1 DEF CallFits, Explained, Touched, Required, Justified, Led, SucceededIn
    <2>3. ArrivalsFit(run[c])'
      BY <2>1 DEF CallFits, ArrivalsFit, Led, SucceededIn
    <2>4. QueueFits(run[c])'
      BY <2>1 DEF CallFits, QueueFits, Queued, Within, Required, Justified, Led,
                  SucceededIn
    <2>5. /\ (run[c].returned => Coherent(run[c].s))'
          /\ (~ run[c].returned => run[c].s.waiting = None)'
      BY <2>1 DEF CallFits, Coherent
    <2> QED  BY <2>2, <2>3, <2>4, <2>5 DEF CallFits
  <1>4. \A c \in Clients : (run[c] # None => NothingForgotten(run[c]))'
    BY DEF Good, NothingForgotten, Complete, Recognised, InferBranch, Queued, Within,
           Required, SucceededIn, IsReadyToRun
  <1> QED  BY <1>1, <1>2, <1>3, <1>4 DEF IInv

LEMMA NextKeeps == IInv /\ [Next]_debugVars => IInv'
PROOF
  <1> SUFFICES ASSUME IInv, [Next]_debugVars PROVE IInv'
    OBVIOUS
  <1> USE DEF IInv
  <1>1. /\ run \in [Clients -> Call \cup {None}]
        /\ \A c \in Clients : run[c] # None => Good(run[c])
        /\ stored \in Session \cup {None}
        /\ stored # None => Explained(stored) /\ Coherent(stored)
    BY DEF TypeOK, Good, StoredFits
  <1>2. ASSUME NEW c \in Clients, Request(c) \/ (Turn(c) /\ ~ Save(c))
        PROVE  IInv'
    <2>1. /\ \E r : Good(r) /\ run' = [run EXCEPT ![c] = r]
          /\ UNCHANGED <<dsl, target, mode, stored>>
      BY <1>2, RequestFits, TurnFits DEF Turn
    <2>2. PICK r : Good(r) /\ run' = [run EXCEPT ![c] = r]
      BY <2>1
    <2>3. /\ run' \in [Clients -> Call \cup {None}]
          /\ \A d \in Clients : run'[d] # None => Good(run'[d])
      BY <1>1, <2>2 DEF Good
    <2> QED  BY <1>1, <2>1, <2>3, FitsNext
  <1>3. ASSUME NEW c \in Clients, Save(c)
        PROVE  IInv'
    <2>1. /\ run[c] # None /\ run[c].returned /\ stored' = run[c].s
          /\ run' = [run EXCEPT ![c] = None] /\ UNCHANGED <<dsl, target, mode>>
      BY <1>3 DEF Save, Idle
    <2>2. stored' \in Session /\ Explained(stored') /\ Coherent(stored')
      BY <1>1, <2>1 DEF Good, CallFits, Call
    <2>3. /\ run' \in [Clients -> Call \cup {None}]
          /\ \A d \in Clients : run'[d] # None => Good(run'[d])
      BY <1>1, <2>1
    <2> QED  BY <2>1, <2>2, <2>3, FitsNext
  <1>4. CASE UNCHANGED debugVars
    BY <1>1, <1>4, FitsNext DEF debugVars
  <1> QED  BY <1>2, <1>3, <1>4 DEF Next

LEMMA InitIInv == Init => IInv
PROOF
  <1> SUFFICES ASSUME Init PROVE IInv
    OBVIOUS
  <1>1. TypeOK
    BY GraphsAssumption DEF Init, TypeOK, GraphsAssumption
  <1> QED  BY <1>1 DEF Init, IInv, StoredFits

LEMMA Inductive == Spec => []IInv
PROOF  BY InitIInv, NextKeeps, PTL DEF Spec

-----------------------------------------------------------------------------
(* The theorems. *)

\* Every variable of a debug session and its requests keeps its type.
THEOREM TypeCorrect == Spec => []TypeOK
PROOF
  <1>1. IInv => TypeOK
    BY DEF IInv
  <1> QED  BY <1>1, Inductive, PTL

\* However many requests work on copies of one session at a time and save them
\* over one another, for every definition and every target: the stored session
\* is one that a single run could have left, waits for the node that asked,
\* and has its target when it says so (debug.go, debug_store.go).
THEOREM StoredSessionIsOneRun == Spec => []StoredIsOneRun
PROOF
  <1>1. IInv => StoredIsOneRun
    BY DEF IInv, StoredIsOneRun, StoredFits, Coherent
  <1> QED  BY <1>1, Inductive, PTL

\* A start, rerun or rebuild that runs dry has run every required node whose
\* join is satisfied, as long as no branch's answer was forgotten (debug.go).
THEOREM DryRunLeavesNothing == Spec => []NothingLeftReady
PROOF
  <1>1. ASSUME IInv PROVE NothingLeftReady
    <2> SUFFICES ASSUME NEW c \in Clients, run[c] # None, run[c].returned,
                        run[c].resumed = None, run[c].s.status = "ready",
                        Forgotten(run[c].s) = {},
                        NEW n \in Required \cap dsl.nodes,
                        run[c].s.node[n] # "succeeded"
                 PROVE  /\ Sources(dsl, n) # {}
                        /\ ~ JoinSatisfied(dsl, n, Reached(run[c].s, n) \cap Required)
      BY DEF NothingLeftReady, Idle
    <2> DEFINE r == run[c]
    <2>1. r \in Call /\ CallFits(r) /\ NothingForgotten(r) /\ Complete(r) /\ TypeOK
      BY <1>1 DEF IInv, TypeOK, Complete
    <2>2. r.queue = << >> /\ ~ Queued(r, n)
      BY <2>1 DEF NothingForgotten, Queued, Within
    <2>3. ~ IsReadyToRun(n, r.arrived)
      BY <2>1, <2>2 DEF NothingForgotten
    <2>4. Reached(r.s, n) \subseteq r.arrived[n]
      <3> SUFFICES ASSUME NEW m \in Reached(r.s, n) PROVE m \in r.arrived[n]
        OBVIOUS
      <3>1. n \in Id
        BY <2>1, GraphFacts
      <3>2. PICK e \in TakenEdges(dsl, m, r.s.branch[m]) : e.target = n
        BY <3>1 DEF Reached, ArrivalsFrom
      <3>3. m \in SucceededIn(r.s) /\ Recognised(r.s, m)
        BY <3>1 DEF Reached, ArrivalsFrom, Forgotten, Recognised
      <3> QED  BY <2>1, <3>2, <3>3 DEF NothingForgotten
    <2> QED  BY <2>3, <2>4, JoinMonotone DEF IsReadyToRun
  <1> QED  BY <1>1, Inductive, PTL

-----------------------------------------------------------------------------
(* Calls end. *)

\* The turns a call may still take: for what it has queued, and for what it may
\* queue yet.
Fuel(r) == Cardinality(dsl.nodes \ r.pushed) + Len(r.queue)

FuelBounded == \A c \in Clients : ~ Idle(c) => Fuel(run[c]) <= Cardinality(dsl.nodes)

Spends ==
    \A c \in Clients : Running(c) /\ run'[c] # run[c] =>
        Fuel(run[c])' = Fuel(run[c]) - 1 \/ run'[c].returned

LEMMA OrdersLength ==
    ASSUME NEW S, IsFiniteSet(S), NEW q \in Orders(S)
    PROVE  Len(q) = Cardinality(S) /\ q \in Seq(S)
PROOF
  <1>1. Cardinality(S) \in Nat /\ q \in [1 .. Cardinality(S) -> S]
    BY FS_CardinalityType DEF Orders
  <1> QED  BY <1>1

\* Queueing a batch for the first time neither gains nor costs turns.
LEMMA BatchIsPaid ==
    ASSUME TypeOK, NEW pushed, NEW batch, batch \subseteq dsl.nodes \ pushed,
           NEW q \in Orders(batch)
    PROVE  /\ Cardinality(dsl.nodes \ pushed) \in Nat /\ Len(q) \in Nat
           /\ Cardinality(dsl.nodes \ (pushed \cup batch)) + Len(q)
                 = Cardinality(dsl.nodes \ pushed)
           /\ q \in Seq(dsl.nodes)
PROOF
  <1> DEFINE rest == dsl.nodes \ pushed
  <1>1. IsFiniteSet(rest) /\ IsFiniteSet(batch)
    BY GraphFacts, FS_Subset
  <1>2. Cardinality(rest) \in Nat /\ Cardinality(batch) \in Nat
    BY <1>1, FS_CardinalityType
  <1>3. rest \cap batch = batch /\ rest \ batch = dsl.nodes \ (pushed \cup batch)
    OBVIOUS
  <1>4. Cardinality(rest \ batch) = Cardinality(rest) - Cardinality(batch)
    BY <1>1, <1>3, FS_Difference
  <1>5. Len(q) = Cardinality(batch) /\ q \in Seq(batch)
    BY <1>1, OrdersLength
  <1>6. q \in Seq(dsl.nodes)
    BY <1>5
  <1>7. Cardinality(rest \ batch) + Len(q) = Cardinality(rest)
    BY <1>2, <1>4, <1>5
  <1> QED  BY <1>2, <1>3, <1>5, <1>6, <1>7

LEMMA TailLength ==
    ASSUME NEW N, NEW q \in Seq(N), q # << >>
    PROVE  Len(Tail(q)) = Len(q) - 1 /\ Len(q) \in Nat /\ Tail(q) \in Seq(N)
PROOF  OBVIOUS

LEMMA OpenFuel ==
    ASSUME TypeOK, NEW c, NEW s, NEW resumed \in dsl.nodes \cup {None}, Open(c, s, resumed)
    PROVE  \E r : run' = [run EXCEPT ![c] = r] /\ Fuel(r) = Cardinality(dsl.nodes)
PROOF
  <1> DEFINE u     == [s EXCEPT !.waiting = None, !.node[target] = "pending"]
             batch == IF resumed # None THEN {resumed}
                      ELSE {n \in Missing(u) : IsReadyToRun(n, Seed(u))}
  <1>1. PICK q \in Orders(batch) :
           run' = [run EXCEPT ![c] =
                     [s |-> u, queue |-> q, pushed |-> batch, arrived |-> Seed(u),
                      resumed |-> resumed, returned |-> FALSE]]
    BY Zenon DEF Open
  <1>2. batch \subseteq dsl.nodes \ {}
    BY DEF IsReadyToRun
  <1>3. {} \cup batch = batch /\ dsl.nodes \ {} = dsl.nodes
    OBVIOUS
  <1> DEFINE r == [s |-> u, queue |-> q, pushed |-> batch, arrived |-> Seed(u),
                   resumed |-> resumed, returned |-> FALSE]
  <1>4. r.queue = q /\ r.pushed = batch
    OBVIOUS
  <1> HIDE DEF batch
  <1>5. Cardinality(dsl.nodes \ batch) + Len(q) = Cardinality(dsl.nodes)
    BY <1>2, <1>3, BatchIsPaid
  <1>6. Fuel(r) = Cardinality(dsl.nodes)
    BY <1>4, <1>5 DEF Fuel
  <1> QED  BY <1>1, <1>6

\* A turn takes one node out of the queue, whatever else it does.
Spent(old, new) ==
    Fuel(new) = Fuel(old) - 1 \/ (Fuel(new) = Fuel(old) /\ new.returned = TRUE)

LEMMA TurnSpends ==
    ASSUME IInv, NEW c \in Clients, Turn(c), ~ Save(c)
    PROVE  \E r : run' = [run EXCEPT ![c] = r] /\ Spent(run[c], r)
PROOF
  <1>1. TypeOK /\ run[c] \in Call
    BY DEF IInv, TypeOK, Turn, Skip, AskForInput, Fail, Succeed, Branch, RunDry, HasTurn,
           Running, Idle
  <1>2. CASE RunDry(c)
    <2>1. run[c].s \in Session
      BY <1>1 DEF Call
    <2> DEFINE r == [run[c] EXCEPT !.s.status = "ready", !.returned = TRUE]
    <2>2. r.queue = run[c].queue /\ r.pushed = run[c].pushed /\ r.returned = TRUE
      BY <1>1 DEF Call
    <2> QED  BY <1>2, <2>2 DEF RunDry, Fuel, Spent
  <1>3. ASSUME HasTurn(c)
        PROVE  /\ Len(Tail(run[c].queue)) = Len(run[c].queue) - 1
               /\ Len(run[c].queue) \in Nat /\ Tail(run[c].queue) \in Seq(dsl.nodes)
               /\ Cardinality(dsl.nodes \ run[c].pushed) \in Nat
    <2>1. run[c].queue \in Seq(dsl.nodes) /\ run[c].queue # << >>
      BY <1>3, TurnFacts
    <2>2. /\ Len(Tail(run[c].queue)) = Len(run[c].queue) - 1
          /\ Len(run[c].queue) \in Nat /\ Tail(run[c].queue) \in Seq(dsl.nodes)
      BY <2>1, TailLength
    <2>3. IsFiniteSet(dsl.nodes \ run[c].pushed)
      BY <1>1, GraphFacts, FS_Subset
    <2> QED  BY <2>2, <2>3, FS_CardinalityType
  <1>4. ASSUME HasTurn(c), NEW r, run' = [run EXCEPT ![c] = r],
               r.queue = Tail(run[c].queue), r.pushed = run[c].pushed
        PROVE  \E x : run' = [run EXCEPT ![c] = x] /\ Fuel(x) = Fuel(run[c]) - 1
    <2>1. Fuel(r) = Fuel(run[c]) - 1
      BY <1>3, <1>4 DEF Fuel
    <2> QED  BY <1>4, <2>1
  <1>5. CASE Skip(c)
    <2>1. HasTurn(c) /\ run' = [run EXCEPT ![c] = Pop(c)]
      BY <1>5 DEF Skip
    <2>2. Pop(c).queue = Tail(run[c].queue) /\ Pop(c).pushed = run[c].pushed
      BY <1>1 DEF Pop, Call
    <2> QED  BY <1>4, <2>1, <2>2 DEF Spent
  <1>6. ASSUME HasTurn(c), NEW x, NEW y, NEW z, Return(c, x, y, z)
        PROVE  \E r : run' = [run EXCEPT ![c] = r] /\ Fuel(r) = Fuel(run[c]) - 1
    <2> DEFINE r == [Pop(c) EXCEPT !.s = [@ EXCEPT !.node[Current(c)] = x,
                                                   !.status = y, !.waiting = z],
                                   !.returned = TRUE]
    <2>1. run' = [run EXCEPT ![c] = r]
      BY <1>6 DEF Return
    <2>2. r.queue = Tail(run[c].queue) /\ r.pushed = run[c].pushed
      BY <1>1 DEF Pop, Call
    <2> HIDE DEF r
    <2> QED  BY <1>4, <1>6, <2>1, <2>2
  <1>7. ASSUME HasTurn(c), NEW edges, NEW s, Forward(c, edges, s)
        PROVE  \E r : run' = [run EXCEPT ![c] = r] /\ Fuel(r) = Fuel(run[c]) - 1
    <2> DEFINE reached == {e \in edges : e.target \in Required}
               arr == [t \in Id |-> run[c].arrived[t]
                         \cup {e.source : e \in {x \in reached : x.target = t}}]
               batch == {t \in {e.target : e \in reached} \ run[c].pushed :
                            IsReadyToRun(t, arr)}
               u == [s EXCEPT !.node[Current(c)] = "succeeded"]
    <2>1. PICK q \in Orders(batch) :
             run' = [run EXCEPT ![c] = [Pop(c) EXCEPT !.s = u, !.queue = @ \o q,
                                                      !.pushed = @ \cup batch,
                                                      !.arrived = arr]]
      BY <1>7, Zenon DEF Forward
    <2>2. batch \subseteq dsl.nodes \ run[c].pushed
      BY DEF IsReadyToRun
    <2> DEFINE r == [Pop(c) EXCEPT !.s = u, !.queue = @ \o q, !.pushed = @ \cup batch,
                                   !.arrived = arr]
    <2> HIDE DEF batch, arr, u
    <2>3. /\ r.queue = Tail(run[c].queue) \o q
          /\ r.pushed = run[c].pushed \cup batch
      BY <1>1 DEF Pop, Call
    <2>4. /\ Cardinality(dsl.nodes \ (run[c].pushed \cup batch)) + Len(q)
                = Cardinality(dsl.nodes \ run[c].pushed)
          /\ Len(q) \in Nat /\ q \in Seq(dsl.nodes)
      BY <1>1, <2>2, BatchIsPaid
    <2>5. Len(Tail(run[c].queue) \o q) = Len(run[c].queue) - 1 + Len(q)
      BY <1>3, <1>7, <2>4
    <2>6. Cardinality(dsl.nodes \ (run[c].pushed \cup batch)) \in Int
      <3>1. IsFiniteSet(dsl.nodes \ (run[c].pushed \cup batch))
        BY <1>1, GraphFacts, FS_Subset
      <3> QED  BY <3>1, FS_CardinalityType
    <2>7. Fuel(r) = Fuel(run[c]) - 1
      <3>1. /\ Fuel(r) = Cardinality(dsl.nodes \ (run[c].pushed \cup batch))
                            + (Len(run[c].queue) - 1 + Len(q))
            /\ Len(run[c].queue) \in Nat
        BY <1>3, <1>7, <2>3, <2>5 DEF Fuel
      <3>2. Fuel(run[c]) = Cardinality(dsl.nodes \ run[c].pushed) + Len(run[c].queue)
        BY DEF Fuel
      <3> QED  BY <2>4, <2>6, <3>1, <3>2
    <2> QED  BY <2>1, <2>7
  <1>8. CASE AskForInput(c) \/ Fail(c)
    BY <1>6, <1>8 DEF AskForInput, Fail, Spent
  <1>9. CASE Succeed(c)
    BY <1>6, <1>7, <1>9 DEF Succeed, Spent
  <1>10. CASE Branch(c)
    BY <1>7, <1>10 DEF Branch, Spent
  <1> QED  BY <1>2, <1>5, <1>8, <1>9, <1>10 DEF Turn

LEMMA RequestFills ==
    ASSUME IInv, NEW c \in Clients, Request(c)
    PROVE  \E r : run' = [run EXCEPT ![c] = r] /\ Fuel(r) = Cardinality(dsl.nodes)
PROOF
  <1>1. TypeOK
    BY DEF IInv
  <1>2. \E s : \E resumed \in dsl.nodes \cup {None} : Open(c, s, resumed)
    <2>1. CASE Continue(c)
      BY <2>1 DEF Continue, IInv, StoredFits, Coherent
    <2>2. CASE Start(c) \/ Rerun(c) \/ Rebuild(c)
      BY <2>2 DEF Start, Rerun, Rebuild
    <2> QED  BY <2>1, <2>2 DEF Request
  <1> QED  BY <1>1, <1>2, OpenFuel

LEMMA StepSpends ==
    ASSUME IInv, FuelBounded, [Next]_debugVars
    PROVE  FuelBounded' /\ Spends
PROOF
  <1>1. run \in [Clients -> Call \cup {None}] /\ dsl' = dsl
    BY DEF IInv, TypeOK, Next, Request, Start, Continue, Rerun, Rebuild, Turn, Skip, AskForInput,
           Fail, Succeed, Branch, RunDry, Save, debugVars
  <1>2. \A c \in Clients : Fuel(run[c])' = Fuel(run'[c])
    BY <1>1 DEF Fuel
  <1>3. \A c \in Clients : ~ Idle(c) => Fuel(run[c]) \in Int
    <2> SUFFICES ASSUME NEW c \in Clients, ~ Idle(c) PROVE Fuel(run[c]) \in Int
      OBVIOUS
    <2>1. IsFiniteSet(dsl.nodes \ run[c].pushed) /\ run[c].queue \in Seq(dsl.nodes)
      BY <1>1, GraphFacts, FS_Subset DEF IInv, Idle, Call
    <2>2. Cardinality(dsl.nodes \ run[c].pushed) \in Nat /\ Len(run[c].queue) \in Nat
      BY <2>1, FS_CardinalityType
    <2> QED  BY <2>2 DEF Fuel
  <1>4. Cardinality(dsl.nodes) \in Nat
    BY GraphFacts, FS_CardinalityType DEF IInv
  <1>5. ASSUME NEW c \in Clients, NEW r, run' = [run EXCEPT ![c] = r],
               r # None => Fuel(r) <= Cardinality(dsl.nodes)
        PROVE  FuelBounded'
    <2>1. \A d \in Clients : run'[d] = IF d = c THEN r ELSE run[d]
      BY <1>1, <1>5
    <2> QED  BY <1>1, <1>2, <1>5, <2>1 DEF FuelBounded, Idle
  <1>6. ASSUME NEW c \in Clients, Request(c)
        PROVE  FuelBounded' /\ Spends
    <2>1. PICK r : run' = [run EXCEPT ![c] = r] /\ Fuel(r) = Cardinality(dsl.nodes)
      BY <1>6, RequestFills
    <2>2. Idle(c)
      BY <1>6 DEF Request, Start, Continue, Rerun, Rebuild
    <2>3. Fuel(r) <= Cardinality(dsl.nodes)
      BY <1>4, <2>1
    <2>4. FuelBounded'
      BY <1>5, <2>1, <2>3, Zenon
    <2>5. \A d \in Clients \ {c} : run'[d] = run[d]
      BY <1>1, <2>1
    <2> QED  BY <2>2, <2>4, <2>5 DEF Spends, Running
  <1>7. ASSUME NEW c \in Clients, Turn(c), ~ Save(c)
        PROVE  FuelBounded' /\ Spends
    <2>1. PICK r : run' = [run EXCEPT ![c] = r] /\ Spent(run[c], r)
      BY <1>7, TurnSpends
    <2>2. ~ Idle(c)
      BY <1>7 DEF Turn, Skip, AskForInput, Fail, Succeed, Branch, RunDry, HasTurn, Running
    <2>3. Fuel(r) <= Cardinality(dsl.nodes)
      BY <1>3, <1>4, <2>1, <2>2 DEF FuelBounded, Spent
    <2>4. \A d \in Clients : run'[d] = IF d = c THEN r ELSE run[d]
      BY <1>1, <2>1
    <2>5. Spends
      BY <1>2, <2>1, <2>4 DEF Spends, Spent
    <2> QED  BY <1>5, <2>1, <2>3, <2>5
  <1>8. ASSUME NEW c \in Clients, Save(c)
        PROVE  FuelBounded' /\ Spends
    <2>1. run' = [run EXCEPT ![c] = None] /\ run[c].returned
      BY <1>8 DEF Save
    <2> QED  BY <1>1, <1>5, <2>1 DEF Spends, Running
  <1>9. CASE UNCHANGED debugVars
    <2>1. run' = run
      BY <1>9 DEF debugVars
    <2> QED  BY <1>1, <1>2, <2>1 DEF FuelBounded, Spends, Idle
  <1> QED  BY <1>6, <1>7, <1>8, <1>9 DEF Next

\* Every turn of a debug run, rerun or continue uses up one of at most as many
\* turns as the definition has nodes, loops or not: the maxSteps guard of
\* runDebugSession, which the model leaves out, cannot fire (debug.go).
THEOREM TurnsAreFew == Spec => []FuelBounded /\ [][Spends]_debugVars
PROOF
  <1>1. Init => FuelBounded
    BY DEF Init, FuelBounded, Idle
  <1>2. IInv /\ FuelBounded /\ [Next]_debugVars => FuelBounded' /\ [Spends]_debugVars
    BY StepSpends
  <1> QED  BY <1>1, <1>2, Inductive, PTL DEF Spec

=============================================================================
