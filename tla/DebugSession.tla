----------------------------- MODULE DebugSession -----------------------------
(***************************************************************************)
(* Debug sessions: workflowruntime/debug.go over the in-memory store of    *)
(* debug_store.go.  A session runs one target node of a definition, with   *)
(* what the target depends on (or alone, mode node_only), and remembers    *)
(* which nodes have succeeded: a rerun starts from there, a rebuild        *)
(* forgets it.  Every request works on a copy of the session and saves the *)
(* whole of it when its run returns; the store's lock covers each Get and  *)
(* Save, not the run between them, so requests overlap and the last save   *)
(* wins.                                                                   *)
(*                                                                         *)
(* One session.  Abstracted: variables, outputs and writebacks (of an      *)
(* if-else node's output the handle is kept: a rerun reads it), the order  *)
(* of a fan-out and of the plan (free, as in WorkflowRun).  A node is      *)
(* pushed at most once per run, so maxSteps is never reached (proved as    *)
(* TurnsAreFew), and the handlers' contexts are never cancelled: neither   *)
(* check is a step here.                                                   *)
(* ExecuteDebugNodeOnce keeps no state and is left out.                    *)
(***************************************************************************)
EXTENDS WorkflowGraph, Sequences

CONSTANTS Clients,   \* requests in flight
          None       \* no node, no request, no session

ClientsAssumption == None \notin Id
ASSUME ClientsAssumption

VARIABLES
    dsl,      \* WorkflowDSL
    target,   \* TargetNodeID
    mode,
    stored,   \* the session in the store
    run       \* per client: the call of runDebugSession it is in

debugVars == <<dsl, target, mode, stored, run>>

DebugStatus == {"ready", "waiting_input", "failed", "target_succeeded"}

Session == [status : DebugStatus,
            node : [Id -> {"pending", "waiting_input", "succeeded", "failed"}],
            branch : [Id -> Handle],          \* the handle in Variables[n]
            waiting : Id \cup {None}]         \* WaitingInput.NodeID

\* A call of runDebugSession.
Call == [s : Session,                       \* the copy it works on
         queue : Seq(dsl.nodes),
         pushed : SUBSET dsl.nodes,
         arrived : [Id -> SUBSET Id],       \* arrivedSources
         resumed : Id \cup {None},          \* ResumedNodeID
         returned : BOOLEAN]

SucceededIn(s) == {n \in dsl.nodes : s.node[n] = "succeeded"}

-----------------------------------------------------------------------------
\* collectDebugRequiredNodes: node t and, edge by edge, what leads to it.
UpstreamOf(g, t) ==
    LET within[i \in Nat] ==
          IF i = 0 THEN {t}
          ELSE LET near == within[i - 1]
               IN  near \cup UNION {Sources(g, n) : n \in near}
    IN  within[Cardinality(Id)]

Required == IF mode = "node_only" THEN {target} ELSE UpstreamOf(dsl, target)

\* Mutant: the history credits an if-else node with all of its edges.
InferBranchAll(s, n) ==
    IF dsl.kind[n] # "if-else" \/ s.branch[n] = NoHandle THEN {} ELSE Out(dsl, n)

\* inferDebugBranchHandle and the edges it selects: an answer that no edge
\* carries is not recognised, although the run that got it took an edge.
InferBranch(s, n) ==
    {e \in Out(dsl, n) : s.branch[n] # NoHandle /\ e.handle = s.branch[n]}

Credited(s, n) == IF dsl.kind[n] = "if-else" THEN InferBranch(s, n) ELSE Out(dsl, n)

\* seedArrivedFromStates.
Seed(s) ==
    [t \in Id |-> {n \in SucceededIn(s) \cap Required :
                     t \in Required /\ \E e \in Credited(s, n) : e.target = t}]

IsReadyToRun(n, arrived) ==
    n \in dsl.nodes /\ (Sources(dsl, n) = {} \/ JoinSatisfied(dsl, n, arrived[n]))

Orders(S) ==
    {s \in [1 .. Cardinality(S) -> S] : \A x \in S : \E i \in DOMAIN s : s[i] = x}

\* Mutant: a rerun leaves the nodes alone that failed.
MissingPending(s) == {n \in Required : s.node[n] = "pending"}

\* What a start or rerun has to run.
Missing(s) == {n \in Required : s.node[n] # "succeeded"}

Fresh == [status |-> "ready", node |-> [n \in Id |-> "pending"],
          branch |-> [n \in Id |-> NoHandle], waiting |-> None]

-----------------------------------------------------------------------------
\* The head of runDebugSession on a copy s of the session: WaitingInput is
\* cleared, the target is to run again, and either the node that waited or
\* everything that is missing and ready is queued.
Open(c, s, resumed) ==
    LET s0    == [s EXCEPT !.waiting = None, !.node[target] = "pending"]
        batch == IF resumed # None THEN {resumed}
                 ELSE {n \in Missing(s0) : IsReadyToRun(n, Seed(s0))}
    IN  \E q \in Orders(batch) :
           run' = [run EXCEPT ![c] =
                     [s |-> s0, queue |-> q, pushed |-> batch, arrived |-> Seed(s0),
                      resumed |-> resumed, returned |-> FALSE]]

Idle(c) == run[c] = None

\* buildDebugSession; the session's id is not known before it is saved.
Start(c) ==
    /\ Idle(c)
    /\ stored = None /\ \A d \in Clients : Idle(d)
    /\ Open(c, Fresh, None)
    /\ UNCHANGED <<dsl, target, mode, stored>>

\* ContinueDebugSession for the node the session waits for, with valid input.
Continue(c) ==
    /\ Idle(c)
    /\ stored # None
    /\ stored.status = "waiting_input" /\ stored.waiting # None
    /\ Open(c, stored, stored.waiting)
    /\ UNCHANGED <<dsl, target, mode, stored>>

\* RerunDebugTarget.
Rerun(c) ==
    /\ Idle(c)
    /\ stored # None
    /\ stored.waiting = None
    /\ Open(c, stored, None)
    /\ UNCHANGED <<dsl, target, mode, stored>>

\* RebuildDebugSession: anew, whatever the session's status.
Rebuild(c) ==
    /\ Idle(c)
    /\ stored # None
    /\ Open(c, Fresh, None)
    /\ UNCHANGED <<dsl, target, mode, stored>>

-----------------------------------------------------------------------------
Running(c) == ~ Idle(c) /\ ~ run[c].returned

\* The node of this turn, unless it is skipped: all but the target run once.
Current(c) == Head(run[c].queue)

HasTurn(c) == Running(c) /\ run[c].queue # << >>

Skipped(c) == Current(c) # target /\ run[c].s.node[Current(c)] = "succeeded"

Pop(c) == [run[c] EXCEPT !.queue = Tail(@)]

\* The node's new state ends the run, with this status.
Return(c, nodeStatus, sessionStatus, waiting) ==
    run' = [run EXCEPT ![c] =
              [Pop(c) EXCEPT !.s = [@ EXCEPT !.node[Current(c)] = nodeStatus,
                                             !.status = sessionStatus,
                                             !.waiting = waiting],
                             !.returned = TRUE]]

\* Success: mark the arrivals at required nodes and queue what they unlock.
Forward(c, edges, s) ==
    LET reached == {e \in edges : e.target \in Required}
        arr == [t \in Id |-> run[c].arrived[t]
                               \cup {e.source : e \in {x \in reached : x.target = t}}]
        batch == {t \in {e.target : e \in reached} \ run[c].pushed : IsReadyToRun(t, arr)}
    IN  \E q \in Orders(batch) :
           run' = [run EXCEPT ![c] =
                     [Pop(c) EXCEPT !.s = [s EXCEPT !.node[Current(c)] = "succeeded"],
                                    !.queue = @ \o q,
                                    !.pushed = @ \cup batch,
                                    !.arrived = arr]]

Skip(c) ==
    /\ HasTurn(c) /\ Skipped(c)
    /\ run' = [run EXCEPT ![c] = Pop(c)]
    /\ UNCHANGED <<dsl, target, mode, stored>>

Answered(c) == dsl.kind[Current(c)] = "input" /\ run[c].resumed = Current(c)

AskForInput(c) ==
    /\ HasTurn(c) /\ ~ Skipped(c)
    /\ dsl.kind[Current(c)] = "input" /\ ~ Answered(c)
    /\ Return(c, "waiting_input", "waiting_input", Current(c))
    /\ UNCHANGED <<dsl, target, mode, stored>>

Fail(c) ==
    /\ HasTurn(c) /\ ~ Skipped(c)
    /\ dsl.kind[Current(c)] = "task" \/ Answered(c)
    /\ Return(c, "failed", "failed", None)
    /\ UNCHANGED <<dsl, target, mode, stored>>

\* The target's success ends the run; an if-else target's does not.
Succeed(c) ==
    /\ HasTurn(c) /\ ~ Skipped(c)
    /\ dsl.kind[Current(c)] \in {"start", "task", "end"} \/ Answered(c)
    /\ IF Current(c) = target
       THEN Return(c, "succeeded", "target_succeeded", None)
       ELSE Forward(c, Out(dsl, Current(c)), run[c].s)
    /\ UNCHANGED <<dsl, target, mode, stored>>

Branch(c) ==
    /\ HasTurn(c) /\ ~ Skipped(c)
    /\ dsl.kind[Current(c)] = "if-else"
    /\ \E h \in Handle \ {NoHandle} :
          Forward(c, SelectIfElseNextEdges(Out(dsl, Current(c)), h),
                  [run[c].s EXCEPT !.branch[Current(c)] = h])
    /\ UNCHANGED <<dsl, target, mode, stored>>

\* The queue is empty: the target could not run yet.
RunDry(c) ==
    /\ Running(c)
    /\ run[c].queue = << >>
    /\ run' = [run EXCEPT ![c].s.status = "ready", ![c].returned = TRUE]
    /\ UNCHANGED <<dsl, target, mode, stored>>

\* store.Save: the whole session, whatever was saved since it was read.
Save(c) ==
    /\ ~ Idle(c) /\ run[c].returned
    /\ stored' = run[c].s
    /\ run' = [run EXCEPT ![c] = None]
    /\ UNCHANGED <<dsl, target, mode>>

Init ==
    /\ dsl \in Graphs
    /\ target \in dsl.nodes
    /\ mode \in {"dependency_chain", "node_only"}
    /\ stored = None
    /\ run = [c \in Clients |-> None]

Request(c) == Start(c) \/ Continue(c) \/ Rerun(c) \/ Rebuild(c)

Turn(c) ==
    \/ Skip(c) \/ AskForInput(c) \/ Fail(c) \/ Succeed(c) \/ Branch(c)
    \/ RunDry(c) \/ Save(c)

Next == \E c \in Clients : Request(c) \/ Turn(c)

Spec == Init /\ [][Next]_debugVars

-----------------------------------------------------------------------------
(* Properties. *)

\* Every variable keeps its type.
TypeOK ==
    /\ WellFormed(dsl)
    /\ target \in dsl.nodes
    /\ mode \in {"dependency_chain", "node_only"}
    /\ stored \in Session \cup {None}
    /\ run \in [Clients -> Call \cup {None}]

Touched(s) == {n \in dsl.nodes : s.node[n] # "pending"}

\* The sources whose success reached n.  For the target any edge will do: what
\* it answered earlier is forgotten when it is run again (resetDebugTargetState),
\* and what that answer led to, in a loop back to it, is kept.
Led(s, n) ==
    ArrivalsFrom(dsl, SucceededIn(s) \ {target}, s.branch)[n]
        \cup {e.source : e \in {x \in Out(dsl, target) :
                                  x.target = n /\ s.branch[target] # NoHandle}}

Justified(s, n) == Sources(dsl, n) = {} \/ JoinSatisfied(dsl, n, Led(s, n))

\* No node but the target's ancestors leaves pending, and none does before its
\* join policy was satisfied: what reruns reuse is a run that could have been.
Explained(s) == \A n \in Touched(s) : n \in Required /\ Justified(s, n)

\* Requests on one session overlap, each computing for as long as its nodes
\* take and then saving the whole session over what another one saved since:
\* the session in the store is nevertheless one that a single run left behind.
\* It waits exactly when it says so and for the node that asked, a target that
\* it claims to have found has succeeded (not the other way round: an if-else
\* target leaves the session ready), and every node it counts as executed is
\* explained by the others (debug.go, debug_store.go).
StoredIsOneRun ==
    stored # None =>
        /\ Explained(stored)
        /\ (stored.status = "waiting_input") <=> (stored.waiting # None)
        /\ stored.waiting # None => stored.node[stored.waiting] = "waiting_input"
        /\ stored.status = "target_succeeded" => stored.node[target] = "succeeded"

\* The sources whose success reached n, over the edges that were really taken.
Reached(s, n) == ArrivalsFrom(dsl, SucceededIn(s), s.branch)[n]

\* The branches whose answer no edge carries: a later run does not see them.
Forgotten(s) ==
    {n \in SucceededIn(s) : dsl.kind[n] = "if-else" /\ InferBranch(s, n) = {}}

\* A start, rerun or rebuild that ends without its target and without a
\* failure or question has nothing left to do: no required node that its join
\* policy allows is still to run, unless it hangs on a branch whose answer no
\* edge carries (inferDebugBranchHandle, debug.go:572).  A continue makes no
\* such promise: it queues the answered node alone (debug.go:397).
NothingLeftReady ==
    \A c \in Clients :
        (/\ ~ Idle(c)
         /\ run[c].returned
         /\ run[c].resumed = None
         /\ run[c].s.status = "ready"
         /\ Forgotten(run[c].s) = {})
        => \A n \in Required \cap dsl.nodes :
              run[c].s.node[n] # "succeeded" =>
                 /\ Sources(dsl, n) # {}
                 /\ ~ JoinSatisfied(dsl, n, Reached(run[c].s, n) \cap Required)

=============================================================================
