---------------------------- MODULE WorkflowGraph ----------------------------
(***************************************************************************)
(* A workflow definition as the engine sees it (workflowruntime/dsl.go)    *)
(* and the questions runtime.go asks of it.  A definition g is a record    *)
(*   nodes   the node ids it declares                                      *)
(*   start   what getStartNodeID returns                                   *)
(*   kind    the node's type, up to what executors can answer: "task"      *)
(*           stands for code, llm, http-request, api-request, iteration    *)
(*   join    what the node's config says of joinMode/joinAll               *)
(*   retry   parseNodeRetryCount of the node                               *)
(*   edges   records [no, source, handle, target]; no is the position in   *)
(*           the DSL's list                                                *)
(* An edge may name an id that no node declares: ParseWorkflowDSL checks   *)
(* neither that nor reachability.                                          *)
(***************************************************************************)
EXTENDS Integers, FiniteSets

CONSTANTS Id,        \* node ids an edge may name
          Handle,    \* source handles of edges and of if-else answers
          NoHandle,  \* the blank handle: an edge without one, no answer yet
          Graphs     \* the definitions executions run

Kind == {"start", "task", "input", "if-else", "end"}

JoinConfig == {"any", "all", "default"}

Edge == [no : Nat, source : Id, handle : Handle, target : Id]

Graph == [nodes : SUBSET Id, start : Id, kind : [Id -> Kind],
          join : [Id -> JoinConfig], retry : [Id -> Nat], edges : SUBSET Edge]

WellFormed(g) == g \in Graph /\ g.start \in g.nodes

GraphsAssumption ==
    /\ IsFiniteSet(Id)
    /\ NoHandle \in Handle
    /\ \A g \in Graphs : WellFormed(g)

ASSUME GraphsAssumption

-----------------------------------------------------------------------------
\* incomingSourcesMap[n]: the distinct sources, declared or not.
Sources(g, n) == {e.source : e \in {x \in g.edges : x.target = n}}

Out(g, n) == {e \in g.edges : e.source = n}

\* Without a matching handle the first edge of the list is taken.
SelectIfElseNextEdges(edges, handle) ==
    LET matched == {e \in edges : e.handle = handle}
    IN  IF matched # {} THEN matched
        ELSE {e \in edges : \A f \in edges : e.no <= f.no}

ShouldWaitAllIncoming(g, n) ==
    \/ g.join[n] = "all"
    \/ g.join[n] = "default" /\ Cardinality(Sources(g, n)) > 1

\* Mutant: history credits an if-else node with all of its edges.
TakenEdgesAll(g, n, handle) == Out(g, n)

\* The edges a node that has succeeded sends its arrival along.  `handle` is
\* the one its branch event recorded; an if-else node without such an event
\* is credited with no edge.
TakenEdges(g, n, handle) ==
    IF g.kind[n] # "if-else" THEN Out(g, n)
    ELSE IF handle = NoHandle THEN {}
    ELSE SelectIfElseNextEdges(Out(g, n), handle)

\* The arrivals that a set of succeeded nodes and their branch events account
\* for: which sources have reached each node.
ArrivalsFrom(g, succeeded, branch) ==
    [t \in Id |-> {s \in succeeded \cap g.nodes :
                     \E e \in TakenEdges(g, s, branch[s]) : e.target = t}]

\* Has n received what its join policy asks for, when `arrived` are the
\* sources that have reached it?  (The code compares the sizes of the two
\* sets; arrivals are always among the sources.)
JoinSatisfied(g, n, arrived) ==
    IF ShouldWaitAllIncoming(g, n) THEN Sources(g, n) \subseteq arrived
                                   ELSE arrived # {}

=============================================================================
