---------------------------- MODULE MCWorkflowRun ----------------------------
(***************************************************************************)
(* WorkflowRun on eight definitions, one for each shape the engine treats  *)
(* differently, and on every definition of two small families.             *)
(***************************************************************************)
EXTENDS WorkflowRun, TLC

MCId == {"s", "a", "b", "c", "d", "e"}
MCHandle == {"", "b0", "else", "other"}

\* A definition from the kinds of its nodes, what differs from the default
\* join policy, the retries, and its edges <<source, handle, target>>.
Definition(kind, join, retry, edges) ==
    [nodes |-> DOMAIN kind,
     start |-> "s",
     kind  |-> [n \in MCId |-> IF n \in DOMAIN kind THEN kind[n] ELSE "task"],
     join  |-> [n \in MCId |-> IF n \in DOMAIN join THEN join[n] ELSE "default"],
     retry |-> [n \in MCId |-> IF n \in DOMAIN retry THEN retry[n] ELSE 0],
     edges |-> {[no |-> i, source |-> edges[i][1], handle |-> edges[i][2],
                 target |-> edges[i][3]] : i \in DOMAIN edges}]

NoException == [n \in {} |-> n]

\* A fan-out with a task and an input before a join of both (the shape of
\* TestRuntime_Resume_ReenqueuePendingNodesUnlockedByHistory).
FanOutJoin ==
    Definition("s" :> "start" @@ "a" :> "task" @@ "b" :> "input" @@ "c" :> "task" @@ "d" :> "end",
               "d" :> "all", NoException,
               << <<"s", "", "a">>, <<"s", "", "b">>, <<"a", "", "c">>,
                  <<"c", "", "d">>, <<"b", "", "d">> >>)

\* Two inputs race to a node that runs on the first arrival; the second one
\* arrives a segment later.
TwoInputsAny ==
    Definition("s" :> "start" @@ "a" :> "input" @@ "b" :> "input" @@ "c" :> "task" @@ "d" :> "end",
               "c" :> "any", NoException,
               << <<"s", "", "a">>, <<"s", "", "b">>, <<"a", "", "c">>,
                  <<"b", "", "c">>, <<"c", "", "d">> >>)

\* Two branches meet again at a node with the default policy: it waits for
\* the branch that was not taken, and is skipped.
BranchJoinDefault ==
    Definition("s" :> "start" @@ "a" :> "if-else" @@ "b" :> "input" @@ "c" :> "task" @@ "d" :> "end",
               NoException, NoException,
               << <<"s", "", "a">>, <<"a", "b0", "b">>, <<"a", "else", "c">>,
                  <<"b", "", "d">>, <<"c", "", "d">> >>)

\* A branch beside an input, so that the branch taken has to survive the pause.
BranchBesideInput ==
    Definition("s" :> "start" @@ "a" :> "if-else" @@ "b" :> "input" @@ "c" :> "task"
                   @@ "d" :> "task" @@ "e" :> "end",
               "e" :> "any", "c" :> 1,
               << <<"s", "", "a">>, <<"s", "", "b">>, <<"a", "b0", "c">>,
                  <<"a", "other", "d">>, <<"b", "", "e">>, <<"c", "", "e">> >>)

\* A loop back to an earlier node, with a join that tolerates it and one that
\* does not, and an input inside the loop.
LoopBack ==
    Definition("s" :> "start" @@ "a" :> "task" @@ "b" :> "input" @@ "c" :> "if-else"
                   @@ "d" :> "task" @@ "e" :> "end",
               "a" :> "any", "a" :> 1,
               << <<"s", "", "a">>, <<"a", "", "b">>, <<"b", "", "c">>,
                  <<"c", "b0", "a">>, <<"c", "else", "d">>, <<"d", "", "d">>,
                  <<"c", "else", "e">> >>)

\* Edges from and to an id that no node declares, and one node that
\* waits for its only source explicitly.
DanglingEdge ==
    Definition("s" :> "start" @@ "a" :> "input" @@ "b" :> "task" @@ "c" :> "end",
               "b" :> "all", NoException,
               << <<"s", "", "a">>, <<"a", "", "b">>, <<"a", "", "c">>,
                  <<"e", "", "c">>, <<"b", "", "e">> >>)

\* A start node that waits for arrivals: nothing is ever executed.
StartWaits ==
    Definition("s" :> "start" @@ "a" :> "task",
               "s" :> "all", NoException,
               << <<"s", "", "a">>, <<"a", "", "s">> >>)

\* A node that no edge leads to, beside an input.
Unreachable ==
    Definition("s" :> "start" @@ "a" :> "input" @@ "b" :> "task" @@ "c" :> "end",
               NoException, NoException,
               << <<"s", "", "a">>, <<"a", "", "c">>, <<"b", "", "c">> >>)

-----------------------------------------------------------------------------
\* Every definition that can be drawn with the edges of a list, the nodes of
\* `free` being of any of three kinds and those of `joining` following either
\* join policy.  Every edge carries a handle, which matters only if its
\* source turns out to be an if-else node.
AllWith(free, joining, edges) ==
    {[nodes |-> {"s"} \cup free,
      start |-> "s",
      kind  |-> [n \in MCId |-> IF n = "s" THEN "start"
                                ELSE IF n \in free THEN k[n] ELSE "task"],
      join  |-> [n \in MCId |-> IF n \in any THEN "any" ELSE "default"],
      retry |-> [n \in MCId |-> 0],
      edges |-> {[no |-> i, source |-> edges[i][1], handle |-> edges[i][2],
                  target |-> edges[i][3]] : i \in drawn}]
     : k \in [free -> {"task", "input", "if-else"}],
       any \in SUBSET joining,
       drawn \in SUBSET (DOMAIN edges)}

\* Three nodes, cycles included.
SmallCyclic ==
    AllWith({"a", "b"}, {"a", "b"},
            << <<"s", "", "a">>, <<"s", "", "b">>, <<"a", "b0", "b">>,
               <<"b", "b0", "a">>, <<"b", "else", "s">>, <<"a", "else", "a">> >>)

\* Four nodes, forward edges only.
SmallAcyclic ==
    AllWith({"a", "b", "c"}, {"b", "c"},
            << <<"s", "", "a">>, <<"s", "", "b">>, <<"a", "b0", "b">>,
               <<"a", "else", "c">>, <<"b", "b0", "c">>, <<"s", "", "c">> >>)

MCGraphs ==
    {FanOutJoin, TwoInputsAny, BranchJoinDefault, BranchBesideInput, LoopBack,
     DanglingEdge, StartWaits, Unreachable}
        \cup SmallCyclic \cup SmallAcyclic

OnlyUnreachable == {Unreachable}

=============================================================================
