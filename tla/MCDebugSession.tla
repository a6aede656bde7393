---------------------------- MODULE MCDebugSession ----------------------------
(***************************************************************************)
(* DebugSession with every node of nine small definitions as the target.   *)
(***************************************************************************)
EXTENDS DebugSession, TLC

MCId == {"s", "a", "b", "c", "d", "e"}
MCHandle == {"", "b0", "else"}

\* A definition from the kinds of its nodes, the nodes that run on the first
\* arrival, and its edges <<source, handle, target>>.
Drawn(kind, any, edges) ==
    [nodes |-> DOMAIN kind,
     start |-> "s",
     kind  |-> [n \in MCId |-> IF n \in DOMAIN kind THEN kind[n] ELSE "task"],
     join  |-> [n \in MCId |-> IF n \in any THEN "any" ELSE "default"],
     retry |-> [n \in MCId |-> 0],
     edges |-> {[no |-> i, source |-> edges[i][1], handle |-> edges[i][2],
                 target |-> edges[i][3]] : i \in DOMAIN edges}]

\* A branch or a fan-out to a task and an input, and a join of the two that
\* waits for both or for either.
Diamond(fork, any) ==
    Drawn("s" :> "start" @@ "a" :> fork @@ "b" :> "task" @@ "c" :> "input" @@ "d" :> "end",
          any,
          << <<"s", "", "a">>, <<"a", "b0", "b">>, <<"a", "else", "c">>,
             <<"b", "", "d">>, <<"c", "", "d">> >>)

\* A node that runs on the first of two arrivals, the second being late.
LateArrival ==
    Drawn("s" :> "start" @@ "a" :> "task" @@ "b" :> "task" @@ "c" :> "task"
              @@ "d" :> "end" @@ "e" :> "task",
          {"b"},
          << <<"s", "", "a">>, <<"s", "", "c">>, <<"c", "", "e">>,
             <<"a", "", "b">>, <<"e", "", "b">>, <<"b", "", "d">> >>)

\* Two inputs before a join: a continue answers one and loses the other.
TwoInputs ==
    Drawn("s" :> "start" @@ "a" :> "input" @@ "b" :> "input" @@ "d" :> "end", {},
          << <<"s", "", "a">>, <<"s", "", "b">>, <<"a", "", "d">>, <<"b", "", "d">> >>)

\* A branch with an answer that no edge carries.
HalfDrawn ==
    Drawn("s" :> "start" @@ "a" :> "if-else" @@ "b" :> "task" @@ "d" :> "end", {},
          << <<"s", "", "a">>, <<"a", "b0", "b">>, <<"b", "", "d">> >>)

\* A loop back that a branch closes or leaves.
Loop ==
    Drawn("s" :> "start" @@ "a" :> "task" @@ "b" :> "if-else" @@ "d" :> "end", {"a"},
          << <<"s", "", "a">>, <<"a", "", "b">>, <<"b", "b0", "a">>, <<"b", "else", "d">> >>)

\* A loop from a branch back to itself.
LoopToBranch ==
    Drawn("s" :> "start" @@ "a" :> "if-else" @@ "b" :> "task" @@ "d" :> "end", {"a"},
          << <<"s", "", "a">>, <<"a", "b0", "b">>, <<"b", "", "a">>, <<"a", "else", "d">> >>)

MCGraphs ==
    {Diamond(fork, any) : fork \in {"task", "if-else"}, any \in {{}, {"d"}}}
        \cup {LateArrival, TwoInputs, HalfDrawn, Loop, LoopToBranch}

MCSymmetry == Permutations(Clients)

=============================================================================
