--------------------------------- MODULE Feed ---------------------------------
(***************************************************************************)
(* What the clients of an execution's live stream are promised, with no    *)
(* hub, no channels and no handlers: a client begins with what is current, *)
(* may miss snapshots but never sees the run go back, sees nothing after   *)
(* an ending, and its stream is closed for no other reason than that, or   *)
(* because the client itself is gone.                                      *)
(***************************************************************************)
EXTENDS Integers

CONSTANTS Clients

VARIABLES
    latest,    \* the number of the run's last snapshot
    stage,     \* how far each client is
    shown      \* what it was shown last

feedVars == <<latest, stage, shown>>

\* A client is shown a snapshot's number in the run, 0 if a cancel published it,
\* and whether the stream ends with it, as it does with a cancel's.
Nothing == [no |-> 0, ending |-> FALSE]

\* What there is to show from number n on.
Views(n) ==
    {v \in [no : {0} \cup (n .. latest), ending : BOOLEAN] : v.no = 0 => v.ending}

Init ==
    /\ latest = 1
    /\ stage = [c \in Clients |-> "new"]
    /\ shown = [c \in Clients |-> Nothing]

Publish ==
    /\ latest' = latest + 1
    /\ UNCHANGED <<stage, shown>>

Connect(c) ==
    /\ stage[c] = "new"
    /\ stage' = [stage EXCEPT ![c] = "open"]
    /\ \E v \in Views(latest) : shown' = [shown EXCEPT ![c] = v]
    /\ UNCHANGED latest

Show(c) ==
    /\ stage[c] = "open"
    /\ ~ shown[c].ending
    /\ \E v \in Views(shown[c].no) : shown' = [shown EXCEPT ![c] = v]
    /\ UNCHANGED <<latest, stage>>

HangUp(c) ==
    /\ stage[c] = "open"
    /\ stage' = [stage EXCEPT ![c] = "broken"]
    /\ UNCHANGED <<latest, shown>>

Close(c) ==
    /\ \/ stage[c] = "open" /\ shown[c].ending
       \/ stage[c] = "broken"
    /\ stage' = [stage EXCEPT ![c] = "closed"]
    /\ UNCHANGED <<latest, shown>>

Next ==
    \/ Publish
    \/ \E c \in Clients : Connect(c) \/ Show(c) \/ HangUp(c) \/ Close(c)

Spec == Init /\ [][Next]_feedVars

===============================================================================
