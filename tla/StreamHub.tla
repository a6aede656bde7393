------------------------------ MODULE StreamHub ------------------------------
(***************************************************************************)
(* The live stream of one execution: executionStreamHub                    *)
(* (workflowruntime/stream.go), what publishExecution does with it, and    *)
(* the server-sent-events connections of handler/workflow_execution.go.    *)
(*                                                                         *)
(* Publish copies the subscribers' channels under the hub's lock and sends *)
(* outside of it, so sends interleave with receives, with the sends of     *)
(* another publisher, and with connections that come and go.  A channel    *)
(* holds one snapshot; a publisher that finds it full throws that snapshot *)
(* away and tries once more.                                               *)
(*                                                                         *)
(* Publishers are the run of the execution (its StartAsync and ResumeAsync *)
(* requests and the goroutines they launch, which follow one another: see  *)
(* ExecutionService) and its cancel requests.  A snapshot is who published *)
(* it, its number, and its kind: "launch" before a segment is launched,    *)
(* "running" within it, "stopping" when a node fails or asks for input,    *)
(* "stopped" when the segment has returned.  Saves succeed here.           *)
(***************************************************************************)
EXTENDS Integers, FiniteSets, Sequences

CONSTANTS
    Connections,    \* clients of the stream
    Run,            \* the publisher that runs the execution
    Cancels,        \* cancel requests
    NoTarget,       \* no channel
    MaxSnapshots,   \* bound: snapshots the run publishes
    MaxHangups,     \* bound: streams that break
    MaxAudience     \* bound: clients of a run that is cancelled

Publishers == {Run} \cup Cancels

Kind == {"launch", "running", "stopping", "stopped"}

Snapshot == [by : Publishers, no : 1 .. MaxSnapshots, kind : Kind]

HubAssumption ==
    /\ IsFiniteSet(Connections)
    /\ Run \notin Cancels
    /\ NoTarget \notin Connections
    /\ MaxSnapshots \in Nat \ {0}
    /\ MaxHangups \in Nat
    /\ MaxAudience \in Nat

ASSUME HubAssumption

\* Which snapshot the run publishes after which: a segment that ends with a
\* node's failure or question says so twice, once from inside the loop and
\* once when it has returned; one that completes says so once.
RunOrder ==
    { <<"launch", "running">>, <<"running", "running">>,
      <<"running", "stopping">>, <<"running", "stopped">>,
      <<"stopping", "stopped">>, <<"stopped", "launch">> }

VARIABLES
    stored,       \* the saved execution
    group,        \* the connections the hub has registered
    chan,         \* the channel of each connection
    closed,       \* the connections whose channel is closed
    pstep,        \* where each publisher stands
    snap,         \* what it publishes, or published last
    left,         \* the channels it copied and has not sent to yet
    target,       \* the one it found full
    cstep,        \* where each connection's handler stands
    seen,         \* the snapshot each client saw last
    hangups,
    addressed,    \* history: the connections the run's last publish went to
    crashed       \* a panic outside of any request ends the process

publishing  == <<pstep, snap, left, target, addressed>>
connections == <<cstep, seen, hangups>>
vars == <<stored, group, chan, closed, publishing, connections, crashed>>

PublisherStep == {"idle", "saved", "sending", "full", "drained", "panicked"}

ConnectionStep == {"new", "read", "subscribed", "loop", "leaving", "gone"}

Ended(x) == x.kind \in {"stopping", "stopped"}

\* A cancel comes while there are few clients, and then few are all that come.
Audience == {c \in Connections : cstep[c] # "new"}
Cancelled == \E q \in Cancels : snap[q].by # Run

First == [by |-> Run, no |-> 1, kind |-> "launch"]

\* StartAsync has published and nobody knew the execution's id yet.
Init ==
    /\ stored = First
    /\ group = {}
    /\ chan = [c \in Connections |-> << >>]
    /\ closed = {}
    /\ pstep = [p \in Publishers |-> "idle"]
    /\ snap = [p \in Publishers |-> First]
    /\ left = [p \in Publishers |-> {}]
    /\ target = [p \in Publishers |-> NoTarget]
    /\ cstep = [c \in Connections |-> "new"]
    /\ seen = [c \in Connections |-> First]
    /\ hangups = 0
    /\ addressed = {}
    /\ crashed = FALSE

-----------------------------------------------------------------------------
(* Publishing. *)

Save(p, x) ==
    /\ ~ crashed
    /\ pstep[p] = "idle"
    /\ stored' = x
    /\ snap' = [snap EXCEPT ![p] = x]
    /\ pstep' = [pstep EXCEPT ![p] = "saved"]
    /\ UNCHANGED <<group, chan, closed, left, target, addressed, connections, crashed>>

RunPublishes ==
    /\ snap[Run].no < MaxSnapshots
    /\ \E k \in Kind :
          /\ <<snap[Run].kind, k>> \in RunOrder
          /\ Save(Run, [by |-> Run, no |-> snap[Run].no + 1, kind |-> k])

\* Cancel publishes once, a copy of what it read with the status cancelled.
CancelPublishes(q) ==
    /\ snap[q].by = Run
    /\ Cardinality(Audience) <= MaxAudience
    /\ Save(q, [by |-> q, no |-> 1, kind |-> "stopped"])

\* Under the read lock.
CopyTargets(p) ==
    /\ ~ crashed
    /\ pstep[p] = "saved"
    /\ addressed' = IF p = Run THEN group ELSE addressed
    /\ left' = [left EXCEPT ![p] = group]
    /\ pstep' = [pstep EXCEPT ![p] = IF group = {} THEN "idle" ELSE "sending"]
    /\ UNCHANGED <<stored, group, chan, closed, snap, target, connections, crashed>>

\* p is done with c.
NextTarget(p, c) ==
    /\ left' = [left EXCEPT ![p] = @ \ {c}]
    /\ target' = [target EXCEPT ![p] = NoTarget]
    /\ pstep' = [pstep EXCEPT ![p] = IF left[p] = {c} THEN "idle" ELSE "sending"]

\* A send on a closed channel panics.  recover.New() catches what happens in a
\* request, which then ends here; in the goroutine of a segment nothing does.
Panic(p) ==
    /\ pstep' = [pstep EXCEPT ![p] = "panicked"]
    /\ crashed' = (p = Run /\ snap[Run].kind # "launch")
    /\ left' = [left EXCEPT ![p] = {}]
    /\ target' = [target EXCEPT ![p] = NoTarget]
    /\ UNCHANGED chan

Send(p, c) ==
    /\ ~ crashed
    /\ pstep[p] = "sending"
    /\ c \in left[p]
    /\ \/ c \in closed /\ Panic(p)
       \/ /\ c \notin closed
          /\ chan[c] = << >>
          /\ chan' = [chan EXCEPT ![c] = <<snap[p]>>]
          /\ NextTarget(p, c)
          /\ UNCHANGED crashed
       \/ /\ c \notin closed
          /\ chan[c] # << >>
          /\ target' = [target EXCEPT ![p] = c]
          /\ pstep' = [pstep EXCEPT ![p] = "full"]
          /\ UNCHANGED <<chan, left, crashed>>
    /\ UNCHANGED <<stored, group, closed, snap, addressed, connections>>

\* Mutant: a full channel keeps what it has.
DrainNothing(p) ==
    /\ ~ crashed
    /\ pstep[p] = "full"
    /\ pstep' = [pstep EXCEPT ![p] = "drained"]
    /\ UNCHANGED <<stored, group, chan, closed, snap, left, target, addressed,
                   connections, crashed>>

\* Takes whatever is there by now, or nothing.
Drain(p) ==
    /\ ~ crashed
    /\ pstep[p] = "full"
    /\ chan' = [chan EXCEPT ![target[p]] = << >>]
    /\ pstep' = [pstep EXCEPT ![p] = "drained"]
    /\ UNCHANGED <<stored, group, closed, snap, left, target, addressed,
                   connections, crashed>>

Resend(p) ==
    /\ ~ crashed
    /\ pstep[p] = "drained"
    /\ \/ target[p] \in closed /\ Panic(p)
       \/ /\ target[p] \notin closed
          /\ chan' = [chan EXCEPT ![target[p]] = IF @ = << >> THEN <<snap[p]>> ELSE @]
          /\ NextTarget(p, target[p])
          /\ UNCHANGED crashed
    /\ UNCHANGED <<stored, group, closed, snap, addressed, connections>>

-----------------------------------------------------------------------------
(* A connection. *)

\* workflowExecutionService.Subscribe reads the execution ...
Read(c) ==
    /\ ~ crashed
    /\ cstep[c] = "new"
    /\ Cancelled => Cardinality(Audience) < MaxAudience
    /\ seen' = [seen EXCEPT ![c] = stored]
    /\ cstep' = [cstep EXCEPT ![c] = "read"]
    /\ UNCHANGED <<stored, group, chan, closed, publishing, hangups, crashed>>

\* ... and then subscribes, under the lock.
Subscribe(c) ==
    /\ ~ crashed
    /\ cstep[c] = "read"
    /\ group' = group \cup {c}
    /\ cstep' = [cstep EXCEPT ![c] = "subscribed"]
    /\ UNCHANGED <<stored, chan, closed, publishing, seen, hangups, crashed>>

\* Mutant: the stream opens with what the store holds by now.
OpenFresh(c) ==
    /\ ~ crashed
    /\ cstep[c] = "subscribed"
    /\ seen' = [seen EXCEPT ![c] = stored]
    /\ cstep' = [cstep EXCEPT ![c] = IF Ended(stored) THEN "leaving" ELSE "loop"]
    /\ UNCHANGED <<stored, group, chan, closed, publishing, hangups, crashed>>

\* The stream writer sends what was read, and is done if that has ended.
Open(c) ==
    /\ ~ crashed
    /\ cstep[c] = "subscribed"
    /\ cstep' = [cstep EXCEPT ![c] = IF Ended(seen[c]) THEN "leaving" ELSE "loop"]
    /\ UNCHANGED <<stored, group, chan, closed, publishing, seen, hangups, crashed>>

\* Mutants: the loop ends at any snapshot; the loop goes on after an ending.
ReceiveAndLeave(c) ==
    /\ ~ crashed
    /\ cstep[c] = "loop"
    /\ chan[c] # << >>
    /\ chan' = [chan EXCEPT ![c] = << >>]
    /\ seen' = [seen EXCEPT ![c] = Head(chan[c])]
    /\ cstep' = [cstep EXCEPT ![c] = "leaving"]
    /\ UNCHANGED <<stored, group, closed, publishing, hangups, crashed>>
ReceiveAndStay(c) ==
    /\ ~ crashed
    /\ cstep[c] = "loop"
    /\ chan[c] # << >>
    /\ chan' = [chan EXCEPT ![c] = << >>]
    /\ seen' = [seen EXCEPT ![c] = Head(chan[c])]
    /\ UNCHANGED <<stored, group, closed, cstep, publishing, hangups, crashed>>

\* One turn of the stream writer's loop: receive a snapshot and write it.
Receive(c) ==
    /\ ~ crashed
    /\ cstep[c] = "loop"
    /\ chan[c] # << >>
    /\ chan' = [chan EXCEPT ![c] = << >>]
    /\ seen' = [seen EXCEPT ![c] = Head(chan[c])]
    /\ cstep' = [cstep EXCEPT ![c] = IF Ended(Head(chan[c])) THEN "leaving" ELSE "loop"]
    /\ UNCHANGED <<stored, group, closed, publishing, hangups, crashed>>

\* The client is gone, or the server's WriteTimeout has passed: the writer
\* learns it from the next snapshot or keepalive that it fails to write.
HangUp(c) ==
    /\ ~ crashed
    /\ hangups < MaxHangups
    /\ cstep[c] \in {"subscribed", "loop"}
    /\ hangups' = hangups + 1
    /\ cstep' = [cstep EXCEPT ![c] = "leaving"]
    /\ UNCHANGED <<stored, group, chan, closed, publishing, seen, crashed>>

\* Mutant: the channel is closed and stays registered.
UnsubscribeKeeps(c) ==
    /\ ~ crashed
    /\ cstep[c] = "leaving"
    /\ closed' = closed \cup {c}
    /\ cstep' = [cstep EXCEPT ![c] = "gone"]
    /\ UNCHANGED <<stored, group, chan, publishing, seen, hangups, crashed>>

\* The deferred unsubscribe, under the lock.  Nobody reads any more what the
\* channel still holds.
Unsubscribe(c) ==
    /\ ~ crashed
    /\ cstep[c] = "leaving"
    /\ group' = group \ {c}
    /\ closed' = closed \cup {c}
    /\ chan' = [chan EXCEPT ![c] = << >>]
    /\ cstep' = [cstep EXCEPT ![c] = "gone"]
    /\ UNCHANGED <<stored, publishing, seen, hangups, crashed>>

-----------------------------------------------------------------------------
SendAny(p) == \E c \in Connections : Send(p, c)

Publish(p) == CopyTargets(p) \/ SendAny(p) \/ Drain(p) \/ Resend(p)

Handle(c) == Subscribe(c) \/ Open(c) \/ Receive(c) \/ Unsubscribe(c)

Next ==
    \/ RunPublishes
    \/ \E q \in Cancels : CancelPublishes(q)
    \/ \E p \in Publishers : Publish(p)
    \/ \E c \in Connections : Read(c) \/ Handle(c) \/ HangUp(c)

\* A publish that has begun goes on, nothing in it blocks; so does a handler
\* that has something to do.  Whether anything more is published, and whether
\* anybody listens, is not assumed.
Fairness ==
    /\ \A p \in Publishers : WF_vars(Publish(p))
    /\ \A c \in Connections : WF_vars(Handle(c))

Spec == Init /\ [][Next]_vars /\ Fairness

-----------------------------------------------------------------------------
(* Properties. *)

\* Every variable keeps its type; the channels hold one snapshot.
TypeOK ==
    /\ stored \in Snapshot
    /\ group \subseteq Connections
    /\ chan \in [Connections -> {<< >>} \cup {<<x>> : x \in Snapshot}]
    /\ closed \subseteq Connections \ group
    /\ pstep \in [Publishers -> PublisherStep]
    /\ snap \in [Publishers -> Snapshot]
    /\ left \in [Publishers -> SUBSET Connections]
    /\ target \in [Publishers -> Connections \cup {NoTarget}]
    /\ cstep \in [Connections -> ConnectionStep]
    /\ seen \in [Connections -> Snapshot]
    /\ hangups \in 0 .. MaxHangups
    /\ addressed \subseteq Connections
    /\ crashed \in BOOLEAN

\* As long as no client hangs up, a publish can meet a closed channel only
\* after a connection has seen the execution stop and left: a second publish
\* of an ending, the next launch, or a cancel races with that unsubscribe.
OnlyEndingsPanic ==
    hangups = 0 /\ (\E p \in Publishers : pstep[p] = "panicked") =>
        \E c \in closed : Ended(seen[c])

\* What a client will see last, as things stand.
Latest(c) == IF chan[c] = << >> THEN seen[c] ELSE Head(chan[c])

\* Throwing away the older snapshot never costs the newest one: when a publish
\* of the run is over and no cancel interfered, every connection it addressed
\* has the snapshot or will find it in its channel.
NewestKept ==
    pstep[Run] = "idle" /\ ~ Cancelled =>
        \A c \in addressed \cap group :
            cstep[c] \in {"subscribed", "loop"} => Latest(c) = snap[Run]

\* To its clients the hub with its channels, displaced snapshots, late subscribers
\* and overlapping publishers is a plain feed: a client begins with what is
\* current, is never shown the run going back or anything after an ending,
\* whatever a cancel publishes, drains or displaces in between, and no handler
\* leaves but at an ending or because its client has gone.
FD == INSTANCE Feed WITH
          Clients <- Connections,
          latest  <- snap[Run].no,
          stage   <- [c \in Connections |->
                        CASE cstep[c] = "new" -> "new"
                          [] cstep[c] = "gone" -> "closed"
                          [] cstep[c] = "leaving" /\ ~ Ended(seen[c]) -> "broken"
                          [] OTHER -> "open"],
          shown   <- [c \in Connections |->
                        [no     |-> IF cstep[c] = "new" \/ seen[c].by # Run
                                    THEN 0 ELSE seen[c].no,
                         ending |-> cstep[c] # "new" /\ Ended(seen[c])]]

ImplementsFeed == FD!Spec

\* A connection that was subscribed in time for an ending is closed by it,
\* unless the execution goes on or a cancel interferes.  (One that subscribes
\* between the Get that told it "running" and an ending waits for the next
\* publish, if there is one.)
EndingCloses ==
    \A c \in Connections :
        /\ c \in addressed
        /\ pstep[Run] = "idle"
        /\ Ended(snap[Run])
        ~> \/ cstep[c] = "gone"
           \/ pstep[Run] # "idle"
           \/ Cancelled
           \/ crashed

=============================================================================
