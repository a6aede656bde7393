--------------------------- MODULE StreamHubProofs ---------------------------
(***************************************************************************)
(* Theorems about StreamHub, for every set of connections and cancels and  *)
(* all bounds.                                                             *)
(***************************************************************************)
EXTENDS StreamHub, TLAPS

-----------------------------------------------------------------------------
(* The inductive invariant. *)

\* The hub's registry is where the handlers stand.
RegistryFits ==
    /\ group = {c \in Connections : cstep[c] \in {"subscribed", "loop", "leaving"}}
    /\ closed = {c \in Connections : cstep[c] = "gone"}
    /\ \A c \in Connections : cstep[c] \in {"new", "read"} => chan[c] = << >>

\* Publishers address connections that have been registered at some time, and
\* the channel that was full is one they still have to send to.
TargetsFit ==
    /\ addressed \subseteq group \cup closed
    /\ \A p \in Publishers :
          /\ left[p] \subseteq group \cup closed
          /\ pstep[p] \in {"idle", "saved", "panicked"} => left[p] = {}
          /\ pstep[p] \in {"full", "drained"} => target[p] \in left[p]

\* A snapshot bears the name of its publisher; a cancel that has not come yet
\* publishes nothing.
SnapsFit ==
    /\ snap[Run].by = Run
    /\ \A q \in Cancels :
          /\ snap[q].by \in {Run, q}
          /\ snap[q].by = Run => pstep[q] = "idle"

\* Without hang-ups, handlers leave because of an ending.
LeavesAtEnding ==
    hangups = 0 =>
        \A c \in Connections : cstep[c] \in {"leaving", "gone"} => Ended(seen[c])

PanicsNeedClosed == (\E p \in Publishers : pstep[p] = "panicked") => closed # {}

\* x is no older than y, if both are the run's.
Follows(x, y) == x.by = Run /\ y.by = Run => x.no >= y.no

\* Nothing that is stored, seen or on its way is newer than what the run has
\* published last, and what is in a channel is no older than what its client saw.
OrderKept ==
    /\ Follows(snap[Run], stored)
    /\ \A c \in Connections :
          /\ Follows(snap[Run], seen[c])
          /\ chan[c] # << >> => /\ Follows(snap[Run], Head(chan[c]))
                                /\ Follows(Head(chan[c]), seen[c])

Listening(c) == cstep[c] \in {"subscribed", "loop"}

\* While the run publishes, those it is done with have its snapshot, and the
\* channel it has drained stays empty.
DoneHaveNewest ==
    ~ Cancelled =>
        /\ pstep[Run] = "drained" => chan[target[Run]] = << >>
        /\ pstep[Run] \in {"idle", "sending", "full", "drained"} =>
              \A c \in (addressed \cap group) \ left[Run] :
                  Listening(c) => Latest(c) = snap[Run]

IInv ==
    /\ TypeOK
    /\ RegistryFits
    /\ TargetsFit
    /\ SnapsFit
    /\ LeavesAtEnding
    /\ PanicsNeedClosed
    /\ OrderKept
    /\ DoneHaveNewest


-----------------------------------------------------------------------------
(* Channels. *)

Content == {<< >>} \cup {<<x>> : x \in Snapshot}

\* A channel holds nothing or one snapshot, and its head is that one.
LEMMA ContentFacts ==
    /\ << >> \in Content
    /\ \A x \in Snapshot : <<x>> \in Content /\ <<x>> # << >> /\ Head(<<x>>) = x
    /\ \A q \in Content : q # << >> => Head(q) \in Snapshot
PROOF
  <1>1. \A x \in Snapshot : <<x>> \in Content /\ <<x>> # << >> /\ Head(<<x>>) = x
    BY DEF Content
  <1>2. \A q \in Content : q # << >> => Head(q) \in Snapshot
    BY <1>1 DEF Content
  <1> QED  BY <1>1, <1>2 DEF Content

LEMMA FirstIsSnapshot == First \in Snapshot
PROOF  BY HubAssumption DEF HubAssumption, First, Snapshot, Publishers, Kind

LEMMA InitIInv == Init => IInv
PROOF
  <1> SUFFICES ASSUME Init PROVE IInv
    OBVIOUS
  <1>1. TypeOK
    <2>1. /\ chan \in [Connections -> {<< >>} \cup {<<x>> : x \in Snapshot}]
          /\ seen \in [Connections -> Snapshot]
          /\ snap \in [Publishers -> Snapshot]
      BY FirstIsSnapshot DEF Init
    <2>2. hangups \in 0 .. MaxHangups
      BY HubAssumption DEF Init, HubAssumption
    <2>3. /\ pstep \in [Publishers -> PublisherStep]
          /\ left \in [Publishers -> SUBSET Connections]
          /\ target \in [Publishers -> Connections \cup {NoTarget}]
          /\ cstep \in [Connections -> ConnectionStep]
      BY DEF Init, PublisherStep, ConnectionStep
    <2>4. /\ stored \in Snapshot
          /\ group \subseteq Connections
          /\ closed \subseteq Connections \ group
          /\ addressed \subseteq Connections
          /\ crashed \in BOOLEAN
      BY FirstIsSnapshot DEF Init
    <2> QED  BY <2>1, <2>2, <2>3, <2>4 DEF TypeOK
  <1>2. RegistryFits
    BY DEF Init, RegistryFits
  <1>3. TargetsFit
    BY DEF Init, TargetsFit
  <1>4. SnapsFit
    BY DEF Init, SnapsFit, First, Publishers
  <1>5. LeavesAtEnding
    BY DEF Init, LeavesAtEnding
  <1>6. PanicsNeedClosed
    BY DEF Init, PanicsNeedClosed
  <1>7. OrderKept
    BY FirstIsSnapshot, HubAssumption
    DEF Init, OrderKept, Follows, First, Publishers, HubAssumption, Snapshot
  <1>8. DoneHaveNewest
    BY DEF Init, DoneHaveNewest, Publishers
  <1> QED  BY <1>1, <1>2, <1>3, <1>4, <1>5, <1>6, <1>7, <1>8 DEF IInv

-----------------------------------------------------------------------------
(* Publishing. *)

\* What both publishers do first.
LEMMA SaveKeepsShape ==
    ASSUME IInv, NEW p \in Publishers, NEW x \in Snapshot, Save(p, x),
           x.by = p
    PROVE  TypeOK' /\ RegistryFits' /\ TargetsFit' /\ SnapsFit'
              /\ LeavesAtEnding' /\ PanicsNeedClosed'
PROOF
  <1> USE DEF IInv
  <1>1. TypeOK'
    BY DEF TypeOK, Save, connections, PublisherStep
  <1>2. RegistryFits'
    BY DEF RegistryFits, Save, connections
  <1>3. TargetsFit'
    BY DEF TargetsFit, TypeOK, Save, connections
  <1>4. SnapsFit'
    BY HubAssumption DEF SnapsFit, TypeOK, Save, Publishers, HubAssumption
  <1>5. LeavesAtEnding'
    BY DEF LeavesAtEnding, Save, connections
  <1>6. PanicsNeedClosed'
    BY DEF PanicsNeedClosed, TypeOK, Save
  <1> QED  BY <1>1, <1>2, <1>3, <1>4, <1>5, <1>6

LEMMA RunPublishesKeeps == IInv /\ RunPublishes => IInv'
PROOF
  <1> SUFFICES ASSUME IInv, RunPublishes PROVE IInv'
    OBVIOUS
  <1> USE DEF IInv
  <1>1. PICK k \in Kind :
           Save(Run, [by |-> Run, no |-> snap[Run].no + 1, kind |-> k])
    BY DEF RunPublishes
  <1> DEFINE x == [by |-> Run, no |-> snap[Run].no + 1, kind |-> k]
  <1>2. x \in Snapshot /\ x.by = Run /\ Run \in Publishers
    BY HubAssumption DEF RunPublishes, TypeOK, Snapshot, Publishers, HubAssumption
  <1>3. TypeOK' /\ RegistryFits' /\ TargetsFit' /\ SnapsFit'
           /\ LeavesAtEnding' /\ PanicsNeedClosed'
    BY <1>1, <1>2, SaveKeepsShape
  <1>4. OrderKept'
    <2>1. /\ snap'[Run] = x /\ stored' = x
          /\ chan' = chan /\ seen' = seen
      BY <1>1, <1>2 DEF Save, TypeOK, connections
    <2>2. \A y : Follows(snap[Run], y) /\ (y.by = Run => y.no \in Int) => Follows(x, y)
      BY <1>2 DEF Follows, TypeOK, SnapsFit, Snapshot
    <2>3. \A y \in Snapshot : Follows(snap[Run], y) => Follows(x, y)
      BY <2>2 DEF Snapshot
    <2>4. Follows(x, x)
      BY <1>2 DEF Follows, Snapshot
    <2>5. \A c \in Connections :
             seen[c] \in Snapshot /\ (chan[c] # << >> => Head(chan[c]) \in Snapshot)
      BY ContentFacts DEF TypeOK, Content
    <2> QED  BY <2>1, <2>3, <2>4, <2>5 DEF OrderKept
  <1>5. DoneHaveNewest'
    BY <1>1, <1>2 DEF DoneHaveNewest, Save, TypeOK
  <1> QED  BY <1>3, <1>4, <1>5

LEMMA CancelPublishesKeeps ==
    ASSUME IInv, NEW q \in Cancels, CancelPublishes(q)
    PROVE  IInv'
PROOF
  <1> USE DEF IInv
  <1> DEFINE x == [by |-> q, no |-> 1, kind |-> "stopped"]
  <1>1. x \in Snapshot /\ x.by = q /\ q \in Publishers /\ q # Run /\ Save(q, x)
    BY HubAssumption DEF CancelPublishes, Snapshot, Publishers, Kind, HubAssumption
  <1>2. TypeOK' /\ RegistryFits' /\ TargetsFit' /\ SnapsFit'
           /\ LeavesAtEnding' /\ PanicsNeedClosed'
    BY <1>1, SaveKeepsShape
  <1>3. snap'[Run] = snap[Run] /\ snap'[q] = x /\ stored' = x
           /\ chan' = chan /\ seen' = seen
    BY <1>1 DEF Save, TypeOK, connections, Publishers
  <1>4. OrderKept'
    BY <1>1, <1>3 DEF OrderKept, Follows
  <1>5. DoneHaveNewest'
    BY <1>1, <1>3 DEF DoneHaveNewest, Cancelled
  <1> QED  BY <1>2, <1>4, <1>5

LEMMA CopyTargetsKeeps ==
    ASSUME IInv, NEW p \in Publishers, CopyTargets(p)
    PROVE  IInv'
PROOF
  <1> USE DEF IInv
  <1>1. TypeOK'
    BY DEF TypeOK, CopyTargets, connections, PublisherStep
  <1>2. RegistryFits'
    BY DEF RegistryFits, CopyTargets, connections
  <1>3. TargetsFit'
    BY DEF TargetsFit, TypeOK, CopyTargets, connections
  <1>4. SnapsFit'
    BY HubAssumption DEF SnapsFit, TypeOK, CopyTargets, Publishers, HubAssumption
  <1>5. LeavesAtEnding'
    BY DEF LeavesAtEnding, CopyTargets, connections
  <1>6. PanicsNeedClosed'
    BY DEF PanicsNeedClosed, TypeOK, CopyTargets
  <1>7. OrderKept'
    BY DEF OrderKept, CopyTargets, connections
  <1>8. DoneHaveNewest'
    <2>1. CASE p = Run
      BY <2>1 DEF DoneHaveNewest, CopyTargets, TypeOK
    <2>2. CASE p # Run
      BY <2>2 DEF DoneHaveNewest, CopyTargets, TypeOK, connections, Listening, Latest,
                  Cancelled, Publishers
    <2> QED  BY <2>1, <2>2
  <1> QED  BY <1>1, <1>2, <1>3, <1>4, <1>5, <1>6, <1>7, <1>8

\* A publisher that has begun to send has a snapshot that the run cannot be
\* behind; without a cancel it is the run.
LEMMA SendersSnapshot ==
    ASSUME IInv, NEW p \in Publishers, pstep[p] # "idle"
    PROVE  /\ Follows(snap[Run], snap[p])
           /\ \A y \in Snapshot : Follows(snap[Run], y) => Follows(snap[p], y)
           /\ ~ Cancelled => p = Run
PROOF
  <1>1. CASE p = Run
    BY <1>1 DEF Follows, IInv, TypeOK, Snapshot
  <1>2. CASE p # Run
    <2>1. p \in Cancels /\ snap[p].by # Run
      BY <1>2 DEF IInv, SnapsFit, Publishers
    <2> QED  BY <2>1 DEF Follows, Cancelled
  <1> QED  BY <1>1, <1>2

LEMMA SendKeeps ==
    ASSUME IInv, NEW p \in Publishers, NEW c \in Connections, Send(p, c)
    PROVE  IInv'
PROOF
  <1> USE DEF IInv
  <1>1. /\ UNCHANGED <<stored, group, closed, snap, addressed, cstep, seen, hangups>>
        /\ pstep[p] = "sending" /\ c \in left[p]
    BY DEF Send, connections
  <1>2. /\ Follows(snap[Run], snap[p])
        /\ Follows(snap[p], seen[c])
        /\ ~ Cancelled => p = Run
    BY <1>1, SendersSnapshot DEF TypeOK, OrderKept
  <1>3. CASE c \in closed /\ Panic(p)
    <2>1. TypeOK'
      BY <1>1, <1>3 DEF TypeOK, Panic, PublisherStep
    <2>2. RegistryFits' /\ LeavesAtEnding' /\ OrderKept'
      BY <1>1, <1>3 DEF RegistryFits, LeavesAtEnding, OrderKept, Panic
    <2>3. TargetsFit'
      BY <1>1, <1>3 DEF TargetsFit, TypeOK, Panic
    <2>4. SnapsFit'
      BY <1>1, <1>3 DEF SnapsFit, TypeOK, Panic, Publishers
    <2>5. PanicsNeedClosed'
      BY <1>1, <1>3 DEF PanicsNeedClosed
    <2>6. DoneHaveNewest'
      BY <1>1, <1>2, <1>3 DEF DoneHaveNewest, TypeOK, Panic, Cancelled
    <2> QED  BY <2>1, <2>2, <2>3, <2>4, <2>5, <2>6
  <1>4. CASE /\ c \notin closed /\ chan[c] = << >>
             /\ chan' = [chan EXCEPT ![c] = <<snap[p]>>]
             /\ NextTarget(p, c) /\ UNCHANGED crashed
    <2> USE <1>4 DEF NextTarget
    <2>0. /\ chan' \in [Connections -> Content]
          /\ chan'[c] # << >> /\ Head(chan'[c]) = snap[p]
          /\ \A d \in Connections \ {c} : chan'[d] = chan[d]
      BY ContentFacts DEF TypeOK, Content
    <2>1. TypeOK'
      BY <1>1, <2>0 DEF TypeOK, PublisherStep, Content
    <2>2. RegistryFits'
      BY <1>1, <2>0 DEF RegistryFits, TargetsFit
    <2>3. TargetsFit'
      BY <1>1 DEF TargetsFit, TypeOK
    <2>4. SnapsFit'
      BY <1>1 DEF SnapsFit, TypeOK, Publishers
    <2>5. LeavesAtEnding' /\ PanicsNeedClosed'
      BY <1>1 DEF LeavesAtEnding, PanicsNeedClosed, TypeOK
    <2>6. OrderKept'
      BY <1>1, <1>2, <2>0 DEF OrderKept
    <2>7. DoneHaveNewest'
      BY <1>1, <1>2, <2>0
      DEF DoneHaveNewest, TypeOK, Cancelled, Listening, Latest
    <2> QED  BY <2>1, <2>2, <2>3, <2>4, <2>5, <2>6, <2>7
  <1>5. CASE /\ chan[c] # << >>
             /\ target' = [target EXCEPT ![p] = c]
             /\ pstep' = [pstep EXCEPT ![p] = "full"]
             /\ UNCHANGED <<chan, left, crashed>>
    <2>1. TypeOK'
      BY <1>1, <1>5 DEF TypeOK, PublisherStep
    <2>2. RegistryFits' /\ LeavesAtEnding' /\ OrderKept'
      BY <1>1, <1>5 DEF RegistryFits, LeavesAtEnding, OrderKept
    <2>3. TargetsFit'
      BY <1>1, <1>5 DEF TargetsFit, TypeOK
    <2>4. SnapsFit' /\ PanicsNeedClosed'
      BY <1>1, <1>5 DEF SnapsFit, PanicsNeedClosed, TypeOK, Publishers
    <2>5. DoneHaveNewest'
      BY <1>1, <1>2, <1>5 DEF DoneHaveNewest, TypeOK, Cancelled, Listening, Latest
    <2> QED  BY <2>1, <2>2, <2>3, <2>4, <2>5
  <1> QED  BY <1>3, <1>4, <1>5 DEF Send

LEMMA DrainKeeps ==
    ASSUME IInv, NEW p \in Publishers, Drain(p)
    PROVE  IInv'
PROOF
  <1> USE DEF IInv
  <1> DEFINE c == target[p]
  <1>1. /\ UNCHANGED <<stored, group, closed, snap, left, target, addressed,
                       cstep, seen, hangups>>
        /\ pstep[p] = "full" /\ c \in left[p] /\ c \in Connections
        /\ pstep' = [pstep EXCEPT ![p] = "drained"]
        /\ ~ Cancelled => p = Run
    BY SendersSnapshot DEF Drain, connections, TargetsFit, TypeOK
  <1>2. /\ chan' \in [Connections -> Content]
        /\ chan'[c] = << >>
        /\ \A d \in Connections \ {c} : chan'[d] = chan[d]
    BY <1>1, ContentFacts DEF Drain, TypeOK, Content
  <1>3. TypeOK'
    BY <1>1, <1>2 DEF TypeOK, PublisherStep, Content, Drain
  <1>4. RegistryFits'
    BY <1>1, <1>2 DEF RegistryFits
  <1>5. TargetsFit'
    BY <1>1 DEF TargetsFit, TypeOK
  <1>6. SnapsFit' /\ PanicsNeedClosed'
    BY <1>1 DEF SnapsFit, PanicsNeedClosed, TypeOK, Publishers
  <1>7. LeavesAtEnding'
    BY <1>1 DEF LeavesAtEnding
  <1>8. OrderKept'
    BY <1>1, <1>2 DEF OrderKept
  <1>9. DoneHaveNewest'
    BY <1>1, <1>2 DEF DoneHaveNewest, TypeOK, Cancelled, Listening, Latest
  <1> QED  BY <1>3, <1>4, <1>5, <1>6, <1>7, <1>8, <1>9

LEMMA ResendKeeps ==
    ASSUME IInv, NEW p \in Publishers, Resend(p)
    PROVE  IInv'
PROOF
  <1> USE DEF IInv
  <1> DEFINE c == target[p]
  <1>1. /\ UNCHANGED <<stored, group, closed, snap, addressed, cstep, seen, hangups>>
        /\ pstep[p] = "drained" /\ c \in left[p] /\ c \in Connections
    BY DEF Resend, connections, TargetsFit, TypeOK
  <1>2. /\ Follows(snap[Run], snap[p])
        /\ Follows(snap[p], seen[c])
        /\ ~ Cancelled => p = Run
    BY <1>1, SendersSnapshot DEF TypeOK, OrderKept
  <1>3. CASE c \in closed /\ Panic(p)
    <2>1. TypeOK'
      BY <1>1, <1>3 DEF TypeOK, Panic, PublisherStep
    <2>2. RegistryFits' /\ LeavesAtEnding' /\ OrderKept'
      BY <1>1, <1>3 DEF RegistryFits, LeavesAtEnding, OrderKept, Panic
    <2>3. TargetsFit'
      BY <1>1, <1>3 DEF TargetsFit, TypeOK, Panic
    <2>4. SnapsFit'
      BY <1>1, <1>3 DEF SnapsFit, TypeOK, Panic, Publishers
    <2>5. PanicsNeedClosed'
      BY <1>1, <1>3 DEF PanicsNeedClosed
    <2>6. DoneHaveNewest'
      BY <1>1, <1>2, <1>3 DEF DoneHaveNewest, TypeOK, Panic, Cancelled
    <2> QED  BY <2>1, <2>2, <2>3, <2>4, <2>5, <2>6
  <1>4. CASE /\ c \notin closed
             /\ chan' = [chan EXCEPT ![c] = IF @ = << >> THEN <<snap[p]>> ELSE @]
             /\ NextTarget(p, c) /\ UNCHANGED crashed
    <2> USE <1>4 DEF NextTarget
    <2>0. /\ chan' \in [Connections -> Content]
          /\ chan[c] = << >> => chan'[c] # << >> /\ Head(chan'[c]) = snap[p]
          /\ chan[c] # << >> => chan'[c] = chan[c]
          /\ \A d \in Connections \ {c} : chan'[d] = chan[d]
      BY <1>1, ContentFacts DEF TypeOK, Content
    <2>1. TypeOK'
      BY <1>1, <2>0 DEF TypeOK, PublisherStep, Content
    <2>2. RegistryFits'
      BY <1>1, <2>0 DEF RegistryFits, TargetsFit
    <2>3. TargetsFit'
      BY <1>1 DEF TargetsFit, TypeOK
    <2>4. SnapsFit'
      BY <1>1 DEF SnapsFit, TypeOK, Publishers
    <2>5. LeavesAtEnding' /\ PanicsNeedClosed'
      BY <1>1 DEF LeavesAtEnding, PanicsNeedClosed, TypeOK
    <2>6. OrderKept'
      BY <1>1, <1>2, <2>0 DEF OrderKept
    <2>7. DoneHaveNewest'
      BY <1>1, <1>2, <2>0
      DEF DoneHaveNewest, TypeOK, Cancelled, Listening, Latest
    <2> QED  BY <2>1, <2>2, <2>3, <2>4, <2>5, <2>6, <2>7
  <1> QED  BY <1>3, <1>4 DEF Resend

-----------------------------------------------------------------------------
(* The connections.  None of their steps is a publisher's. *)

LEMMA ReadKeeps ==
    ASSUME IInv, NEW c \in Connections, Read(c)
    PROVE  IInv'
PROOF
  <1> USE DEF IInv
  <1>1. /\ UNCHANGED <<stored, group, chan, closed, pstep, snap, left, target,
                       addressed, hangups, crashed>>
        /\ cstep[c] = "new"
        /\ cstep' = [cstep EXCEPT ![c] = "read"]
        /\ seen' = [seen EXCEPT ![c] = stored]
    BY DEF Read, publishing
  <1>2. TypeOK'
    BY <1>1 DEF TypeOK, ConnectionStep
  <1>3. RegistryFits' /\ chan[c] = << >>
    BY <1>1 DEF RegistryFits, TypeOK
  <1>4. TargetsFit' /\ SnapsFit' /\ PanicsNeedClosed'
    BY <1>1 DEF TargetsFit, SnapsFit, PanicsNeedClosed
  <1>5. LeavesAtEnding'
    BY <1>1 DEF LeavesAtEnding, TypeOK, Ended
  <1>6. OrderKept'
    BY <1>1, <1>3 DEF OrderKept, TypeOK
  <1>7. DoneHaveNewest'
    BY <1>1 DEF DoneHaveNewest, TypeOK, Cancelled, Listening, Latest
  <1> QED  BY <1>2, <1>3, <1>4, <1>5, <1>6, <1>7

LEMMA SubscribeKeeps ==
    ASSUME IInv, NEW c \in Connections, Subscribe(c)
    PROVE  IInv'
PROOF
  <1> USE DEF IInv
  <1>1. /\ UNCHANGED <<stored, chan, closed, pstep, snap, left, target,
                       addressed, seen, hangups, crashed>>
        /\ cstep[c] = "read"
        /\ cstep' = [cstep EXCEPT ![c] = "subscribed"]
        /\ group' = group \cup {c}
    BY DEF Subscribe, publishing
  <1>2. c \notin group \cup closed
    BY <1>1 DEF RegistryFits
  <1>3. TypeOK'
    BY <1>1, <1>2 DEF TypeOK, ConnectionStep
  <1>4. RegistryFits'
    BY <1>1 DEF RegistryFits, TypeOK
  <1>5. TargetsFit' /\ SnapsFit' /\ PanicsNeedClosed'
    BY <1>1 DEF TargetsFit, SnapsFit, PanicsNeedClosed
  <1>6. LeavesAtEnding'
    BY <1>1 DEF LeavesAtEnding, TypeOK, Ended
  <1>7. OrderKept'
    BY <1>1 DEF OrderKept
  <1>8. DoneHaveNewest'
    BY <1>1, <1>2 DEF DoneHaveNewest, TargetsFit, TypeOK, Cancelled, Listening, Latest
  <1> QED  BY <1>3, <1>4, <1>5, <1>6, <1>7, <1>8

\* A handler that only moves on, as Open and HangUp do.
LEMMA MoveKeeps ==
    ASSUME IInv, NEW c \in Connections,
           UNCHANGED <<stored, group, chan, closed, publishing, seen, crashed>>,
           cstep[c] \in {"subscribed", "loop"},
           \/ /\ UNCHANGED hangups
              /\ cstep' = [cstep EXCEPT ![c] = IF Ended(seen[c]) THEN "leaving"
                                                                 ELSE "loop"]
           \/ /\ hangups < MaxHangups
              /\ hangups' = hangups + 1
              /\ cstep' = [cstep EXCEPT ![c] = "leaving"]
    PROVE  IInv'
PROOF
  <1> USE DEF IInv
  <1>1. /\ UNCHANGED <<pstep, snap, left, target, addressed>>
        /\ cstep' \in [Connections -> ConnectionStep]
        /\ cstep'[c] \in {"loop", "leaving"}
        /\ \A d \in Connections \ {c} : cstep'[d] = cstep[d]
    BY DEF publishing, TypeOK, ConnectionStep
  <1>2. hangups' \in 0 .. MaxHangups
    BY HubAssumption DEF TypeOK, HubAssumption
  <1>3. TypeOK'
    BY <1>1, <1>2 DEF TypeOK
  <1>4. RegistryFits'
    BY <1>1 DEF RegistryFits
  <1>5. TargetsFit' /\ SnapsFit' /\ PanicsNeedClosed'
    BY <1>1 DEF TargetsFit, SnapsFit, PanicsNeedClosed
  <1>6. LeavesAtEnding'
    BY HubAssumption DEF LeavesAtEnding, TypeOK, Ended, HubAssumption
  <1>7. OrderKept'
    BY <1>1 DEF OrderKept
  <1>8. DoneHaveNewest'
    BY <1>1 DEF DoneHaveNewest, TypeOK, Cancelled, Listening, Latest
  <1> QED  BY <1>3, <1>4, <1>5, <1>6, <1>7, <1>8

LEMMA ReceiveKeeps ==
    ASSUME IInv, NEW c \in Connections, Receive(c)
    PROVE  IInv'
PROOF
  <1> USE DEF IInv
  <1> DEFINE x == Head(chan[c])
  <1>1. /\ UNCHANGED <<stored, group, closed, pstep, snap, left, target, addressed,
                       hangups, crashed>>
        /\ cstep[c] = "loop" /\ chan[c] # << >>
        /\ seen' = [seen EXCEPT ![c] = x]
        /\ cstep' = [cstep EXCEPT ![c] = IF Ended(x) THEN "leaving" ELSE "loop"]
    BY DEF Receive, publishing
  <1>2. /\ chan' \in [Connections -> Content]
        /\ chan'[c] = << >>
        /\ \A d \in Connections \ {c} : chan'[d] = chan[d]
        /\ x \in Snapshot
    BY <1>1, ContentFacts DEF Receive, TypeOK, Content
  <1> HIDE DEF x
  <1>3. TypeOK'
    BY <1>1, <1>2 DEF TypeOK, ConnectionStep, Content
  <1>4. RegistryFits'
    BY <1>1, <1>2 DEF RegistryFits, TypeOK
  <1>5. TargetsFit' /\ SnapsFit' /\ PanicsNeedClosed'
    BY <1>1 DEF TargetsFit, SnapsFit, PanicsNeedClosed
  <1>6. LeavesAtEnding'
    BY <1>1 DEF LeavesAtEnding, TypeOK
  <1>7. OrderKept'
    BY <1>1, <1>2 DEF OrderKept, TypeOK, x
  <1>8. DoneHaveNewest'
    <2> SUFFICES ASSUME ~ Cancelled, ~ Cancelled'
                 PROVE  DoneHaveNewest'
      BY <1>1 DEF DoneHaveNewest, Cancelled
    <2>1. pstep'[Run] = "drained" => chan'[target'[Run]] = << >>
      BY <1>1, <1>2 DEF DoneHaveNewest, TargetsFit, TypeOK, Publishers
    <2>2. ASSUME pstep'[Run] \in {"idle", "sending", "full", "drained"},
                 NEW d \in (addressed \cap group) \ left[Run],
                 Listening(d)'
          PROVE  Latest(d)' = snap[Run]
      <3>1. d \in Connections /\ Listening(d) /\ Latest(d) = snap[Run]
        BY <1>1, <2>2 DEF DoneHaveNewest, TypeOK, Listening
      <3>2. Latest(d)' = Latest(d)
        BY <1>1, <1>2, <3>1 DEF Latest, TypeOK, x
      <3> QED  BY <3>1, <3>2
    <2> QED  BY <1>1, <2>1, <2>2 DEF DoneHaveNewest
  <1> QED  BY <1>3, <1>4, <1>5, <1>6, <1>7, <1>8

LEMMA ClosingKeeps ==
    ASSUME IInv, NEW c \in Connections, Unsubscribe(c)
    PROVE  IInv'
PROOF
  <1> USE DEF IInv
  <1>1. /\ UNCHANGED <<stored, pstep, snap, left, target, addressed,
                       seen, hangups, crashed>>
        /\ cstep[c] = "leaving"
        /\ cstep' = [cstep EXCEPT ![c] = "gone"]
        /\ group' = group \ {c}
        /\ closed' = closed \cup {c}
    BY DEF Unsubscribe, publishing
  <1>2. /\ chan' \in [Connections -> Content]
        /\ chan'[c] = << >>
        /\ \A d \in Connections \ {c} : chan'[d] = chan[d]
    BY ContentFacts DEF Unsubscribe, TypeOK, Content
  <1>3. TypeOK'
    BY <1>1, <1>2 DEF TypeOK, ConnectionStep, Content
  <1>4. RegistryFits'
    BY <1>1, <1>2 DEF RegistryFits, TypeOK
  <1>5. TargetsFit' /\ SnapsFit' /\ PanicsNeedClosed'
    BY <1>1 DEF TargetsFit, SnapsFit, PanicsNeedClosed
  <1>6. LeavesAtEnding'
    BY <1>1 DEF LeavesAtEnding, TypeOK
  <1>7. OrderKept'
    BY <1>1, <1>2 DEF OrderKept, TypeOK
  <1>8. DoneHaveNewest'
    BY <1>1, <1>2
    DEF DoneHaveNewest, TargetsFit, TypeOK, Cancelled, Listening, Latest, Publishers
  <1> QED  BY <1>3, <1>4, <1>5, <1>6, <1>7, <1>8

-----------------------------------------------------------------------------
LEMMA NextKeeps == IInv /\ [Next]_vars => IInv'
PROOF
  <1> SUFFICES ASSUME IInv, [Next]_vars PROVE IInv'
    OBVIOUS
  <1>1. CASE RunPublishes
    BY <1>1, RunPublishesKeeps
  <1>2. CASE \E q \in Cancels : CancelPublishes(q)
    BY <1>2, CancelPublishesKeeps
  <1>3. CASE \E p \in Publishers : Publish(p)
    BY <1>3, CopyTargetsKeeps, SendKeeps, DrainKeeps, ResendKeeps DEF Publish, SendAny
  <1>4. ASSUME NEW c \in Connections, Read(c) \/ Handle(c) \/ HangUp(c)
        PROVE  IInv'
    <2>1. CASE Open(c) \/ HangUp(c)
      <3>1. cstep[c] \in {"subscribed", "loop"}
        BY <2>1 DEF Open, HangUp
      <3> QED  BY <2>1, <3>1, MoveKeeps DEF Open, HangUp
    <2> QED
      BY <1>4, <2>1, ReadKeeps, SubscribeKeeps, ReceiveKeeps, ClosingKeeps DEF Handle
  <1>5. CASE UNCHANGED vars
    BY <1>5
    DEF vars, publishing, connections, IInv, TypeOK, RegistryFits, TargetsFit, SnapsFit,
        LeavesAtEnding, PanicsNeedClosed, OrderKept, DoneHaveNewest, Cancelled,
        Listening, Latest
  <1> QED  BY <1>1, <1>2, <1>3, <1>4, <1>5 DEF Next

LEMMA Inductive == Spec => []IInv
PROOF  BY InitIInv, NextKeeps, PTL DEF Spec

-----------------------------------------------------------------------------
(* The theorems. *)

\* Every variable of the hub and its connections keeps its type: a channel
\* never holds more than the one snapshot it is made for (stream.go).
THEOREM TypeCorrect == Spec => []TypeOK
PROOF
  <1>1. IInv => TypeOK
    BY DEF IInv
  <1> QED  BY <1>1, Inductive, PTL

\* Whatever the number of clients and cancels: as long as nobody hangs up, a
\* publish panics on a closed channel only after some client has seen the
\* execution stop and left (Publish, stream.go, and the stream writer).
THEOREM OnlyEndingsMakePanics == Spec => []OnlyEndingsPanic
PROOF
  <1>1. IInv => OnlyEndingsPanic
    BY DEF IInv, OnlyEndingsPanic, PanicsNeedClosed, LeavesAtEnding, RegistryFits
  <1> QED  BY <1>1, Inductive, PTL

\* A publish that displaces what a slow client has not read yet leaves it the
\* newest snapshot: every connection the run's last publish went to has it, or
\* has it waiting in its channel (Publish, stream.go).
THEOREM NewestIsKept == Spec => []NewestKept
PROOF
  <1>1. IInv => NewestKept
    BY DEF IInv, NewestKept, DoneHaveNewest, TargetsFit, Listening, Publishers
  <1> QED  BY <1>1, Inductive, PTL

-----------------------------------------------------------------------------
(* The hub is a feed. *)

CancelEnds(x) == x.by # Run => Ended(x)

\* A handler in its loop has not seen an ending; what is stored is the newest
\* of the run, unless a cancel has stored it; and what a cancel publishes ends
\* the stream, wherever it has got to.
FeedInv ==
    /\ \A c \in Connections : cstep[c] = "loop" => ~ Ended(seen[c])
    /\ stored.by = Run => stored.no = snap[Run].no
    /\ CancelEnds(stored)
    /\ \A p \in Publishers : CancelEnds(snap[p])
    /\ \A c \in Connections :
          CancelEnds(seen[c]) /\ (chan[c] # << >> => CancelEnds(Head(chan[c])))

LEMMA InitFeedInv == Init => FeedInv
PROOF
  <1> SUFFICES ASSUME Init PROVE FeedInv
    OBVIOUS
  <1>1. CancelEnds(First) /\ First.by = Run
    BY DEF CancelEnds, First
  <1> QED  BY <1>1 DEF Init, FeedInv, Publishers

LEMMA SaveKeepsFeedInv ==
    ASSUME IInv, FeedInv, RunPublishes \/ \E q \in Cancels : CancelPublishes(q)
    PROVE  FeedInv'
PROOF
  <1>1. PICK p \in Publishers, x \in [by : Publishers, no : Int, kind : Kind] :
          Save(p, x) /\ x.by = p /\ (p = Run \/ x.kind = "stopped")
    <2>1. CASE RunPublishes
      <3>1. snap[Run].no + 1 \in Int
        BY DEF IInv, TypeOK, Snapshot, Publishers
      <3> QED  BY <2>1, <3>1 DEF RunPublishes, Publishers
    <2>2. CASE \E q \in Cancels : CancelPublishes(q)
      BY <2>2 DEF CancelPublishes, Publishers, Kind
    <2> QED  BY <2>1, <2>2
  <1>2. CancelEnds(x) /\ x.by = p
    BY <1>1 DEF CancelEnds, Ended
  <1>3. snap' = [snap EXCEPT ![p] = x] /\ stored' = x /\ chan' = chan /\ seen' = seen /\ cstep' = cstep
    BY <1>1 DEF Save, connections
  <1>4. \A r \in Publishers : snap'[r] = IF r = p THEN x ELSE snap[r]
    BY <1>3 DEF IInv, TypeOK
  <1> QED  BY <1>2, <1>3, <1>4 DEF FeedInv, Publishers, CancelEnds, Ended

LEMMA StepKeepsFeedInv ==
    IInv /\ FeedInv /\ [Next]_vars => FeedInv'
PROOF
  <1> SUFFICES ASSUME IInv, FeedInv, [Next]_vars PROVE FeedInv'
    OBVIOUS
  <1>1. CASE RunPublishes \/ \E q \in Cancels : CancelPublishes(q)
    BY <1>1, SaveKeepsFeedInv
  <1>2. ASSUME NEW p \in Publishers, Publish(p)
        PROVE  FeedInv'
    <2>1. stored' = stored /\ snap' = snap /\ seen' = seen /\ cstep' = cstep
      BY <1>2
      DEF Publish, SendAny, CopyTargets, Send, Drain, Resend, connections
    <2>2. ASSUME NEW c \in Connections
          PROVE  chan'[c] \in {chan[c], << >>, <<snap[p]>>}
      BY <1>2
      DEF Publish, SendAny, CopyTargets, Send, Drain, Resend, Panic, NextTarget, IInv, TypeOK
    <2>3. snap[p] \in Snapshot
      BY DEF IInv, TypeOK
    <2>4. \A c \in Connections : chan'[c] # << >> => CancelEnds(Head(chan'[c]))
      BY <2>2, <2>3, ContentFacts DEF FeedInv
    <2> QED  BY <2>1, <2>4 DEF FeedInv, CancelEnds
  <1>3. ASSUME NEW c \in Connections, Read(c) \/ Handle(c) \/ HangUp(c)
        PROVE  FeedInv'
    <2>1. stored' = stored /\ snap' = snap
      BY <1>3 DEF Read, Handle, Subscribe, Open, Receive, Unsubscribe, HangUp, publishing
    <2>2. \A d \in Connections : chan'[d] = chan[d] \/ chan'[d] = << >>
      BY <1>3
      DEF Read, Handle, Subscribe, Open, Receive, Unsubscribe, HangUp, IInv, TypeOK
    <2>3. \A d \in Connections :
             seen'[d] = seen[d] \/ seen'[d] = stored
             \/ (chan[d] # << >> /\ seen'[d] = Head(chan[d]))
      BY <1>3
      DEF Read, Handle, Subscribe, Open, Receive, Unsubscribe, HangUp, IInv, TypeOK
    <2>4. \A d \in Connections : cstep'[d] = "loop" => ~ Ended(seen'[d])
      BY <1>3
      DEF Read, Handle, Subscribe, Open, Receive, Unsubscribe, HangUp, IInv, TypeOK, FeedInv
    <2> QED  BY <2>1, <2>2, <2>3, <2>4 DEF FeedInv, CancelEnds
  <1>4. CASE UNCHANGED vars
    BY <1>4 DEF vars, publishing, connections, FeedInv, CancelEnds
  <1> QED  BY <1>1, <1>2, <1>3, <1>4 DEF Next

-----------------------------------------------------------------------------
\* The two mapped functions, client by client.
StageOf(c) ==
    CASE cstep[c] = "new" -> "new"
      [] cstep[c] = "gone" -> "closed"
      [] cstep[c] = "leaving" /\ ~ Ended(seen[c]) -> "broken"
      [] OTHER -> "open"

ShownTo(c) ==
    [no     |-> IF cstep[c] = "new" \/ seen[c].by # Run THEN 0 ELSE seen[c].no,
     ending |-> cstep[c] # "new" /\ Ended(seen[c])]

Stages == [c \in Connections |-> StageOf(c)]
Shown  == [c \in Connections |-> ShownTo(c)]

LEMMA InitIsFeed == Init => FD!Init
PROOF
  <1> SUFFICES ASSUME Init PROVE FD!Init
    OBVIOUS
  <1>1. snap[Run].no = 1
    BY DEF Init, Publishers, First
  <1>2. Stages = [c \in Connections |-> "new"]
    BY DEF Init, Stages, StageOf
  <1>3. Shown = [c \in Connections |-> FD!Nothing]
    BY DEF Init, Shown, ShownTo, FD!Nothing
  <1> QED  BY <1>1, <1>2, <1>3 DEF FD!Init, Stages, Shown, StageOf, ShownTo

\* A step of client c alone changes what the feed knows of c and nothing else.
LEMMA OnlyOne ==
    ASSUME NEW c \in Connections,
           \A d \in Connections \ {c} : cstep'[d] = cstep[d] /\ seen'[d] = seen[d]
    PROVE  /\ Stages' = [Stages EXCEPT ![c] = StageOf(c)']
           /\ Shown' = [Shown EXCEPT ![c] = ShownTo(c)']
PROOF
  <1>1. \A d \in Connections \ {c} : StageOf(d)' = StageOf(d) /\ ShownTo(d)' = ShownTo(d)
    BY DEF StageOf, ShownTo, Ended
  <1> QED  BY <1>1 DEF Stages, Shown

\* The moves of the feed, in terms of what is mapped to it.
LEMMA FeedMoves ==
    /\ UNCHANGED FD!feedVars <=>
          snap[Run].no' = snap[Run].no /\ Stages' = Stages /\ Shown' = Shown
    /\ \A c : /\ FD!Connect(c) <=>
                  /\ Stages[c] = "new"
                  /\ Stages' = [Stages EXCEPT ![c] = "open"]
                  /\ \E v \in FD!Views(snap[Run].no) : Shown' = [Shown EXCEPT ![c] = v]
                  /\ snap[Run].no' = snap[Run].no
              /\ FD!Show(c) <=>
                  /\ Stages[c] = "open"
                  /\ ~ Shown[c].ending
                  /\ \E v \in FD!Views(Shown[c].no) : Shown' = [Shown EXCEPT ![c] = v]
                  /\ snap[Run].no' = snap[Run].no /\ Stages' = Stages
              /\ FD!HangUp(c) <=>
                  /\ Stages[c] = "open"
                  /\ Stages' = [Stages EXCEPT ![c] = "broken"]
                  /\ snap[Run].no' = snap[Run].no /\ Shown' = Shown
              /\ FD!Close(c) <=>
                  /\ \/ Stages[c] = "open" /\ Shown[c].ending
                     \/ Stages[c] = "broken"
                  /\ Stages' = [Stages EXCEPT ![c] = "closed"]
                  /\ snap[Run].no' = snap[Run].no /\ Shown' = Shown
PROOF
  BY DEF FD!feedVars, FD!Connect, FD!Show, FD!HangUp, FD!Close, Stages, Shown, StageOf, ShownTo

\* A snapshot that is the run's and has a number between n and the newest, or
\* that ends the stream, is a view of the feed.
LEMMA ViewsFit ==
    ASSUME IInv, NEW x \in Snapshot, CancelEnds(x), NEW n \in Nat,
           x.by = Run => x.no >= n /\ x.no <= snap[Run].no
    PROVE  [no |-> IF x.by # Run THEN 0 ELSE x.no, ending |-> Ended(x)] \in FD!Views(n)
PROOF
  <1>1. x.no \in Nat \ {0} /\ snap[Run].no \in Nat \ {0}
    BY HubAssumption DEF IInv, TypeOK, Snapshot, Publishers, HubAssumption
  <1>2. CASE x.by = Run
    BY <1>1, <1>2 DEF FD!Views, Ended
  <1>3. CASE x.by # Run
    <2>1. Ended(x) = TRUE
      BY <1>3 DEF CancelEnds, Ended
    <2> QED  BY <1>1, <1>3, <2>1 DEF FD!Views
  <1> QED  BY <1>2, <1>3

LEMMA PublishingIsFeed ==
    ASSUME IInv,
           RunPublishes \/ (\E q \in Cancels : CancelPublishes(q))
             \/ (\E p \in Publishers : Publish(p))
    PROVE  FD!Publish \/ UNCHANGED FD!feedVars
PROOF
  <1>1. cstep' = cstep /\ seen' = seen
    BY DEF RunPublishes, CancelPublishes, Publish, SendAny, Save, CopyTargets, Send, Drain,
           Resend, connections
  <1>2. Stages' = Stages /\ Shown' = Shown
    BY <1>1 DEF Stages, Shown, StageOf, ShownTo, Ended
  <1>3. CASE RunPublishes
    <2>1. snap'[Run].no = snap[Run].no + 1
      BY <1>3 DEF RunPublishes, Save, IInv, TypeOK, Publishers
    <2> QED  BY <1>2, <2>1 DEF FD!Publish, Stages, Shown, StageOf, ShownTo
  <1>4. CASE \E q \in Cancels : CancelPublishes(q)
    <2>1. snap'[Run] = snap[Run]
      BY <1>4, HubAssumption
      DEF CancelPublishes, Save, IInv, TypeOK, Publishers, HubAssumption
    <2> QED  BY <1>2, <2>1, FeedMoves
  <1>5. CASE \E p \in Publishers : Publish(p)
    <2>1. snap' = snap
      BY <1>5 DEF Publish, SendAny, CopyTargets, Send, Drain, Resend
    <2> QED  BY <1>2, <2>1, FeedMoves
  <1> QED  BY <1>3, <1>4, <1>5

LEMMA ReadingIsFeed ==
    ASSUME IInv, FeedInv, NEW c \in Connections, Read(c) PROVE FD!Connect(c)
PROOF
  <1>1. /\ cstep[c] = "new" /\ cstep'[c] = "read" /\ seen'[c] = stored
        /\ snap' = snap /\ stored \in Snapshot /\ CancelEnds(stored)
        /\ \A d \in Connections \ {c} : cstep'[d] = cstep[d] /\ seen'[d] = seen[d]
    BY DEF Read, IInv, TypeOK, FeedInv, publishing
  <1>2. StageOf(c) = "new" /\ StageOf(c)' = "open"
    BY <1>1 DEF StageOf
  <1>3. ShownTo(c)' = [no |-> IF stored.by # Run THEN 0 ELSE stored.no,
                       ending |-> Ended(stored)]
    BY <1>1 DEF ShownTo, Ended
  <1>4. snap[Run].no \in Nat
    BY DEF IInv, TypeOK, Snapshot, Publishers
  <1>5. ShownTo(c)' \in FD!Views(snap[Run].no)
    BY <1>1, <1>3, <1>4, ViewsFit DEF FeedInv
  <1> QED  BY <1>1, <1>2, <1>5, OnlyOne, FeedMoves DEF Stages

LEMMA ReceivingIsFeed ==
    ASSUME IInv, FeedInv, NEW c \in Connections, Receive(c) PROVE FD!Show(c)
PROOF
  <1> DEFINE x == Head(chan[c])
  <1>1. /\ cstep[c] = "loop" /\ cstep'[c] \in {"loop", "leaving"} /\ seen'[c] = x
        /\ cstep'[c] = "leaving" => Ended(x)
        /\ snap' = snap /\ chan[c] # << >>
        /\ \A d \in Connections \ {c} : cstep'[d] = cstep[d] /\ seen'[d] = seen[d]
    BY DEF Receive, IInv, TypeOK, publishing
  <1>2. x \in Snapshot /\ CancelEnds(x) /\ seen[c] \in Snapshot
    BY <1>1, ContentFacts DEF IInv, TypeOK, FeedInv, Content
  <1>3. StageOf(c) = "open" /\ StageOf(c)' = "open"
    BY <1>1 DEF StageOf, Ended
  <1>4. seen[c].by = Run /\ ~ Ended(seen[c])
    BY <1>1 DEF FeedInv, CancelEnds
  <1>5. ShownTo(c) = [no |-> seen[c].no, ending |-> FALSE] /\ seen[c].no \in Nat
    <2>1. (cstep[c] # "new" /\ Ended(seen[c])) = FALSE
      BY <1>4 DEF Ended
    <2>2. (IF cstep[c] = "new" \/ seen[c].by # Run THEN 0 ELSE seen[c].no) = seen[c].no
      BY <1>1, <1>4
    <2>3. ShownTo(c) = [no |-> seen[c].no, ending |-> FALSE]
      BY <2>1, <2>2, Zenon DEF ShownTo
    <2> QED  BY <1>2, <2>3, HubAssumption DEF Snapshot, HubAssumption
  <1>6. ShownTo(c)' = [no |-> IF x.by # Run THEN 0 ELSE x.no, ending |-> Ended(x)]
    BY <1>1 DEF ShownTo, Ended
  <1>7. x.by = Run => x.no >= seen[c].no /\ x.no <= snap[Run].no
    <2>1. snap[Run].by = Run /\ snap[Run].no \in Nat
      BY DEF IInv, SnapsFit, TypeOK, Snapshot, Publishers
    <2> QED  BY <1>1, <1>2, <1>4, <2>1 DEF IInv, OrderKept, Follows, Snapshot
  <1>8. ShownTo(c)' \in FD!Views(seen[c].no)
    BY <1>2, <1>5, <1>6, <1>7, ViewsFit
  <1>9. Stages' = Stages
    BY <1>1, <1>3, OnlyOne DEF Stages
  <1>10. Stages[c] = "open" /\ Shown[c] = [no |-> seen[c].no, ending |-> FALSE]
    BY <1>3, <1>5 DEF Stages, Shown
  <1>11. Shown' = [Shown EXCEPT ![c] = ShownTo(c)']
    BY <1>1, OnlyOne
  <1>12. ~ Shown[c].ending /\ Shown[c].no = seen[c].no
    BY <1>10
  <1> QED  BY <1>1, <1>8, <1>9, <1>10, <1>11, <1>12, FeedMoves

LEMMA LeavingIsFeed ==
    ASSUME IInv, FeedInv, NEW c \in Connections,
           Subscribe(c) \/ Open(c) \/ HangUp(c) \/ Unsubscribe(c)
    PROVE  FD!HangUp(c) \/ FD!Close(c) \/ UNCHANGED FD!feedVars
PROOF
  <1>1. /\ snap' = snap /\ seen' = seen
        /\ \A d \in Connections \ {c} : cstep'[d] = cstep[d]
    BY DEF Subscribe, Open, HangUp, Unsubscribe, publishing, IInv, TypeOK
  <1>2. cstep[c] # "new" /\ cstep'[c] # "new"
    BY DEF Subscribe, Open, HangUp, Unsubscribe, IInv, TypeOK
  <1>3. ShownTo(c)' = ShownTo(c) /\ ShownTo(c).ending = Ended(seen[c])
    BY <1>1, <1>2 DEF ShownTo, Ended
  <1>4. Shown' = Shown
    BY <1>1, <1>3, OnlyOne DEF Shown
  <1>5. CASE StageOf(c)' = StageOf(c)
    BY <1>1, <1>4, <1>5, OnlyOne, FeedMoves DEF Stages
  <1>6. CASE HangUp(c) /\ StageOf(c)' # StageOf(c)
    <2>1. cstep[c] \in {"subscribed", "loop"} /\ cstep'[c] = "leaving"
      BY <1>6 DEF HangUp, IInv, TypeOK
    <2>2. StageOf(c) = "open" /\ StageOf(c)' = "broken"
      BY <1>6, <2>1 DEF StageOf
    <2> QED  BY <1>1, <1>4, <2>2, OnlyOne, FeedMoves DEF Stages
  <1>7. CASE Unsubscribe(c)
    <2>1. cstep[c] = "leaving" /\ cstep'[c] = "gone"
      BY <1>7 DEF Unsubscribe, IInv, TypeOK
    <2>2. /\ StageOf(c)' = "closed"
          /\ StageOf(c) = "broken" \/ (StageOf(c) = "open" /\ Ended(seen[c]))
      BY <2>1 DEF StageOf
    <2> QED  BY <1>1, <1>3, <1>4, <2>2, OnlyOne, FeedMoves DEF Stages, Shown
  <1>8. CASE Subscribe(c) \/ Open(c)
    <2>1. /\ cstep[c] \in {"read", "subscribed"}
          /\ cstep'[c] \in {"subscribed", "loop", "leaving"}
          /\ cstep'[c] = "leaving" => Ended(seen[c])
      BY <1>8 DEF Subscribe, Open, IInv, TypeOK
    <2>2. StageOf(c)' = StageOf(c)
      BY <1>1, <2>1 DEF StageOf, Ended
    <2> QED  BY <1>5, <2>2
  <1> QED  BY <1>5, <1>6, <1>7, <1>8

\* For any number of clients and cancels, the hub with its channels, displaced
\* snapshots and handlers is the feed that its clients are promised (stream.go,
\* handler/workflow_execution.go): no step shows a client an earlier state of
\* the run than the one it saw last, or anything after an ending.
THEOREM HubImplementsFeed == Spec => ImplementsFeed
PROOF
  <1>1. Init => FD!Init
    BY InitIsFeed
  <1>2. IInv /\ FeedInv /\ [Next]_vars => [FD!Next]_(FD!feedVars)
    <2> SUFFICES ASSUME IInv, FeedInv, [Next]_vars PROVE [FD!Next]_(FD!feedVars)
      OBVIOUS
    <2>1. CASE RunPublishes \/ (\E q \in Cancels : CancelPublishes(q))
                 \/ (\E p \in Publishers : Publish(p))
      BY <2>1, PublishingIsFeed DEF FD!Next
    <2>2. CASE \E c \in Connections : Read(c) \/ Handle(c) \/ HangUp(c)
      BY <2>2, ReadingIsFeed, ReceivingIsFeed, LeavingIsFeed DEF Handle, FD!Next
    <2>3. CASE UNCHANGED vars
      <3>1. snap' = snap /\ seen' = seen /\ cstep' = cstep
        BY <2>3 DEF vars, publishing, connections
      <3>2. Stages' = Stages /\ Shown' = Shown
        BY <3>1 DEF Stages, Shown, StageOf, ShownTo, Ended
      <3> QED  BY <3>1, <3>2, FeedMoves
    <2> QED  BY <2>1, <2>2, <2>3 DEF Next
  <1>3. Spec => []FeedInv
    BY InitFeedInv, StepKeepsFeedInv, Inductive, PTL DEF Spec
  <1> QED  BY <1>1, <1>2, <1>3, Inductive, PTL DEF Spec, ImplementsFeed, FD!Spec

=============================================================================
