------------------------ MODULE ExecutionServiceProofs ------------------------
(***************************************************************************)
(* Theorems about ExecutionService, for any workflow length, any number of *)
(* racing resumes and cancels, and any number of lost saves and crashes.   *)
(***************************************************************************)
EXTENDS ExecutionService, TLAPS

-----------------------------------------------------------------------------
(* The life cycle. *)

\* The automaton of StatusFromLifecycleEvents stays within its states.
LEMMA LifeStepType ==
    ASSUME NEW life \in LifeState, NEW event \in LifeEvent
    PROVE  LifeStep(life, event) \in LifeState
  BY DEF LifeStep

\* The status derived from a state is one an execution can have.
LEMMA StatusOfType ==
    ASSUME NEW life \in LifeState
    PROVE  StatusOf(life) \in ExecutionStatus
  BY DEF StatusOf, ExecutionStatus, LifeState

\* Where the events the service appends lead from the states it appends them in.
LEMMA LifeStepValues ==
    /\ LifeStep("idle", "BEGIN") = "running"
    /\ LifeStep("waiting_input", "RESUME") = "running"
    /\ LifeStep("running", "FAIL") = "failed"
    /\ LifeStep("running", "WAIT_INPUT") = "waiting_input"
    /\ LifeStep("running", "COMPLETE") = "completed"
  BY DEF LifeStep, LifeEdges, LifeState

-----------------------------------------------------------------------------
(* The inductive invariant. *)

\* A snapshot's status is that of its life cycle, except that Cancel forces it.
Coherent(x) == x.status \in {x.life, "cancelled"}

\* The copy a process holds is what its step implies.
HeldFits(p) ==
    /\ step[p] \in Underway => held[p] \in Snapshot /\ Coherent(held[p])
    /\ step[p] \in {"published", "prepared", "marked", "loop", "execute"} =>
          held[p].life = "running" /\ held[p].status = "running"
    /\ step[p] \in {"result", "unmark"} => held[p].status # "running"
    /\ step[p] = "execute" => held[p].done < Length

CopiesFit == \A p \in Requests : HeldFits(p)

\* Which steps each kind of request goes through.
StepsFit ==
    /\ step[Starter] \notin {"prepared", "marked", "read"}
    /\ \A r \in Resumes : step[r] \notin {"published", "read"}
    /\ \A c \in Cancels : step[c] \in {"new", "read", "done", "dead"}

\* Before the execution is started there is nothing to work on.
NothingBeforeStart ==
    step[Starter] = "new" => stored = Absent /\ \A p \in Requests : step[p] = "new"

\* The mark is held from the claim to the very end.
Owning == Working \cup {"marked"}

OwnersMarked == \A p \in Launchers : step[p] \in Owning => inFlight

\* Once its goroutine has published the result, the execution is not running.
ResultPublished ==
    crashes = 0 /\ lostSaves = 0 =>
        \A p \in Launchers : step[p] = "unmark" => StoredStatus # "running"

IInv ==
    /\ TypeOK
    /\ stored # Absent => Coherent(stored)
    /\ CopiesFit
    /\ StepsFit
    /\ NothingBeforeStart
    /\ OwnersMarked
    /\ SingleWorker
    /\ ResultPublished
    /\ RunningHasOwner

\* What a process that has not been overtaken knows of the row: for the last
\* theorem only.
Knows(p) ==
    /\ step[p] \in {"read", "published"} => stored = held[p]
    /\ step[p] \in {"prepared", "marked"} => StoredStatus = "waiting_input"
    /\ step[p] \in {"loop", "execute"} => StoredStatus = "running"
    /\ step[p] = "result" => StoredStatus \in {"running", held[p].status}

FreshKnow == \A p \in Requests : step[p] \in Underway /\ ~ stale[p] => Knows(p)

-----------------------------------------------------------------------------
(* What the operations on snapshots and on the store yield. *)

\* What buildExecution makes is a running snapshot.
LEMMA FreshFits ==
    Fresh \in Snapshot /\ Fresh.life = "running" /\ Fresh.status = "running"
  BY ServiceAssumption, LifeStepValues
  DEF Fresh, Snapshot, ExecutionStatus, LifeState, ServiceAssumption

\* Appending an event keeps status and life cycle of a snapshot together.
LEMMA RecordFits ==
    ASSUME NEW x \in Snapshot, NEW event \in LifeEvent, LifeStep(x.life, event) # "idle"
    PROVE  /\ Record(x, event) \in Snapshot
           /\ Record(x, event).life = LifeStep(x.life, event)
           /\ Record(x, event).status = LifeStep(x.life, event)
           /\ Record(x, event).done = x.done
           /\ Coherent(Record(x, event))
<1> DEFINE to == LifeStep(x.life, event)
<1>1. to \in LifeState
  BY LifeStepType DEF Snapshot
<1>2. StatusOf(to) = to /\ to \in ExecutionStatus
  BY <1>1 DEF StatusOf, ExecutionStatus
<1> HIDE DEF to
<1>3. x = [status |-> x.status, life |-> x.life, done |-> x.done, waiting |-> x.waiting]
  BY DEF Snapshot
<1>4. Record(x, event) = [x EXCEPT !.life = to, !.status = to]
  BY <1>2 DEF Record, to
<1>5. Record(x, event) = [status |-> to, life |-> to, done |-> x.done, waiting |-> x.waiting]
  BY <1>3, <1>4
<1> QED
  BY <1>1, <1>2, <1>5 DEF Snapshot, Coherent, to

\* Setting WaitingInput changes nothing else.
LEMMA WaitingFits ==
    ASSUME NEW x \in Snapshot, NEW n \in 0 .. Length
    PROVE  /\ [x EXCEPT !.waiting = n] \in Snapshot
           /\ [x EXCEPT !.waiting = n].life = x.life
           /\ [x EXCEPT !.waiting = n].status = x.status
           /\ [x EXCEPT !.waiting = n].done = x.done
  BY DEF Snapshot

\* One more node fits as long as one is left.
LEMMA DoneFits ==
    ASSUME NEW x \in Snapshot, x.done < Length
    PROVE  /\ [x EXCEPT !.done = x.done + 1] \in Snapshot
           /\ [x EXCEPT !.done = x.done + 1].life = x.life
           /\ [x EXCEPT !.done = x.done + 1].status = x.status
  BY ServiceAssumption DEF Snapshot, ServiceAssumption

\* Cancel's copy is coherent although its status is forced.
LEMMA CancelFits ==
    ASSUME NEW x \in Snapshot
    PROVE  LET y == [x EXCEPT !.life = LifeStep(x.life, "CANCEL"), !.status = "cancelled"]
           IN  y \in Snapshot /\ y.status = "cancelled" /\ Coherent(y)
<1>1. LifeStep(x.life, "CANCEL") \in LifeState
  <2>1. x.life \in LifeState /\ "CANCEL" \in LifeEvent
    BY DEF Snapshot, LifeEvent
  <2> QED
    BY <2>1, LifeStepType
<1> QED
  BY <1>1 DEF Snapshot, Coherent, ExecutionStatus, LifeState

\* The numbers in a snapshot are within bounds, and it is not `Absent`.
LEMMA SnapshotNumbers ==
    ASSUME NEW x \in Snapshot
    PROVE  x.done \in 0 .. Length /\ x.waiting \in 0 .. Length /\ x # Absent
  BY ServiceAssumption DEF Snapshot, ServiceAssumption

\* A save takes effect or is counted as lost.
LEMMA PublishFits ==
    ASSUME TypeOK, NEW p \in Requests, NEW x \in Snapshot, Publish(p, x)
    PROVE  /\ stored' \in {stored, x}
           /\ stored' \in Snapshot \cup {Absent}
           /\ lostSaves' \in 0 .. MaxLostSaves
           /\ lostSaves' = 0 => lostSaves = 0 /\ stored' = x
           /\ stale' \in [Requests -> BOOLEAN]
<1>1. stale' \in [Requests -> BOOLEAN]
  <2>1. CASE stale' = [q \in Requests |-> q # p]
    BY <2>1
  <2>2. CASE stale' = [stale EXCEPT ![p] = TRUE]
    BY <2>2 DEF TypeOK
  <2> QED
    BY <2>1, <2>2 DEF Publish
<1>2. lostSaves \in Nat /\ lostSaves \in 0 .. MaxLostSaves /\ MaxLostSaves \in Nat
  BY ServiceAssumption DEF TypeOK, ServiceAssumption
<1>3. /\ stored' \in {stored, x}
      /\ lostSaves' \in 0 .. MaxLostSaves
      /\ lostSaves' = 0 => lostSaves = 0 /\ stored' = x
  BY <1>2 DEF Publish
<1> QED
  BY <1>1, <1>3 DEF TypeOK

-----------------------------------------------------------------------------
(* The copies that the actions compute. *)

ResumedCopy == [Record(stored, "RESUME") EXCEPT !.waiting = 0]
CancelledCopy(c) ==
    [held[c] EXCEPT !.life = LifeStep(held[c].life, "CANCEL"), !.status = "cancelled"]
AdvancedCopy(w) == [held[w] EXCEPT !.done = NextNode(w)]
FailedCopy(w) == Record(held[w], "FAIL")
AskingCopy(w) == [Record(held[w], "WAIT_INPUT") EXCEPT !.waiting = NextNode(w)]
CompletedCopy(w) == Record(held[w], "COMPLETE")

\* prepareResumeExecution computes a running copy: its guard on the stored
\* status is what makes the RESUME event count.
LEMMA ResumedCopyFits ==
    ASSUME IInv, NEW r \in Resumes, ResumePrepare(r)
    PROVE  /\ ResumedCopy \in Snapshot /\ Coherent(ResumedCopy)
           /\ ResumedCopy.life = "running" /\ ResumedCopy.status = "running"
<1>1. stored \in Snapshot /\ stored.life = "waiting_input"
  BY SnapshotNumbers DEF ResumePrepare, IInv, TypeOK, Coherent
<1>2. /\ Record(stored, "RESUME") \in Snapshot
      /\ Record(stored, "RESUME").life = "running"
      /\ Record(stored, "RESUME").status = "running"
  BY <1>1, RecordFits, LifeStepValues DEF LifeEvent
<1> QED
  BY <1>2, WaitingFits, ServiceAssumption DEF ServiceAssumption, Coherent, ResumedCopy

\* Cancel publishes a cancelled copy.
LEMMA CancelledCopyFits ==
    ASSUME IInv, NEW c \in Cancels, CancelPublish(c)
    PROVE  /\ CancelledCopy(c) \in Snapshot /\ Coherent(CancelledCopy(c))
           /\ CancelledCopy(c).status = "cancelled"
  BY CancelFits
  DEF CancelPublish, IInv, CopiesFit, HeldFits, Requests, Underway, CancelledCopy

\* A node's success leaves the copy running.
LEMMA AdvancedCopyFits ==
    ASSUME IInv, NEW w \in Launchers, NodeSucceeds(w)
    PROVE  /\ AdvancedCopy(w) \in Snapshot /\ Coherent(AdvancedCopy(w))
           /\ AdvancedCopy(w).life = "running" /\ AdvancedCopy(w).status = "running"
  BY DoneFits
  DEF NodeSucceeds, NextNode, IInv, CopiesFit, HeldFits, Requests, Underway, Working,
      Coherent,
      AdvancedCopy

\* A node's failure leaves a failed copy.
LEMMA FailedCopyFits ==
    ASSUME IInv, NEW w \in Launchers, NodeFails(w)
    PROVE  /\ FailedCopy(w) \in Snapshot /\ Coherent(FailedCopy(w))
           /\ FailedCopy(w).status = "failed"
  BY RecordFits, LifeStepValues
  DEF NodeFails, IInv, CopiesFit, HeldFits, Requests, Underway, Working, LifeEvent,
      FailedCopy

\* A node that asks for input leaves a waiting copy.
LEMMA AskingCopyFits ==
    ASSUME IInv, NEW w \in Launchers, NodeAsks(w)
    PROVE  /\ AskingCopy(w) \in Snapshot /\ Coherent(AskingCopy(w))
           /\ AskingCopy(w).status = "waiting_input"
<1>1. held[w] \in Snapshot /\ held[w].life = "running" /\ NextNode(w) \in 0 .. Length
  BY SnapshotNumbers, ServiceAssumption
  DEF NodeAsks, NextNode, IInv, CopiesFit, HeldFits, Requests, Underway, Working,
      ServiceAssumption
<1>2. /\ Record(held[w], "WAIT_INPUT") \in Snapshot
      /\ Record(held[w], "WAIT_INPUT").life = "waiting_input"
      /\ Record(held[w], "WAIT_INPUT").status = "waiting_input"
  BY <1>1, RecordFits, LifeStepValues DEF LifeEvent
<1> QED
  BY <1>1, <1>2, WaitingFits DEF Coherent, AskingCopy

\* The end of the loop leaves a completed copy.
LEMMA CompletedCopyFits ==
    ASSUME IInv, NEW w \in Launchers, RunOut(w)
    PROVE  /\ CompletedCopy(w) \in Snapshot /\ Coherent(CompletedCopy(w))
           /\ CompletedCopy(w).status = "completed"
  BY RecordFits, LifeStepValues
  DEF RunOut, IInv, CopiesFit, HeldFits, Requests, Underway, Working, LifeEvent,
      CompletedCopy

-----------------------------------------------------------------------------
(* The invariant is inductive. *)

\* Every action keeps the invariant.
LEMMA StepKeepsIInv ==
    ASSUME IInv, [Next]_vars
    PROVE  IInv'
<1> USE DEF IInv, Launchers, Requests, Underway, Working, Keep, Move, NoPublish, Owning
<1>1. CASE StartPublish
  <2>1. /\ stored' \in {stored, Fresh}
        /\ stored' \in Snapshot \cup {Absent}
        /\ lostSaves' \in 0 .. MaxLostSaves
        /\ lostSaves' = 0 => lostSaves = 0 /\ stored' = Fresh
        /\ stale' \in [Requests -> BOOLEAN]
    BY <1>1, FreshFits, PublishFits DEF StartPublish
  <2>2. TypeOK'
    BY <1>1, FreshFits, <2>1, SnapshotNumbers, ServiceAssumption
    DEF StartPublish, TypeOK, Step, ServiceAssumption
  <2>3. (stored # Absent => Coherent(stored))'
    BY <1>1, FreshFits, <2>1 DEF StartPublish, Coherent
  <2>4. CopiesFit'
    BY <1>1, FreshFits, <2>1 DEF StartPublish, CopiesFit, HeldFits, TypeOK, Coherent
  <2>5. StepsFit' /\ NothingBeforeStart'
    BY <1>1, FreshFits, <2>1, ServiceAssumption
    DEF StartPublish, StepsFit, NothingBeforeStart, TypeOK, ServiceAssumption
  <2>6. OwnersMarked' /\ SingleWorker'
    BY <1>1, FreshFits, <2>1 DEF StartPublish, OwnersMarked, SingleWorker, TypeOK
  <2>7. ResultPublished' /\ RunningHasOwner'
    BY <1>1, FreshFits, <2>1, ServiceAssumption
    DEF StartPublish, ResultPublished, RunningHasOwner, StoredStatus, OwnersMarked,
        SingleWorker, CopiesFit, HeldFits, NothingBeforeStart, StepsFit, TypeOK,
        ServiceAssumption
  <2> QED
    BY <2>2, <2>3, <2>4, <2>5, <2>6, <2>7
<1>2. CASE StartLaunch
  <2>1. TypeOK'
    BY <1>2, SnapshotNumbers, ServiceAssumption
    DEF StartLaunch, TypeOK, Step, ServiceAssumption
  <2>2. (stored # Absent => Coherent(stored))'
    BY <1>2 DEF StartLaunch
  <2>3. CopiesFit'
    BY <1>2 DEF StartLaunch, CopiesFit, HeldFits, TypeOK
  <2>4. StepsFit' /\ NothingBeforeStart'
    BY <1>2, ServiceAssumption
    DEF StartLaunch, StepsFit, NothingBeforeStart, TypeOK, ServiceAssumption
  <2>5. OwnersMarked' /\ SingleWorker'
    BY <1>2 DEF StartLaunch, OwnersMarked, SingleWorker, TypeOK
  <2>6. ResultPublished' /\ RunningHasOwner'
    BY <1>2, ServiceAssumption
    DEF StartLaunch, ResultPublished, RunningHasOwner, StoredStatus, OwnersMarked,
        SingleWorker, CopiesFit, HeldFits, NothingBeforeStart, StepsFit, TypeOK,
        ServiceAssumption
  <2> QED
    BY <2>1, <2>2, <2>3, <2>4, <2>5, <2>6
<1>3. ASSUME NEW r \in Resumes, ResumePrepare(r) PROVE IInv'
  <2>1. /\ ResumedCopy \in Snapshot
        /\ Coherent(ResumedCopy)
        /\ ResumedCopy.life = "running"
        /\ ResumedCopy.status = "running"
    BY <1>3, ResumedCopyFits
  <2>2. held' = [held EXCEPT ![r] = ResumedCopy]
    BY <1>3 DEF ResumePrepare, ResumedCopy
  <2>3. TypeOK'
    BY <1>3, <2>1, <2>2, SnapshotNumbers, ServiceAssumption
    DEF ResumePrepare, TypeOK, Step, ServiceAssumption
  <2>4. (stored # Absent => Coherent(stored))'
    BY <1>3, <2>1, <2>2 DEF ResumePrepare
  <2>5. CopiesFit'
    BY <1>3, <2>1, <2>2 DEF ResumePrepare, CopiesFit, HeldFits, TypeOK
  <2>6. StepsFit' /\ NothingBeforeStart'
    BY <1>3, <2>1, <2>2, ServiceAssumption
    DEF ResumePrepare, StepsFit, NothingBeforeStart, TypeOK, ServiceAssumption
  <2>7. OwnersMarked' /\ SingleWorker'
    BY <1>3, <2>1, <2>2 DEF ResumePrepare, OwnersMarked, SingleWorker, TypeOK
  <2>8. ResultPublished' /\ RunningHasOwner'
    BY <1>3, <2>1, <2>2, ServiceAssumption
    DEF ResumePrepare, ResultPublished, RunningHasOwner, StoredStatus, OwnersMarked,
        SingleWorker, CopiesFit, HeldFits, NothingBeforeStart, StepsFit, TypeOK,
        ServiceAssumption
  <2> QED
    BY <2>3, <2>4, <2>5, <2>6, <2>7, <2>8
<1>4. ASSUME NEW r \in Resumes, ResumeMark(r) PROVE IInv'
  <2>1. TypeOK'
    BY <1>4, SnapshotNumbers, ServiceAssumption
    DEF ResumeMark, TypeOK, Step, ServiceAssumption
  <2>2. (stored # Absent => Coherent(stored))'
    BY <1>4 DEF ResumeMark
  <2>3. CopiesFit'
    BY <1>4 DEF ResumeMark, CopiesFit, HeldFits, TypeOK
  <2>4. StepsFit' /\ NothingBeforeStart'
    BY <1>4, ServiceAssumption
    DEF ResumeMark, StepsFit, NothingBeforeStart, TypeOK, ServiceAssumption
  <2>5. OwnersMarked' /\ SingleWorker'
    BY <1>4 DEF ResumeMark, OwnersMarked, SingleWorker, TypeOK
  <2>6. ResultPublished' /\ RunningHasOwner'
    BY <1>4, ServiceAssumption
    DEF ResumeMark, ResultPublished, RunningHasOwner, StoredStatus, OwnersMarked,
        SingleWorker, CopiesFit, HeldFits, NothingBeforeStart, StepsFit, TypeOK,
        ServiceAssumption
  <2> QED
    BY <2>1, <2>2, <2>3, <2>4, <2>5, <2>6
<1>5. ASSUME NEW r \in Resumes, ResumePublish(r) PROVE IInv'
  <2>1. held[r] \in Snapshot /\ Coherent(held[r])
    BY <1>5 DEF ResumePublish, CopiesFit, HeldFits
  <2>2. /\ stored' \in {stored, held[r]}
        /\ stored' \in Snapshot \cup {Absent}
        /\ lostSaves' \in 0 .. MaxLostSaves
        /\ lostSaves' = 0 => lostSaves = 0 /\ stored' = held[r]
        /\ stale' \in [Requests -> BOOLEAN]
    BY <1>5, <2>1, PublishFits DEF ResumePublish
  <2>3. TypeOK'
    BY <1>5, <2>1, <2>2, SnapshotNumbers, ServiceAssumption
    DEF ResumePublish, TypeOK, Step, ServiceAssumption
  <2>4. (stored # Absent => Coherent(stored))'
    BY <1>5, <2>1, <2>2 DEF ResumePublish
  <2>5. CopiesFit'
    BY <1>5, <2>1, <2>2 DEF ResumePublish, CopiesFit, HeldFits, TypeOK
  <2>6. StepsFit' /\ NothingBeforeStart'
    BY <1>5, <2>1, <2>2, ServiceAssumption
    DEF ResumePublish, StepsFit, NothingBeforeStart, TypeOK, ServiceAssumption
  <2>7. OwnersMarked' /\ SingleWorker'
    BY <1>5, <2>1, <2>2 DEF ResumePublish, OwnersMarked, SingleWorker, TypeOK
  <2>8. ResultPublished' /\ RunningHasOwner'
    BY <1>5, <2>1, <2>2, ServiceAssumption
    DEF ResumePublish, ResultPublished, RunningHasOwner, StoredStatus, OwnersMarked,
        SingleWorker, CopiesFit, HeldFits, NothingBeforeStart, StepsFit, TypeOK,
        ServiceAssumption
  <2> QED
    BY <2>3, <2>4, <2>5, <2>6, <2>7, <2>8
<1>6. ASSUME NEW c \in Cancels, CancelRead(c) PROVE IInv'
  <2>1. TypeOK'
    BY <1>6, SnapshotNumbers, ServiceAssumption
    DEF CancelRead, TypeOK, Step, ServiceAssumption
  <2>2. (stored # Absent => Coherent(stored))'
    BY <1>6 DEF CancelRead
  <2>3. CopiesFit'
    BY <1>6 DEF CancelRead, CopiesFit, HeldFits, TypeOK
  <2>4. StepsFit' /\ NothingBeforeStart'
    BY <1>6, ServiceAssumption
    DEF CancelRead, StepsFit, NothingBeforeStart, TypeOK, ServiceAssumption
  <2>5. OwnersMarked' /\ SingleWorker'
    BY <1>6 DEF CancelRead, OwnersMarked, SingleWorker, TypeOK
  <2>6. ResultPublished' /\ RunningHasOwner'
    BY <1>6, ServiceAssumption
    DEF CancelRead, ResultPublished, RunningHasOwner, StoredStatus, OwnersMarked,
        SingleWorker, CopiesFit, HeldFits, NothingBeforeStart, StepsFit, TypeOK,
        ServiceAssumption
  <2> QED
    BY <2>1, <2>2, <2>3, <2>4, <2>5, <2>6
<1>7. ASSUME NEW c \in Cancels, CancelPublish(c) PROVE IInv'
  <2>1. /\ CancelledCopy(c) \in Snapshot
        /\ Coherent(CancelledCopy(c))
        /\ CancelledCopy(c).status = "cancelled"
    BY <1>7, CancelledCopyFits
  <2>2. /\ stored' \in {stored, CancelledCopy(c)}
        /\ stored' \in Snapshot \cup {Absent}
        /\ lostSaves' \in 0 .. MaxLostSaves
        /\ lostSaves' = 0 => lostSaves = 0 /\ stored' = CancelledCopy(c)
        /\ stale' \in [Requests -> BOOLEAN]
    BY <1>7, <2>1, PublishFits DEF CancelPublish, CancelledCopy
  <2>3. TypeOK'
    BY <1>7, <2>1, <2>2, SnapshotNumbers, ServiceAssumption
    DEF CancelPublish, TypeOK, Step, ServiceAssumption
  <2>4. (stored # Absent => Coherent(stored))'
    BY <1>7, <2>1, <2>2 DEF CancelPublish
  <2>5. CopiesFit'
    BY <1>7, <2>1, <2>2 DEF CancelPublish, CopiesFit, HeldFits, TypeOK
  <2>6. StepsFit' /\ NothingBeforeStart'
    BY <1>7, <2>1, <2>2, ServiceAssumption
    DEF CancelPublish, StepsFit, NothingBeforeStart, TypeOK, ServiceAssumption
  <2>7. OwnersMarked' /\ SingleWorker'
    BY <1>7, <2>1, <2>2 DEF CancelPublish, OwnersMarked, SingleWorker, TypeOK
  <2>8. ResultPublished' /\ RunningHasOwner'
    BY <1>7, <2>1, <2>2, ServiceAssumption
    DEF CancelPublish, ResultPublished, RunningHasOwner, StoredStatus, OwnersMarked,
        SingleWorker, CopiesFit, HeldFits, NothingBeforeStart, StepsFit, TypeOK,
        ServiceAssumption
  <2> QED
    BY <2>3, <2>4, <2>5, <2>6, <2>7, <2>8
<1>8. ASSUME NEW w \in Launchers, BeginNode(w) PROVE IInv'
  <2>1. held[w] \in Snapshot /\ Coherent(held[w])
    BY <1>8 DEF BeginNode, CopiesFit, HeldFits
  <2>2. /\ stored' \in {stored, held[w]}
        /\ stored' \in Snapshot \cup {Absent}
        /\ lostSaves' \in 0 .. MaxLostSaves
        /\ lostSaves' = 0 => lostSaves = 0 /\ stored' = held[w]
        /\ stale' \in [Requests -> BOOLEAN]
    BY <1>8, <2>1, PublishFits DEF BeginNode
  <2>3. TypeOK'
    BY <1>8, <2>1, <2>2, SnapshotNumbers, ServiceAssumption
    DEF BeginNode, TypeOK, Step, ServiceAssumption
  <2>4. (stored # Absent => Coherent(stored))'
    BY <1>8, <2>1, <2>2 DEF BeginNode
  <2>5. CopiesFit'
    BY <1>8, <2>1, <2>2 DEF BeginNode, CopiesFit, HeldFits, TypeOK
  <2>6. StepsFit' /\ NothingBeforeStart'
    BY <1>8, <2>1, <2>2, ServiceAssumption
    DEF BeginNode, StepsFit, NothingBeforeStart, TypeOK, ServiceAssumption
  <2>7. OwnersMarked' /\ SingleWorker'
    BY <1>8, <2>1, <2>2 DEF BeginNode, OwnersMarked, SingleWorker, TypeOK
  <2>8. ResultPublished' /\ RunningHasOwner'
    BY <1>8, <2>1, <2>2, ServiceAssumption
    DEF BeginNode, ResultPublished, RunningHasOwner, StoredStatus, OwnersMarked,
        SingleWorker, CopiesFit, HeldFits, NothingBeforeStart, StepsFit, TypeOK,
        ServiceAssumption
  <2> QED
    BY <2>3, <2>4, <2>5, <2>6, <2>7, <2>8
<1>9. ASSUME NEW w \in Launchers, NodeSucceeds(w) PROVE IInv'
  <2>1. /\ AdvancedCopy(w) \in Snapshot
        /\ Coherent(AdvancedCopy(w))
        /\ AdvancedCopy(w).life = "running"
        /\ AdvancedCopy(w).status = "running"
    BY <1>9, AdvancedCopyFits
  <2>2. /\ stored' \in {stored, AdvancedCopy(w)}
        /\ stored' \in Snapshot \cup {Absent}
        /\ lostSaves' \in 0 .. MaxLostSaves
        /\ lostSaves' = 0 => lostSaves = 0 /\ stored' = AdvancedCopy(w)
        /\ stale' \in [Requests -> BOOLEAN]
    BY <1>9, <2>1, PublishFits DEF NodeSucceeds, Outcome, AdvancedCopy
  <2>3. held' = [held EXCEPT ![w] = AdvancedCopy(w)]
    BY <1>9 DEF NodeSucceeds, Outcome, AdvancedCopy
  <2>4. TypeOK'
    BY <1>9, <2>1, <2>2, <2>3, SnapshotNumbers, ServiceAssumption
    DEF NodeSucceeds, Outcome, TypeOK, Step, ServiceAssumption
  <2>5. (stored # Absent => Coherent(stored))'
    BY <1>9, <2>1, <2>2, <2>3 DEF NodeSucceeds, Outcome
  <2>6. CopiesFit'
    BY <1>9, <2>1, <2>2, <2>3 DEF NodeSucceeds, Outcome, CopiesFit, HeldFits, TypeOK
  <2>7. StepsFit' /\ NothingBeforeStart'
    BY <1>9, <2>1, <2>2, <2>3, ServiceAssumption
    DEF NodeSucceeds, Outcome, StepsFit, NothingBeforeStart, TypeOK, ServiceAssumption
  <2>8. OwnersMarked' /\ SingleWorker'
    BY <1>9, <2>1, <2>2, <2>3
    DEF NodeSucceeds, Outcome, OwnersMarked, SingleWorker, TypeOK
  <2>9. ResultPublished' /\ RunningHasOwner'
    BY <1>9, <2>1, <2>2, <2>3, ServiceAssumption
    DEF NodeSucceeds, Outcome, ResultPublished, RunningHasOwner, StoredStatus,
        OwnersMarked, SingleWorker, CopiesFit, HeldFits, NothingBeforeStart, StepsFit,
        TypeOK, ServiceAssumption
  <2> QED
    BY <2>4, <2>5, <2>6, <2>7, <2>8, <2>9
<1>10. ASSUME NEW w \in Launchers, NodeFails(w) PROVE IInv'
  <2>1. /\ FailedCopy(w) \in Snapshot
        /\ Coherent(FailedCopy(w))
        /\ FailedCopy(w).status = "failed"
    BY <1>10, FailedCopyFits
  <2>2. /\ stored' \in {stored, FailedCopy(w)}
        /\ stored' \in Snapshot \cup {Absent}
        /\ lostSaves' \in 0 .. MaxLostSaves
        /\ lostSaves' = 0 => lostSaves = 0 /\ stored' = FailedCopy(w)
        /\ stale' \in [Requests -> BOOLEAN]
    BY <1>10, <2>1, PublishFits DEF NodeFails, Outcome, FailedCopy
  <2>3. held' = [held EXCEPT ![w] = FailedCopy(w)]
    BY <1>10 DEF NodeFails, Outcome, FailedCopy
  <2>4. TypeOK'
    BY <1>10, <2>1, <2>2, <2>3, SnapshotNumbers, ServiceAssumption
    DEF NodeFails, Outcome, TypeOK, Step, ServiceAssumption
  <2>5. (stored # Absent => Coherent(stored))'
    BY <1>10, <2>1, <2>2, <2>3 DEF NodeFails, Outcome
  <2>6. CopiesFit'
    BY <1>10, <2>1, <2>2, <2>3 DEF NodeFails, Outcome, CopiesFit, HeldFits, TypeOK
  <2>7. StepsFit' /\ NothingBeforeStart'
    BY <1>10, <2>1, <2>2, <2>3, ServiceAssumption
    DEF NodeFails, Outcome, StepsFit, NothingBeforeStart, TypeOK, ServiceAssumption
  <2>8. OwnersMarked' /\ SingleWorker'
    BY <1>10, <2>1, <2>2, <2>3
    DEF NodeFails, Outcome, OwnersMarked, SingleWorker, TypeOK
  <2>9. ResultPublished' /\ RunningHasOwner'
    BY <1>10, <2>1, <2>2, <2>3, ServiceAssumption
    DEF NodeFails, Outcome, ResultPublished, RunningHasOwner, StoredStatus,
        OwnersMarked, SingleWorker, CopiesFit, HeldFits, NothingBeforeStart, StepsFit,
        TypeOK, ServiceAssumption
  <2> QED
    BY <2>4, <2>5, <2>6, <2>7, <2>8, <2>9
<1>11. ASSUME NEW w \in Launchers, NodeAsks(w) PROVE IInv'
  <2>1. /\ AskingCopy(w) \in Snapshot
        /\ Coherent(AskingCopy(w))
        /\ AskingCopy(w).status = "waiting_input"
    BY <1>11, AskingCopyFits
  <2>2. /\ stored' \in {stored, AskingCopy(w)}
        /\ stored' \in Snapshot \cup {Absent}
        /\ lostSaves' \in 0 .. MaxLostSaves
        /\ lostSaves' = 0 => lostSaves = 0 /\ stored' = AskingCopy(w)
        /\ stale' \in [Requests -> BOOLEAN]
    BY <1>11, <2>1, PublishFits DEF NodeAsks, Outcome, AskingCopy
  <2>3. held' = [held EXCEPT ![w] = AskingCopy(w)]
    BY <1>11 DEF NodeAsks, Outcome, AskingCopy
  <2>4. TypeOK'
    BY <1>11, <2>1, <2>2, <2>3, SnapshotNumbers, ServiceAssumption
    DEF NodeAsks, Outcome, TypeOK, Step, ServiceAssumption
  <2>5. (stored # Absent => Coherent(stored))'
    BY <1>11, <2>1, <2>2, <2>3 DEF NodeAsks, Outcome
  <2>6. CopiesFit'
    BY <1>11, <2>1, <2>2, <2>3 DEF NodeAsks, Outcome, CopiesFit, HeldFits, TypeOK
  <2>7. StepsFit' /\ NothingBeforeStart'
    BY <1>11, <2>1, <2>2, <2>3, ServiceAssumption
    DEF NodeAsks, Outcome, StepsFit, NothingBeforeStart, TypeOK, ServiceAssumption
  <2>8. OwnersMarked' /\ SingleWorker'
    BY <1>11, <2>1, <2>2, <2>3 DEF NodeAsks, Outcome, OwnersMarked, SingleWorker, TypeOK
  <2>9. ResultPublished' /\ RunningHasOwner'
    BY <1>11, <2>1, <2>2, <2>3, ServiceAssumption
    DEF NodeAsks, Outcome, ResultPublished, RunningHasOwner, StoredStatus,
        OwnersMarked, SingleWorker, CopiesFit, HeldFits, NothingBeforeStart, StepsFit,
        TypeOK, ServiceAssumption
  <2> QED
    BY <2>4, <2>5, <2>6, <2>7, <2>8, <2>9
<1>12. ASSUME NEW w \in Launchers, RunOut(w) PROVE IInv'
  <2>1. /\ CompletedCopy(w) \in Snapshot
        /\ Coherent(CompletedCopy(w))
        /\ CompletedCopy(w).status = "completed"
    BY <1>12, CompletedCopyFits
  <2>2. held' = [held EXCEPT ![w] = CompletedCopy(w)]
    BY <1>12 DEF RunOut, CompletedCopy
  <2>3. TypeOK'
    BY <1>12, <2>1, <2>2, SnapshotNumbers, ServiceAssumption
    DEF RunOut, TypeOK, Step, ServiceAssumption
  <2>4. (stored # Absent => Coherent(stored))'
    BY <1>12, <2>1, <2>2 DEF RunOut
  <2>5. CopiesFit'
    BY <1>12, <2>1, <2>2 DEF RunOut, CopiesFit, HeldFits, TypeOK
  <2>6. StepsFit' /\ NothingBeforeStart'
    BY <1>12, <2>1, <2>2, ServiceAssumption
    DEF RunOut, StepsFit, NothingBeforeStart, TypeOK, ServiceAssumption
  <2>7. OwnersMarked' /\ SingleWorker'
    BY <1>12, <2>1, <2>2 DEF RunOut, OwnersMarked, SingleWorker, TypeOK
  <2>8. ResultPublished' /\ RunningHasOwner'
    BY <1>12, <2>1, <2>2, ServiceAssumption
    DEF RunOut, ResultPublished, RunningHasOwner, StoredStatus, OwnersMarked,
        SingleWorker, CopiesFit, HeldFits, NothingBeforeStart, StepsFit, TypeOK,
        ServiceAssumption
  <2> QED
    BY <2>3, <2>4, <2>5, <2>6, <2>7, <2>8
<1>13. ASSUME NEW w \in Launchers, PublishResult(w) PROVE IInv'
  <2>1. held[w] \in Snapshot /\ Coherent(held[w])
    BY <1>13 DEF PublishResult, CopiesFit, HeldFits
  <2>2. /\ stored' \in {stored, held[w]}
        /\ stored' \in Snapshot \cup {Absent}
        /\ lostSaves' \in 0 .. MaxLostSaves
        /\ lostSaves' = 0 => lostSaves = 0 /\ stored' = held[w]
        /\ stale' \in [Requests -> BOOLEAN]
    BY <1>13, <2>1, PublishFits DEF PublishResult
  <2>3. TypeOK'
    BY <1>13, <2>1, <2>2, SnapshotNumbers, ServiceAssumption
    DEF PublishResult, TypeOK, Step, ServiceAssumption
  <2>4. (stored # Absent => Coherent(stored))'
    BY <1>13, <2>1, <2>2 DEF PublishResult
  <2>5. CopiesFit'
    BY <1>13, <2>1, <2>2 DEF PublishResult, CopiesFit, HeldFits, TypeOK
  <2>6. StepsFit' /\ NothingBeforeStart'
    BY <1>13, <2>1, <2>2, ServiceAssumption
    DEF PublishResult, StepsFit, NothingBeforeStart, TypeOK, ServiceAssumption
  <2>7. OwnersMarked' /\ SingleWorker'
    BY <1>13, <2>1, <2>2 DEF PublishResult, OwnersMarked, SingleWorker, TypeOK
  <2>8. ResultPublished' /\ RunningHasOwner'
    BY <1>13, <2>1, <2>2, ServiceAssumption
    DEF PublishResult, ResultPublished, RunningHasOwner, StoredStatus, OwnersMarked,
        SingleWorker, CopiesFit, HeldFits, NothingBeforeStart, StepsFit, TypeOK,
        ServiceAssumption
  <2> QED
    BY <2>3, <2>4, <2>5, <2>6, <2>7, <2>8
<1>14. ASSUME NEW w \in Launchers, Unmark(w) PROVE IInv'
  <2>1. TypeOK'
    BY <1>14, SnapshotNumbers, ServiceAssumption
    DEF Unmark, TypeOK, Step, ServiceAssumption
  <2>2. (stored # Absent => Coherent(stored))'
    BY <1>14 DEF Unmark
  <2>3. CopiesFit'
    BY <1>14 DEF Unmark, CopiesFit, HeldFits, TypeOK
  <2>4. StepsFit' /\ NothingBeforeStart'
    BY <1>14, ServiceAssumption
    DEF Unmark, StepsFit, NothingBeforeStart, TypeOK, ServiceAssumption
  <2>5. OwnersMarked' /\ SingleWorker'
    BY <1>14 DEF Unmark, OwnersMarked, SingleWorker, TypeOK
  <2>6. ResultPublished' /\ RunningHasOwner'
    BY <1>14, ServiceAssumption
    DEF Unmark, ResultPublished, RunningHasOwner, StoredStatus, OwnersMarked,
        SingleWorker, CopiesFit, HeldFits, NothingBeforeStart, StepsFit, TypeOK,
        ServiceAssumption
  <2> QED
    BY <2>1, <2>2, <2>3, <2>4, <2>5, <2>6
<1>15. CASE Crash
  <2>1. step' \in [Requests -> Step]
    BY <1>15 DEF Crash, TypeOK, Step
  <2>2. crashes' \in 0 .. MaxCrashes /\ crashes' # 0
    BY <1>15, ServiceAssumption DEF Crash, TypeOK, ServiceAssumption
  <2>3. TypeOK'
    BY <1>15, <2>1, <2>2 DEF Crash, TypeOK
  <2>4. (stored # Absent => Coherent(stored))'
    BY <1>15, <2>1, <2>2 DEF Crash
  <2>5. CopiesFit'
    BY <1>15, <2>1, <2>2 DEF Crash, CopiesFit, HeldFits, TypeOK
  <2>6. StepsFit' /\ NothingBeforeStart'
    BY <1>15, <2>1, <2>2, ServiceAssumption
    DEF Crash, StepsFit, NothingBeforeStart, TypeOK, ServiceAssumption
  <2>7. OwnersMarked' /\ SingleWorker'
    BY <1>15, <2>1, <2>2 DEF Crash, OwnersMarked, SingleWorker, TypeOK
  <2>8. ResultPublished' /\ RunningHasOwner'
    BY <1>15, <2>1, <2>2, ServiceAssumption
    DEF Crash, ResultPublished, RunningHasOwner, StoredStatus, OwnersMarked,
        SingleWorker, CopiesFit, HeldFits, NothingBeforeStart, StepsFit, TypeOK,
        ServiceAssumption
  <2> QED
    BY <2>3, <2>4, <2>5, <2>6, <2>7, <2>8
<1>16. CASE UNCHANGED vars
  BY <1>16
  DEF vars, TypeOK, StoredStatus, CopiesFit, HeldFits, Coherent, StepsFit,
      NothingBeforeStart, OwnersMarked, SingleWorker, ResultPublished, RunningHasOwner
<1> QED
  BY <1>1, <1>2, <1>3, <1>4, <1>5, <1>6, <1>7, <1>8, <1>9, <1>10, <1>11, <1>12, <1>13,
     <1>14, <1>15, <1>16
  DEF Next, Start, Resume, Cancel, Segment

\* It holds before the execution is started.
LEMMA InitIInv == Init => IInv
<1> SUFFICES ASSUME Init PROVE IInv
  OBVIOUS
<1>1. TypeOK
  <2>1. /\ lostSaves \in 0 .. MaxLostSaves
        /\ crashes \in 0 .. MaxCrashes
        /\ 0 \in 0 .. Length
    BY ServiceAssumption DEF Init, ServiceAssumption
  <2> QED
    BY <2>1 DEF Init, TypeOK, Step
<1>2. CopiesFit /\ StepsFit /\ NothingBeforeStart /\ OwnersMarked /\ SingleWorker
  BY DEF Init, CopiesFit, HeldFits, Underway, Working, StepsFit, NothingBeforeStart,
         OwnersMarked, Owning, SingleWorker, Launchers, Requests
<1>3. ResultPublished /\ RunningHasOwner
  BY DEF Init, ResultPublished, RunningHasOwner, Launchers, Requests
<1> QED
  BY <1>1, <1>2, <1>3 DEF IInv, Init

\* So it holds always.
LEMMA Invariance == Spec => []IInv
  BY InitIInv, StepKeepsIInv, PTL DEF Spec

-----------------------------------------------------------------------------
(* What a process that has not been overtaken knows of the row. *)

\* A save that takes effect leaves every other copy stale; one that is lost
\* leaves the writer's own stale.
LEMMA PublishStales ==
    ASSUME TypeOK, NEW p \in Requests, NEW x, Publish(p, x), NEW q \in Requests, ~ stale'[q]
    PROVE  /\ q = p => stored' = x
           /\ q # p => stored' = stored /\ ~ stale[q]
<1>1. CASE stored' = x /\ stale' = [r \in Requests |-> r # p]
  BY <1>1
<1>2. CASE stored' = stored /\ stale' = [stale EXCEPT ![p] = TRUE]
  BY <1>2 DEF TypeOK
<1> QED
  BY <1>1, <1>2 DEF Publish

\* A process that is not overtaken by a step goes on knowing the row.
LEMMA OthersStillKnow ==
    ASSUME FreshKnow, NEW q \in Requests, step'[q] \in Underway, ~ stale[q], stored' = stored,
           step'[q] = step[q], held'[q] = held[q]
    PROVE  Knows(q)'
  BY DEF FreshKnow, Knows, StoredStatus

\* Every action keeps what processes know that have not been overtaken.
LEMMA StepKeepsFreshKnow ==
    ASSUME IInv, FreshKnow, [Next]_vars
    PROVE  FreshKnow'
<1> USE DEF Launchers, Requests, Underway, Working, Keep, Move, NoPublish
<1>1. CASE StartPublish
  <2>1. Publish(Starter, Fresh)
    BY <1>1 DEF StartPublish
  <2>2. SUFFICES ASSUME NEW q \in Requests, step'[q] \in Underway, ~ stale'[q]
                 PROVE  Knows(q)'
    BY DEF FreshKnow
  <2>3. CASE q = Starter
    <3>1. stored' = Fresh
      BY <2>1, <2>2, <2>3, PublishStales DEF IInv
    <3> QED
      BY <1>1, <2>2, <2>3, <3>1, IInv, SnapshotNumbers, FreshFits
      DEF StartPublish, Knows, StoredStatus, IInv, TypeOK, CopiesFit, HeldFits
  <2>4. CASE q # Starter
    <3>1. stored' = stored /\ ~ stale[q]
      BY <2>1, <2>2, <2>4, PublishStales DEF IInv
    <3>2. step'[q] = step[q] /\ held'[q] = held[q]
      BY <1>1, <2>4, IInv DEF StartPublish, IInv, TypeOK
    <3> QED
      BY <2>2, <3>1, <3>2, FreshKnow, OthersStillKnow
  <2> QED
    BY <2>3, <2>4
<1>2. CASE StartLaunch
  BY <1>2, IInv, FreshKnow, SnapshotNumbers, ServiceAssumption
  DEF StartLaunch, FreshKnow, Knows, StoredStatus, IInv, TypeOK, CopiesFit, HeldFits,
      ServiceAssumption
<1>3. ASSUME NEW r \in Resumes, ResumePrepare(r) PROVE FreshKnow'
  BY <1>3, IInv, FreshKnow, SnapshotNumbers, ServiceAssumption
  DEF ResumePrepare, FreshKnow, Knows, StoredStatus, IInv, TypeOK, CopiesFit, HeldFits,
      ServiceAssumption
<1>4. ASSUME NEW r \in Resumes, ResumeMark(r) PROVE FreshKnow'
  BY <1>4, IInv, FreshKnow, SnapshotNumbers, ServiceAssumption
  DEF ResumeMark, FreshKnow, Knows, StoredStatus, IInv, TypeOK, CopiesFit, HeldFits,
      ServiceAssumption
<1>5. ASSUME NEW r \in Resumes, ResumePublish(r) PROVE FreshKnow'
  <2>1. Publish(r, held[r])
    BY <1>5 DEF ResumePublish
  <2>2. SUFFICES ASSUME NEW q \in Requests, step'[q] \in Underway, ~ stale'[q]
                 PROVE  Knows(q)'
    BY DEF FreshKnow
  <2>3. CASE q = r
    <3>1. stored' = held[r]
      BY <2>1, <2>2, <2>3, PublishStales DEF IInv
    <3> QED
      BY <1>5, <2>2, <2>3, <3>1, IInv, SnapshotNumbers
      DEF ResumePublish, Knows, StoredStatus, IInv, TypeOK, CopiesFit, HeldFits
  <2>4. CASE q # r
    <3>1. stored' = stored /\ ~ stale[q]
      BY <2>1, <2>2, <2>4, PublishStales DEF IInv
    <3>2. step'[q] = step[q] /\ held'[q] = held[q]
      BY <1>5, <2>4, IInv DEF ResumePublish, IInv, TypeOK
    <3> QED
      BY <2>2, <3>1, <3>2, FreshKnow, OthersStillKnow
  <2> QED
    BY <2>3, <2>4
<1>6. ASSUME NEW c \in Cancels, CancelRead(c) PROVE FreshKnow'
  BY <1>6, IInv, FreshKnow, SnapshotNumbers, ServiceAssumption
  DEF CancelRead, FreshKnow, Knows, StoredStatus, IInv, TypeOK, CopiesFit, HeldFits,
      ServiceAssumption
<1>7. ASSUME NEW c \in Cancels, CancelPublish(c) PROVE FreshKnow'
  <2>1. Publish(c, CancelledCopy(c))
    BY <1>7 DEF CancelPublish, CancelledCopy
  <2>2. SUFFICES ASSUME NEW q \in Requests, step'[q] \in Underway, ~ stale'[q]
                 PROVE  Knows(q)'
    BY DEF FreshKnow
  <2>3. CASE q = c
    <3>1. stored' = CancelledCopy(c)
      BY <2>1, <2>2, <2>3, PublishStales DEF IInv
    <3> QED
      BY <1>7, <2>2, <2>3, <3>1, IInv, SnapshotNumbers, CancelledCopyFits
      DEF CancelPublish, CancelledCopy, Knows, StoredStatus, IInv, TypeOK, CopiesFit,
          HeldFits
  <2>4. CASE q # c
    <3>1. stored' = stored /\ ~ stale[q]
      BY <2>1, <2>2, <2>4, PublishStales DEF IInv
    <3>2. step'[q] = step[q] /\ held'[q] = held[q]
      BY <1>7, <2>4, IInv DEF CancelPublish, CancelledCopy, IInv, TypeOK
    <3> QED
      BY <2>2, <3>1, <3>2, FreshKnow, OthersStillKnow
  <2> QED
    BY <2>3, <2>4
<1>8. ASSUME NEW w \in Launchers, BeginNode(w) PROVE FreshKnow'
  <2>1. Publish(w, held[w])
    BY <1>8 DEF BeginNode
  <2>2. SUFFICES ASSUME NEW q \in Requests, step'[q] \in Underway, ~ stale'[q]
                 PROVE  Knows(q)'
    BY DEF FreshKnow
  <2>3. CASE q = w
    <3>1. stored' = held[w]
      BY <2>1, <2>2, <2>3, PublishStales DEF IInv
    <3> QED
      BY <1>8, <2>2, <2>3, <3>1, IInv, SnapshotNumbers
      DEF BeginNode, Knows, StoredStatus, IInv, TypeOK, CopiesFit, HeldFits
  <2>4. CASE q # w
    <3>1. stored' = stored /\ ~ stale[q]
      BY <2>1, <2>2, <2>4, PublishStales DEF IInv
    <3>2. step'[q] = step[q] /\ held'[q] = held[q]
      BY <1>8, <2>4, IInv DEF BeginNode, IInv, TypeOK
    <3> QED
      BY <2>2, <3>1, <3>2, FreshKnow, OthersStillKnow
  <2> QED
    BY <2>3, <2>4
<1>9. ASSUME NEW w \in Launchers, NodeSucceeds(w) PROVE FreshKnow'
  <2>1. Publish(w, AdvancedCopy(w))
    BY <1>9 DEF NodeSucceeds, Outcome, AdvancedCopy
  <2>2. SUFFICES ASSUME NEW q \in Requests, step'[q] \in Underway, ~ stale'[q]
                 PROVE  Knows(q)'
    BY DEF FreshKnow
  <2>3. CASE q = w
    <3>1. stored' = AdvancedCopy(w)
      BY <2>1, <2>2, <2>3, PublishStales DEF IInv
    <3> QED
      BY <1>9, <2>2, <2>3, <3>1, IInv, SnapshotNumbers, AdvancedCopyFits
      DEF NodeSucceeds, Outcome, AdvancedCopy, Knows, StoredStatus, IInv, TypeOK,
          CopiesFit, HeldFits
  <2>4. CASE q # w
    <3>1. stored' = stored /\ ~ stale[q]
      BY <2>1, <2>2, <2>4, PublishStales DEF IInv
    <3>2. step'[q] = step[q] /\ held'[q] = held[q]
      BY <1>9, <2>4, IInv DEF NodeSucceeds, Outcome, AdvancedCopy, IInv, TypeOK
    <3> QED
      BY <2>2, <3>1, <3>2, FreshKnow, OthersStillKnow
  <2> QED
    BY <2>3, <2>4
<1>10. ASSUME NEW w \in Launchers, NodeFails(w) PROVE FreshKnow'
  <2>1. Publish(w, FailedCopy(w))
    BY <1>10 DEF NodeFails, Outcome, FailedCopy
  <2>2. SUFFICES ASSUME NEW q \in Requests, step'[q] \in Underway, ~ stale'[q]
                 PROVE  Knows(q)'
    BY DEF FreshKnow
  <2>3. CASE q = w
    <3>1. stored' = FailedCopy(w)
      BY <2>1, <2>2, <2>3, PublishStales DEF IInv
    <3> QED
      BY <1>10, <2>2, <2>3, <3>1, IInv, SnapshotNumbers, FailedCopyFits
      DEF NodeFails, Outcome, FailedCopy, Knows, StoredStatus, IInv, TypeOK, CopiesFit,
          HeldFits
  <2>4. CASE q # w
    <3>1. stored' = stored /\ ~ stale[q]
      BY <2>1, <2>2, <2>4, PublishStales DEF IInv
    <3>2. step'[q] = step[q] /\ held'[q] = held[q]
      BY <1>10, <2>4, IInv DEF NodeFails, Outcome, FailedCopy, IInv, TypeOK
    <3> QED
      BY <2>2, <3>1, <3>2, FreshKnow, OthersStillKnow
  <2> QED
    BY <2>3, <2>4
<1>11. ASSUME NEW w \in Launchers, NodeAsks(w) PROVE FreshKnow'
  <2>1. Publish(w, AskingCopy(w))
    BY <1>11 DEF NodeAsks, Outcome, AskingCopy
  <2>2. SUFFICES ASSUME NEW q \in Requests, step'[q] \in Underway, ~ stale'[q]
                 PROVE  Knows(q)'
    BY DEF FreshKnow
  <2>3. CASE q = w
    <3>1. stored' = AskingCopy(w)
      BY <2>1, <2>2, <2>3, PublishStales DEF IInv
    <3> QED
      BY <1>11, <2>2, <2>3, <3>1, IInv, SnapshotNumbers, AskingCopyFits
      DEF NodeAsks, Outcome, AskingCopy, Knows, StoredStatus, IInv, TypeOK, CopiesFit,
          HeldFits
  <2>4. CASE q # w
    <3>1. stored' = stored /\ ~ stale[q]
      BY <2>1, <2>2, <2>4, PublishStales DEF IInv
    <3>2. step'[q] = step[q] /\ held'[q] = held[q]
      BY <1>11, <2>4, IInv DEF NodeAsks, Outcome, AskingCopy, IInv, TypeOK
    <3> QED
      BY <2>2, <3>1, <3>2, FreshKnow, OthersStillKnow
  <2> QED
    BY <2>3, <2>4
<1>12. ASSUME NEW w \in Launchers, RunOut(w) PROVE FreshKnow'
  BY <1>12, IInv, FreshKnow, SnapshotNumbers, ServiceAssumption
  DEF RunOut, FreshKnow, Knows, StoredStatus, IInv, TypeOK, CopiesFit, HeldFits,
      ServiceAssumption
<1>13. ASSUME NEW w \in Launchers, PublishResult(w) PROVE FreshKnow'
  <2>1. Publish(w, held[w])
    BY <1>13 DEF PublishResult
  <2>2. SUFFICES ASSUME NEW q \in Requests, step'[q] \in Underway, ~ stale'[q]
                 PROVE  Knows(q)'
    BY DEF FreshKnow
  <2>3. CASE q = w
    <3>1. stored' = held[w]
      BY <2>1, <2>2, <2>3, PublishStales DEF IInv
    <3> QED
      BY <1>13, <2>2, <2>3, <3>1, IInv, SnapshotNumbers
      DEF PublishResult, Knows, StoredStatus, IInv, TypeOK, CopiesFit, HeldFits
  <2>4. CASE q # w
    <3>1. stored' = stored /\ ~ stale[q]
      BY <2>1, <2>2, <2>4, PublishStales DEF IInv
    <3>2. step'[q] = step[q] /\ held'[q] = held[q]
      BY <1>13, <2>4, IInv DEF PublishResult, IInv, TypeOK
    <3> QED
      BY <2>2, <3>1, <3>2, FreshKnow, OthersStillKnow
  <2> QED
    BY <2>3, <2>4
<1>14. ASSUME NEW w \in Launchers, Unmark(w) PROVE FreshKnow'
  BY <1>14, IInv, FreshKnow, SnapshotNumbers, ServiceAssumption
  DEF Unmark, FreshKnow, Knows, StoredStatus, IInv, TypeOK, CopiesFit, HeldFits,
      ServiceAssumption
<1>15. CASE Crash
  BY <1>15, IInv, FreshKnow, SnapshotNumbers, ServiceAssumption
  DEF Crash, FreshKnow, Knows, StoredStatus, IInv, TypeOK, CopiesFit, HeldFits,
      ServiceAssumption
<1>16. CASE UNCHANGED vars
  BY <1>16, FreshKnow DEF vars, FreshKnow, Knows, StoredStatus
<1> QED
  BY <1>1, <1>2, <1>3, <1>4, <1>5, <1>6, <1>7, <1>8, <1>9, <1>10, <1>11, <1>12, <1>13,
     <1>14, <1>15, <1>16
  DEF Next, Start, Resume, Cancel, Segment

\* A process that has been overtaken and moves on is what StaleWrite names.
LEMMA WriteOfStale ==
    ASSUME TypeOK, NEW p \in Requests, stale[p], step'[p] # step[p]
    PROVE  StaleWrite
  BY DEF StaleWrite

\* A write by a process that knows the row follows the status flow.
LEMMA StepFollowsFlow ==
    ASSUME IInv, FreshKnow, [Next]_vars
    PROVE  [LC!Next \/ LateCancel \/ StaleWrite]_StoredStatus
<1> USE DEF Launchers, Requests, Underway, Working, Keep, Move, NoPublish
<1>1. CASE StartPublish
  BY <1>1, IInv, FreshFits, SnapshotNumbers
  DEF StartPublish, Publish, StoredStatus, IInv, NothingBeforeStart
<1>2. CASE StartLaunch
  BY <1>2 DEF StartLaunch, StoredStatus
<1>3. ASSUME NEW r \in Resumes, ResumePrepare(r)
      PROVE  [LC!Next \/ LateCancel \/ StaleWrite]_StoredStatus
  BY <1>3 DEF ResumePrepare, StoredStatus
<1>4. ASSUME NEW r \in Resumes, ResumeMark(r)
      PROVE  [LC!Next \/ LateCancel \/ StaleWrite]_StoredStatus
  BY <1>4 DEF ResumeMark, StoredStatus
<1>5. ASSUME NEW r \in Resumes, ResumePublish(r)
      PROVE  [LC!Next \/ LateCancel \/ StaleWrite]_StoredStatus
  <2>1. Publish(r, held[r]) /\ step[r] = "marked" /\ step'[r] # step[r]
    BY <1>5, IInv DEF ResumePublish, IInv, TypeOK, Step
  <2>2. CASE stale[r]
    BY <2>1, <2>2, WriteOfStale, IInv DEF IInv
  <2>3. CASE stored' = stored
    BY <2>3 DEF StoredStatus
  <2>4. CASE ~ stale[r] /\ stored' = held[r]
    <3>1. Knows(r)
      BY <2>1, <2>4, FreshKnow DEF FreshKnow
    <3>2. held[r] \in Snapshot /\ held[r].status = "running"
      BY <2>1, IInv DEF IInv, CopiesFit, HeldFits
    <3>3. StoredStatus' = held[r].status
      BY <2>4, <3>2, SnapshotNumbers DEF StoredStatus
    <3> QED
      BY <2>1, <3>1, <3>2, <3>3
      DEF Knows, LC!Next, LC!Continue, LC!Pause, LC!Complete, LC!Fail
  <2> QED
    BY <2>1, <2>2, <2>3, <2>4 DEF Publish
<1>6. ASSUME NEW c \in Cancels, CancelRead(c)
      PROVE  [LC!Next \/ LateCancel \/ StaleWrite]_StoredStatus
  BY <1>6 DEF CancelRead, StoredStatus
<1>7. ASSUME NEW c \in Cancels, CancelPublish(c)
      PROVE  [LC!Next \/ LateCancel \/ StaleWrite]_StoredStatus
  <2>1. Publish(c, CancelledCopy(c)) /\ step[c] = "read" /\ step'[c] # step[c]
    BY <1>7, IInv DEF CancelPublish, CancelledCopy, IInv, TypeOK, Step
  <2>2. CASE stale[c]
    BY <2>1, <2>2, WriteOfStale, IInv DEF IInv
  <2>3. CASE stored' = stored
    BY <2>3 DEF StoredStatus
  <2>4. CASE ~ stale[c] /\ stored' = CancelledCopy(c)
    <3>1. Knows(c)
      BY <2>1, <2>4, FreshKnow DEF FreshKnow
    <3>2. CancelledCopy(c) \in Snapshot /\ CancelledCopy(c).status = "cancelled"
      BY <1>7, CancelledCopyFits, IInv
    <3>3. StoredStatus' = CancelledCopy(c).status
      BY <2>4, <3>2, SnapshotNumbers DEF StoredStatus
    <3>4. StoredStatus \in ExecutionStatus
      BY IInv DEF IInv, TypeOK, StoredStatus, Snapshot, ExecutionStatus, LifeState
    <3>5. CASE StoredStatus \in LC!Finished
      BY <1>7, <2>1, <3>5, IInv DEF CancelPublish, LateCancel, IInv, TypeOK
    <3>6. CASE StoredStatus \in {"running", "waiting_input"}
      BY <3>2, <3>3, <3>6 DEF LC!Next, LC!Cancel
    <3> QED
      BY <3>4, <3>5, <3>6 DEF ExecutionStatus, LifeState, LC!Finished
  <2> QED
    BY <2>1, <2>2, <2>3, <2>4 DEF Publish
<1>8. ASSUME NEW w \in Launchers, BeginNode(w)
      PROVE  [LC!Next \/ LateCancel \/ StaleWrite]_StoredStatus
  <2>1. Publish(w, held[w]) /\ step[w] = "loop" /\ step'[w] # step[w]
    BY <1>8, IInv DEF BeginNode, IInv, TypeOK, Step
  <2>2. CASE stale[w]
    BY <2>1, <2>2, WriteOfStale, IInv DEF IInv
  <2>3. CASE stored' = stored
    BY <2>3 DEF StoredStatus
  <2>4. CASE ~ stale[w] /\ stored' = held[w]
    <3>1. Knows(w)
      BY <2>1, <2>4, FreshKnow DEF FreshKnow
    <3>2. held[w] \in Snapshot /\ held[w].status = "running"
      BY <2>1, IInv DEF IInv, CopiesFit, HeldFits
    <3>3. StoredStatus' = held[w].status
      BY <2>4, <3>2, SnapshotNumbers DEF StoredStatus
    <3> QED
      BY <2>1, <3>1, <3>2, <3>3
      DEF Knows, LC!Next, LC!Continue, LC!Pause, LC!Complete, LC!Fail
  <2> QED
    BY <2>1, <2>2, <2>3, <2>4 DEF Publish
<1>9. ASSUME NEW w \in Launchers, NodeSucceeds(w)
      PROVE  [LC!Next \/ LateCancel \/ StaleWrite]_StoredStatus
  <2>1. Publish(w, AdvancedCopy(w)) /\ step[w] = "execute" /\ step'[w] # step[w]
    BY <1>9, IInv DEF NodeSucceeds, Outcome, AdvancedCopy, IInv, TypeOK, Step
  <2>2. CASE stale[w]
    BY <2>1, <2>2, WriteOfStale, IInv DEF IInv
  <2>3. CASE stored' = stored
    BY <2>3 DEF StoredStatus
  <2>4. CASE ~ stale[w] /\ stored' = AdvancedCopy(w)
    <3>1. Knows(w)
      BY <2>1, <2>4, FreshKnow DEF FreshKnow
    <3>2. AdvancedCopy(w) \in Snapshot /\ AdvancedCopy(w).status = "running"
      BY <1>9, AdvancedCopyFits, IInv
    <3>3. StoredStatus' = AdvancedCopy(w).status
      BY <2>4, <3>2, SnapshotNumbers DEF StoredStatus
    <3> QED
      BY <2>1, <3>1, <3>2, <3>3
      DEF Knows, LC!Next, LC!Continue, LC!Pause, LC!Complete, LC!Fail
  <2> QED
    BY <2>1, <2>2, <2>3, <2>4 DEF Publish
<1>10. ASSUME NEW w \in Launchers, NodeFails(w)
      PROVE  [LC!Next \/ LateCancel \/ StaleWrite]_StoredStatus
  <2>1. Publish(w, FailedCopy(w)) /\ step[w] = "execute" /\ step'[w] # step[w]
    BY <1>10, IInv DEF NodeFails, Outcome, FailedCopy, IInv, TypeOK, Step
  <2>2. CASE stale[w]
    BY <2>1, <2>2, WriteOfStale, IInv DEF IInv
  <2>3. CASE stored' = stored
    BY <2>3 DEF StoredStatus
  <2>4. CASE ~ stale[w] /\ stored' = FailedCopy(w)
    <3>1. Knows(w)
      BY <2>1, <2>4, FreshKnow DEF FreshKnow
    <3>2. FailedCopy(w) \in Snapshot /\ FailedCopy(w).status = "failed"
      BY <1>10, FailedCopyFits, IInv
    <3>3. StoredStatus' = FailedCopy(w).status
      BY <2>4, <3>2, SnapshotNumbers DEF StoredStatus
    <3> QED
      BY <2>1, <3>1, <3>2, <3>3
      DEF Knows, LC!Next, LC!Continue, LC!Pause, LC!Complete, LC!Fail
  <2> QED
    BY <2>1, <2>2, <2>3, <2>4 DEF Publish
<1>11. ASSUME NEW w \in Launchers, NodeAsks(w)
      PROVE  [LC!Next \/ LateCancel \/ StaleWrite]_StoredStatus
  <2>1. Publish(w, AskingCopy(w)) /\ step[w] = "execute" /\ step'[w] # step[w]
    BY <1>11, IInv DEF NodeAsks, Outcome, AskingCopy, IInv, TypeOK, Step
  <2>2. CASE stale[w]
    BY <2>1, <2>2, WriteOfStale, IInv DEF IInv
  <2>3. CASE stored' = stored
    BY <2>3 DEF StoredStatus
  <2>4. CASE ~ stale[w] /\ stored' = AskingCopy(w)
    <3>1. Knows(w)
      BY <2>1, <2>4, FreshKnow DEF FreshKnow
    <3>2. AskingCopy(w) \in Snapshot /\ AskingCopy(w).status = "waiting_input"
      BY <1>11, AskingCopyFits, IInv
    <3>3. StoredStatus' = AskingCopy(w).status
      BY <2>4, <3>2, SnapshotNumbers DEF StoredStatus
    <3> QED
      BY <2>1, <3>1, <3>2, <3>3
      DEF Knows, LC!Next, LC!Continue, LC!Pause, LC!Complete, LC!Fail
  <2> QED
    BY <2>1, <2>2, <2>3, <2>4 DEF Publish
<1>12. ASSUME NEW w \in Launchers, RunOut(w)
      PROVE  [LC!Next \/ LateCancel \/ StaleWrite]_StoredStatus
  BY <1>12 DEF RunOut, StoredStatus
<1>13. ASSUME NEW w \in Launchers, PublishResult(w)
      PROVE  [LC!Next \/ LateCancel \/ StaleWrite]_StoredStatus
  <2>1. Publish(w, held[w]) /\ step[w] = "result" /\ step'[w] # step[w]
    BY <1>13, IInv DEF PublishResult, IInv, TypeOK, Step
  <2>2. CASE stale[w]
    BY <2>1, <2>2, WriteOfStale, IInv DEF IInv
  <2>3. CASE stored' = stored
    BY <2>3 DEF StoredStatus
  <2>4. CASE ~ stale[w] /\ stored' = held[w]
    <3>1. Knows(w)
      BY <2>1, <2>4, FreshKnow DEF FreshKnow
    <3>2. held[w] \in Snapshot /\ held[w].status \in ExecutionStatus
      BY <2>1, IInv DEF IInv, CopiesFit, HeldFits, Snapshot
    <3>3. StoredStatus' = held[w].status
      BY <2>4, <3>2, SnapshotNumbers DEF StoredStatus
    <3> QED
      BY <2>1, <3>1, <3>2, <3>3
      DEF Knows, LC!Next, LC!Continue, LC!Pause, LC!Complete, LC!Fail, LC!Cancel,
          ExecutionStatus, LifeState
  <2> QED
    BY <2>1, <2>2, <2>3, <2>4 DEF Publish
<1>14. ASSUME NEW w \in Launchers, Unmark(w)
      PROVE  [LC!Next \/ LateCancel \/ StaleWrite]_StoredStatus
  BY <1>14 DEF Unmark, StoredStatus
<1>15. CASE Crash
  BY <1>15 DEF Crash, StoredStatus
<1>16. CASE UNCHANGED vars
  BY <1>16 DEF vars, StoredStatus
<1> QED
  BY <1>1, <1>2, <1>3, <1>4, <1>5, <1>6, <1>7, <1>8, <1>9, <1>10, <1>11, <1>12, <1>13,
     <1>14, <1>15, <1>16
  DEF Next, Start, Resume, Cancel, Segment

-----------------------------------------------------------------------------
(* Cancelling for good. *)

\* With nobody half way, no action can undo a cancel.
LEMMA StepKeepsCancel ==
    ASSUME IInv, CancelledForGood, [Next]_vars
    PROVE  CancelledForGood'
<1> USE DEF Launchers, Requests, Underway, Working, Keep, Move, NoPublish
<1>1. CASE StartPublish
  BY <1>1, IInv, CancelledForGood
  DEF StartPublish, CancelledForGood, StoredStatus, IInv, TypeOK, NothingBeforeStart
<1>2. CASE StartLaunch
  BY <1>2, IInv, CancelledForGood
  DEF StartLaunch, CancelledForGood, StoredStatus, IInv, TypeOK
<1>3. ASSUME NEW r \in Resumes, ResumePrepare(r) PROVE CancelledForGood'
  BY <1>3, IInv, CancelledForGood
  DEF ResumePrepare, CancelledForGood, StoredStatus, IInv, TypeOK
<1>4. ASSUME NEW r \in Resumes, ResumeMark(r) PROVE CancelledForGood'
  BY <1>4, IInv, CancelledForGood
  DEF ResumeMark, CancelledForGood, StoredStatus, IInv, TypeOK
<1>5. ASSUME NEW r \in Resumes, ResumePublish(r) PROVE CancelledForGood'
  BY <1>5, IInv, CancelledForGood
  DEF ResumePublish, CancelledForGood, StoredStatus, IInv, TypeOK
<1>6. ASSUME NEW c \in Cancels, CancelRead(c) PROVE CancelledForGood'
  BY <1>6, IInv, CancelledForGood, ServiceAssumption
  DEF CancelRead, CancelledForGood, StoredStatus, IInv, TypeOK, ServiceAssumption
<1>7. ASSUME NEW c \in Cancels, CancelPublish(c) PROVE CancelledForGood'
  <2>1. stored' \in {stored, CancelledCopy(c)}
    BY <1>7 DEF CancelPublish, CancelledCopy, Publish
  <2>2. CancelledCopy(c) \in Snapshot /\ CancelledCopy(c).status = "cancelled"
    BY <1>7, IInv, CancelledCopyFits
  <2>3. StoredStatus' = "cancelled"
    BY <2>1, <2>2, CancelledForGood, SnapshotNumbers DEF CancelledForGood, StoredStatus
  <2> QED
    BY <1>7, <2>3, IInv, CancelledForGood
    DEF CancelPublish, CancelledForGood, IInv, TypeOK
<1>8. ASSUME NEW w \in Launchers, BeginNode(w) PROVE CancelledForGood'
  BY <1>8, IInv, CancelledForGood
  DEF BeginNode, CancelledForGood, StoredStatus, IInv, TypeOK
<1>9. ASSUME NEW w \in Launchers, NodeSucceeds(w) PROVE CancelledForGood'
  BY <1>9, IInv, CancelledForGood
  DEF NodeSucceeds, Outcome, AdvancedCopy, CancelledForGood, StoredStatus, IInv, TypeOK
<1>10. ASSUME NEW w \in Launchers, NodeFails(w) PROVE CancelledForGood'
  BY <1>10, IInv, CancelledForGood
  DEF NodeFails, Outcome, FailedCopy, CancelledForGood, StoredStatus, IInv, TypeOK
<1>11. ASSUME NEW w \in Launchers, NodeAsks(w) PROVE CancelledForGood'
  BY <1>11, IInv, CancelledForGood
  DEF NodeAsks, Outcome, AskingCopy, CancelledForGood, StoredStatus, IInv, TypeOK
<1>12. ASSUME NEW w \in Launchers, RunOut(w) PROVE CancelledForGood'
  BY <1>12, IInv, CancelledForGood
  DEF RunOut, CancelledForGood, StoredStatus, IInv, TypeOK
<1>13. ASSUME NEW w \in Launchers, PublishResult(w) PROVE CancelledForGood'
  BY <1>13, IInv, CancelledForGood
  DEF PublishResult, CancelledForGood, StoredStatus, IInv, TypeOK
<1>14. ASSUME NEW w \in Launchers, Unmark(w) PROVE CancelledForGood'
  BY <1>14, IInv, CancelledForGood
  DEF Unmark, CancelledForGood, StoredStatus, IInv, TypeOK
<1>15. CASE Crash
  BY <1>15, IInv, CancelledForGood
  DEF Crash, CancelledForGood, StoredStatus, IInv, TypeOK
<1>16. CASE UNCHANGED vars
  BY <1>16, CancelledForGood DEF vars, CancelledForGood, StoredStatus
<1> QED
  BY <1>1, <1>2, <1>3, <1>4, <1>5, <1>6, <1>7, <1>8, <1>9, <1>10, <1>11, <1>12, <1>13,
     <1>14, <1>15, <1>16
  DEF Next, Start, Resume, Cancel, Segment

-----------------------------------------------------------------------------
(* The theorems. *)

\* Every variable keeps its type, for every workflow length and every set of
\* concurrent StartAsync, ResumeAsync and Cancel requests.
THEOREM TypeCorrect == Spec => []TypeOK
  BY Invariance, PTL DEF IInv

\* However many ResumeAsync calls race, one goroutine at a time runs segments
\* of the execution: markExecutionRunning is claimed before launchMarkedAsync
\* and released only after its last publish.
THEOREM OneWorker == Spec => []SingleWorker
  BY Invariance, PTL DEF IInv

\* An execution stored as running has a goroutine that is marked for it, or its
\* StartAsync has yet to launch one, unless publishExecution lost a save or the
\* server restarted.
THEOREM OwnedWhileRunning == Spec => []RunningHasOwner
  BY Invariance, PTL DEF IInv

\* A cancelled row stays cancelled once no goroutine runs the execution and no
\* StartAsync or ResumeAsync holds a copy: prepareResumeExecution then refuses.
THEOREM CancelIsKept == Spec => CancelSticks
<1>1. IInv /\ [Next]_vars => [CancelledForGood => CancelledForGood']_vars
  BY StepKeepsCancel
<1> QED
  BY <1>1, Invariance, PTL DEF Spec, CancelSticks

\* The status leaves the README's flow only by the write of a process whose copy
\* was overtaken by another publishExecution, or by cancelling what is finished.
THEOREM OnlyStaleWritesBreakTheFlow == Spec => FreshWritesFollowFlow
<1>1. Init => FreshKnow
  BY DEF Init, FreshKnow, Underway, Working
<1>2. IInv /\ FreshKnow /\ [Next]_vars => FreshKnow'
  BY StepKeepsFreshKnow
<1>3. IInv /\ FreshKnow /\ [Next]_vars
        => [LC!Next \/ LateCancel \/ StaleWrite]_StoredStatus
  BY StepFollowsFlow
<1> QED
  BY <1>1, <1>2, <1>3, Invariance, PTL DEF Spec, FreshWritesFollowFlow

=============================================================================
