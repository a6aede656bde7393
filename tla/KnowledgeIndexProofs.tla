------------------------ MODULE KnowledgeIndexProofs ------------------------
(***************************************************************************)
(* Theorems about KnowledgeIndex, for any number of workers and requests,   *)
(* of tasks and of failures.                                                *)
(***************************************************************************)
EXTENDS KnowledgeIndex, FiniteSetTheorems, SequenceTheorems, TLAPS

-----------------------------------------------------------------------------
(* The inductive invariant. *)

Submitting == {"submit", "submitted", "record"}
Asking == {"ask", "asked", "store"}

\* A call that submits has a row of its own, unless its INSERT failed; one that
\* asks has the row's task.
RowOwned(c) ==
    /\ step[c] \in Submitting /\ at[c] # 0 => rows[at[c]].ref = 0
    /\ step[c] \in Submitting /\ at[c] = 0 => faults > 0
    /\ step[c] \in Asking => rows[at[c]].ref = copy[c].ref

Owned ==
    /\ \A c \in Callers : RowOwned(c)
    /\ \A c, d \in Callers :
        step[c] \in Submitting /\ step[d] \in Submitting /\ at[c] = at[d] /\ at[c] # 0 => c = d

OcrInv == OcrTypeOK /\ Owned /\ NoOrphanTask

-----------------------------------------------------------------------------
(* The types of the constants of OcrTask. *)

LEMMA RowTypes ==
    /\ NewRow \in Row
    /\ FailedRow \in Row
    /\ FailedRow.ref = 0
    /\ NewRow.ref = 0 /\ NoTask.ref = 0
    /\ NewRemote \in Remote /\ LostRemote \in Remote
    /\ NewRemote.known = TRUE /\ LostRemote.known = FALSE
    /\ NoView \in View
    /\ "idle" \in Step /\ "done" \in Step
<1>a. 0 \in 0 .. MaxTasks
  BY OcrAssumption
<1>b. NewRow \in Row
  BY <1>a DEF NewRow, Row, TaskStatus
<1>c. FailedRow \in Row
  BY <1>a DEF FailedRow, Row, TaskStatus
<1>1. NewRow \in Row /\ FailedRow \in Row
  BY <1>b, <1>c
<1>2. FailedRow.ref = 0 /\ NewRow.ref = 0 /\ NoTask.ref = 0
  BY DEF NewRow, FailedRow, NoTask
<1>3. NewRemote \in Remote /\ NewRemote.known = TRUE
  BY DEF NewRemote, Remote, TaskStatus
<1>4. LostRemote \in Remote /\ LostRemote.known = FALSE
  BY DEF LostRemote, NewRemote, Remote, TaskStatus
<1>5. NoView \in View /\ "idle" \in Step /\ "done" \in Step
  BY DEF NoView, View, TaskStatus, Step
<1>. QED
  BY <1>1, <1>2, <1>3, <1>4, <1>5

\* What an answer leaves behind.
LEMMA AnswerTypes ==
    ASSUME OcrTypeOK, NEW c \in Callers, NEW task \in Row \cup {NoTask},
           task.ref <= Len(remote), Answer(c, task)
    PROVE  /\ step' \in [Callers -> Step]
           /\ at' \in [Callers -> 0 .. MaxTasks]
           /\ copy' \in [Callers -> Row \cup {NoTask}]
           /\ view' \in [Callers -> View]
           /\ step'[c] \in {"idle", "done"} /\ at'[c] = 0 /\ copy'[c].ref <= Len(remote)
           /\ \A d \in Callers \ {c} :
                step'[d] = step[d] /\ at'[d] = at[d] /\ copy'[d] = copy[d] /\ view'[d] = view[d]
<1>1. Len(remote) \in Nat
  BY DEF OcrTypeOK, OcrTyped
<1>2. NoTask \in Row \cup {NoTask} /\ NoTask.ref <= Len(remote)
  BY <1>1, RowTypes
<1>3. step' \in [Callers -> Step] /\ step'[c] \in {"idle", "done"}
  BY RowTypes DEF Answer, OcrTypeOK, OcrTyped
<1>4. copy' \in [Callers -> Row \cup {NoTask}] /\ copy'[c].ref <= Len(remote)
  BY <1>2 DEF Answer, OcrTypeOK, OcrTyped
<1>5. at' \in [Callers -> 0 .. MaxTasks] /\ at'[c] = 0
  BY OcrAssumption DEF Answer, OcrTypeOK, OcrTyped
<1>6. view' \in [Callers -> View]
  BY RowTypes DEF Answer, OcrTypeOK, OcrTyped
<1>7. \A d \in Callers \ {c} :
        step'[d] = step[d] /\ at'[d] = at[d] /\ copy'[d] = copy[d] /\ view'[d] = view[d]
  BY DEF Answer, OcrTypeOK, OcrTyped
<1>. QED
  BY <1>3, <1>4, <1>5, <1>6, <1>7

LEMMA FaultTypes ==
    ASSUME OcrTypeOK, Fault PROVE faults' \in 0 .. MaxFaults /\ faults' > 0
BY OcrAssumption DEF Fault, OcrTypeOK, OcrTyped

\* What is in the rows and in the provider's tasks.
LEMMA EntryTypes ==
    ASSUME OcrTypeOK
    PROVE  /\ Len(rows) \in Nat /\ Len(remote) \in Nat
           /\ DOMAIN rows = 1 .. Len(rows) /\ DOMAIN remote = 1 .. Len(remote)
           /\ \A i \in 1 .. Len(rows) :
                rows[i] \in Row /\ rows[i].ref \in Nat /\ rows[i].ref <= Len(remote)
           /\ \A k \in 1 .. Len(remote) :
                /\ remote[k] \in Remote
                /\ remote[k].status \in TaskStatus
                /\ remote[k].result \in BOOLEAN /\ remote[k].known \in BOOLEAN
           /\ \A c \in Callers : copy[c].ref \in Nat /\ at[c] \in Nat
<1>1. rows \in Seq(Row) /\ remote \in Seq(Remote)
  BY DEF OcrTypeOK, OcrTyped
<1>2. /\ Len(rows) \in Nat /\ Len(remote) \in Nat
      /\ DOMAIN rows = 1 .. Len(rows) /\ DOMAIN remote = 1 .. Len(remote)
      /\ \A i \in 1 .. Len(rows) : rows[i] \in Row
      /\ \A k \in 1 .. Len(remote) : remote[k] \in Remote
  BY <1>1
<1>3. \A row \in Row \cup {NoTask} : row.ref \in Nat
  BY OcrAssumption DEF Row, NoTask
<1>4. \A i \in 1 .. Len(rows) : rows[i].ref \in Nat /\ rows[i].ref <= Len(remote)
  BY <1>2, <1>3 DEF OcrTypeOK, OcrTyped
<1>5. \A k \in 1 .. Len(remote) :
        remote[k].status \in TaskStatus /\ remote[k].result \in BOOLEAN /\ remote[k].known \in BOOLEAN
  BY <1>2 DEF Remote
<1>6. \A c \in Callers : copy[c].ref \in Nat /\ at[c] \in Nat
  <2>. SUFFICES ASSUME NEW c \in Callers PROVE copy[c].ref \in Nat /\ at[c] \in Nat
    OBVIOUS
  <2>1. copy[c] \in Row \cup {NoTask} /\ at[c] \in 0 .. MaxTasks
    BY DEF OcrTypeOK, OcrTyped
  <2>. QED
    BY <2>1, <1>3, OcrAssumption
<1>. QED
  BY <1>2, <1>4, <1>5, <1>6

LEMMA Sizes ==
    ASSUME OcrTypeOK
    PROVE  Len(rows) \in Nat /\ Len(remote) \in Nat /\ faults \in Nat
BY EntryTypes, OcrAssumption DEF OcrTypeOK, OcrTyped

\* An UPDATE of a call's row.
LEMMA UpdateTypes ==
    ASSUME OcrTypeOK, NEW c \in Callers, at[c] # 0, NEW row \in Row, Update(c, row)
    PROVE  /\ at[c] \in 1 .. Len(rows)
           /\ rows' \in Seq(Row) /\ Len(rows') = Len(rows)
           /\ \A i \in 1 .. Len(rows) : rows'[i] = IF i = at[c] THEN row ELSE rows[i]
<1>1. at[c] \in 1 .. Len(rows)
  BY EntryTypes DEF OcrTypeOK, CallFits
<1>2. rows \in Seq(Row)
  BY DEF OcrTypeOK, OcrTyped
<1>. QED
  BY <1>1, <1>2, ExceptSeq DEF Update

-----------------------------------------------------------------------------
(* The steps of a call. *)

LEMMA AnswerKeeps ==
    ASSUME OcrInv, NEW c \in Callers, NEW task \in Row \cup {NoTask},
           task.ref <= Len(remote), Answer(c, task),
           step[c] \notin Submitting, UNCHANGED <<rows, remote>>,
           faults' \in 0 .. MaxFaults, faults' >= faults
    PROVE  OcrInv'
<1>1. /\ step' \in [Callers -> Step]
      /\ at' \in [Callers -> 0 .. MaxTasks]
      /\ copy' \in [Callers -> Row \cup {NoTask}]
      /\ view' \in [Callers -> View]
      /\ step'[c] \in {"idle", "done"} /\ at'[c] = 0 /\ copy'[c].ref <= Len(remote)
      /\ \A d \in Callers \ {c} :
            step'[d] = step[d] /\ at'[d] = at[d] /\ copy'[d] = copy[d] /\ view'[d] = view[d]
  BY AnswerTypes DEF OcrInv
<1>2. OcrTypeOK'
  <2>1. OcrTyped'
    BY <1>1 DEF OcrInv, OcrTypeOK, OcrTyped
  <2>2. CallFits(c)'
    BY <1>1, EntryTypes DEF OcrInv, CallFits
  <2>3. ASSUME NEW d \in Callers \ {c} PROVE CallFits(d)'
    BY <1>1 DEF OcrInv, OcrTypeOK, CallFits
  <2>. QED
    BY <2>1, <2>2, <2>3 DEF OcrInv, OcrTypeOK
<1>3. faults \in Nat /\ faults' \in Nat
  BY OcrAssumption DEF OcrInv, OcrTypeOK, OcrTyped
<1>4. Owned'
  <2>1. step'[c] \notin Submitting /\ step'[c] \notin Asking
    BY <1>1 DEF Submitting, Asking
  <2>2. ASSUME NEW d \in Callers PROVE RowOwned(d)'
    BY <2>1, <1>1, <1>3 DEF OcrInv, Owned, RowOwned
  <2>. QED
    BY <2>1, <2>2, <1>1 DEF OcrInv, Owned, RowOwned
<1>5. NoOrphanTask'
  BY <1>1, <1>3 DEF OcrInv, NoOrphanTask, HasOwner, Submitting
<1>. QED
  BY <1>2, <1>4, <1>5 DEF OcrInv

\* A step of one call that changes at most its own row keeps the others in order.
LEMMA CallKeeps ==
    ASSUME OcrInv, NEW c \in Callers, OcrTyped',
           Len(rows') >= Len(rows), Len(remote') >= Len(remote), faults' >= faults,
           \A i \in 1 .. Len(rows') : rows'[i].ref <= Len(remote'),
           \A i \in 1 .. Len(rows) :
                rows'[i].ref # rows[i].ref => step[c] \in Submitting /\ i = at[c],
           \A d \in Callers \ {c} : step'[d] = step[d] /\ at'[d] = at[d] /\ copy'[d] = copy[d],
           CallFits(c)', RowOwned(c)',
           step'[c] \in Submitting /\ at'[c] # 0 =>
                \A d \in Callers \ {c} : step[d] \in Submitting => at[d] # at'[c]
    PROVE  OcrTypeOK' /\ Owned'
<1>1. /\ Len(rows) \in Nat /\ Len(remote) \in Nat /\ faults \in Nat
      /\ Len(rows') \in Nat /\ Len(remote') \in Nat /\ faults' \in Nat
  BY OcrAssumption DEF OcrInv, OcrTypeOK, OcrTyped
<1>2. ASSUME NEW d \in Callers \ {c} PROVE CallFits(d)' /\ RowOwned(d)'
  <2>1. CallFits(d) /\ RowOwned(d) /\ RowOwned(c) /\ at[d] \in Nat /\ copy[d].ref \in Nat
    BY EntryTypes DEF OcrInv, OcrTypeOK, Owned
  <2>2. CallFits(d)'
    BY <1>1, <2>1 DEF CallFits
  <2>3. step[d] \in Submitting \cup Asking /\ at[d] # 0 => rows'[at[d]].ref = rows[at[d]].ref
    <3>. SUFFICES ASSUME step[d] \in Submitting \cup Asking, at[d] # 0,
                         rows'[at[d]].ref # rows[at[d]].ref
                  PROVE  FALSE
      OBVIOUS
    <3>1. at[d] \in 1 .. Len(rows)
      BY <1>1, <2>1 DEF CallFits
    <3>2. step[c] \in Submitting /\ at[c] = at[d] /\ at[c] # 0
      BY <3>1
    <3>3. rows[at[d]].ref = 0
      BY <3>2, <2>1 DEF RowOwned
    <3>4. step[d] \in Submitting
      BY <3>3, <2>1 DEF CallFits, RowOwned, Asking
    <3>. QED
      BY <3>2, <3>4 DEF OcrInv, Owned
  <2>4. step[d] \in Asking => at[d] # 0
    BY <2>1 DEF CallFits, Asking
  <2>5. RowOwned(d)'
    BY <1>1, <2>1, <2>3, <2>4 DEF RowOwned
  <2>. QED
    BY <2>2, <2>5
<1>3. OcrTypeOK'
  BY <1>2 DEF OcrTypeOK
<1>4. \A d, e \in Callers :
        (step[d] \in Submitting /\ step[e] \in Submitting /\ at[d] = at[e] /\ at[d] # 0 => d = e)'
  BY DEF OcrInv, Owned
<1>5. Owned'
  BY <1>2, <1>4 DEF Owned
<1>. QED
  BY <1>3, <1>5

LEMMA FindOpenKeeps ==
    ASSUME OcrInv, NEW c \in Callers, FindOpen(c)
    PROVE  OcrInv'
<1>0. Len(rows) \in Nat
  BY EntryTypes DEF OcrInv
<1>p. PICK i \in 1 .. Len(rows) :
        /\ CanCall(c)
        /\ Finds(i)
        /\ Open(rows[i]) /\ rows[i].ref # 0
        /\ Goto(c, "ask")
        /\ at' = [at EXCEPT ![c] = i]
        /\ copy' = [copy EXCEPT ![c] = rows[i]]
        /\ UNCHANGED <<rows, remote, view>>
  BY DEF FindOpen
<1>1. /\ step[c] = "idle" /\ rows[i].ref # 0
      /\ step' = [step EXCEPT ![c] = "ask"]
      /\ at' = [at EXCEPT ![c] = i]
      /\ copy' = [copy EXCEPT ![c] = rows[i]]
      /\ UNCHANGED <<rows, remote, view, faults>>
  BY <1>p, <1>0 DEF CanCall, Finds, Goto
<1>2. i \in 0 .. MaxTasks /\ i # 0 /\ rows[i] \in Row /\ rows[i].ref <= Len(remote)
  BY EntryTypes, OcrAssumption DEF OcrInv, OcrTypeOK, OcrTyped
<1>3. \A d \in Callers \ {c} : step'[d] = step[d] /\ at'[d] = at[d] /\ copy'[d] = copy[d]
  BY <1>1 DEF OcrInv, OcrTypeOK, OcrTyped
<1>4. step'[c] = "ask" /\ at'[c] = i /\ copy'[c] = rows[i]
  BY <1>1 DEF OcrInv, OcrTypeOK, OcrTyped
<1>5. OcrTyped'
  BY <1>1, <1>2 DEF OcrInv, OcrTypeOK, OcrTyped, Step
<1>6. CallFits(c)' /\ RowOwned(c)'
  BY <1>1, <1>2, <1>4 DEF CallFits, RowOwned, Submitting
<1>7. OcrTypeOK' /\ Owned'
  <2>1. Len(rows') >= Len(rows) /\ Len(remote') >= Len(remote) /\ faults' >= faults
    BY <1>1, Sizes DEF OcrInv
  <2>2. step'[c] \notin Submitting
    BY <1>4 DEF Submitting
  <2>3. /\ \A j \in 1 .. Len(rows') : rows'[j].ref <= Len(remote')
        /\ \A j \in 1 .. Len(rows) : rows'[j].ref = rows[j].ref
    BY <1>1 DEF OcrInv, OcrTypeOK
  <2>. QED
    BY <1>3, <1>5, <1>6, <2>1, <2>2, <2>3, CallKeeps
<1>8. NoOrphanTask'
  BY <1>1, <1>3, <1>4 DEF OcrInv, NoOrphanTask, HasOwner
<1>. QED
  BY <1>7, <1>8 DEF OcrInv

LEMMA FindSettledKeeps ==
    ASSUME OcrInv, NEW c \in Callers, FindSettled(c)
    PROVE  OcrInv'
<1>0. Len(rows) \in Nat
  BY EntryTypes DEF OcrInv
<1>1. PICK i \in 1 .. Len(rows) :
        CanCall(c) /\ Finds(i) /\ Answer(c, rows[i]) /\ UNCHANGED <<rows, remote>>
  BY DEF FindSettled
<1>2. faults' = faults
  BY <1>0, <1>1 DEF Finds
<1>3. faults' \in 0 .. MaxFaults /\ faults' >= faults
  BY <1>2, Sizes DEF OcrInv, OcrTypeOK, OcrTyped
<1>4. rows[i] \in Row \cup {NoTask} /\ rows[i].ref <= Len(remote)
  BY EntryTypes DEF OcrInv
<1>5. step[c] \notin Submitting
  BY <1>1 DEF CanCall, Submitting
<1>. QED
  BY <1>1, <1>3, <1>4, <1>5, AnswerKeeps

LEMMA FindNoneKeeps ==
    ASSUME OcrInv, NEW c \in Callers, FindNone(c)
    PROVE  OcrInv'
<1>1. PICK i \in 0 .. Len(rows) :
        /\ CanCall(c)
        /\ Finds(i)
        /\ Goto(c, "create")
        /\ copy' = [copy EXCEPT ![c] = NewRow]
        /\ UNCHANGED <<rows, remote, at, view>>
  BY DEF FindNone
<1>2. faults' \in 0 .. MaxFaults /\ faults' >= faults
  BY <1>1, FaultTypes, Sizes DEF Finds, Fault, OcrInv, OcrTypeOK, OcrTyped
<1>3. \A d \in Callers \ {c} : step'[d] = step[d] /\ at'[d] = at[d] /\ copy'[d] = copy[d]
  BY <1>1 DEF Goto, OcrInv, OcrTypeOK, OcrTyped
<1>4. step'[c] = "create" /\ at'[c] = at[c] /\ copy'[c] = NewRow
  BY <1>1 DEF Goto, OcrInv, OcrTypeOK, OcrTyped
<1>5. OcrTyped'
  BY <1>1, <1>2, RowTypes DEF Goto, OcrInv, OcrTypeOK, OcrTyped, Step
<1>6. CallFits(c)' /\ RowOwned(c)'
  BY <1>1, <1>4, RowTypes, Sizes DEF OcrInv, OcrTypeOK, CallFits, RowOwned, Submitting, Asking
<1>7. OcrTypeOK' /\ Owned'
  <2>1. Len(rows') >= Len(rows) /\ Len(remote') >= Len(remote)
    BY <1>1, Sizes DEF OcrInv
  <2>2. step'[c] \notin Submitting
    BY <1>4 DEF Submitting
  <2>3. /\ \A j \in 1 .. Len(rows') : rows'[j].ref <= Len(remote')
        /\ \A j \in 1 .. Len(rows) : rows'[j].ref = rows[j].ref
    BY <1>1 DEF OcrInv, OcrTypeOK
  <2>. QED
    BY <1>2, <1>3, <1>5, <1>6, <2>1, <2>2, <2>3, CallKeeps
<1>8. NoOrphanTask'
  <2>1. faults' = 0 => faults = 0
    BY <1>2, Sizes DEF OcrInv
  <2>2. step[c] \notin {"submitted", "record"}
    BY <1>1 DEF CanCall
  <2>. QED
    BY <1>1, <1>3, <1>4, <2>1, <2>2 DEF OcrInv, NoOrphanTask, HasOwner
<1>. QED
  BY <1>7, <1>8 DEF OcrInv

LEMMA CreateKeeps ==
    ASSUME OcrInv, NEW c \in Callers, CreateOCRTask(c)
    PROVE  OcrInv'
<1>1. /\ step[c] = "create" /\ Len(rows) < MaxTasks
      /\ step' = [step EXCEPT ![c] = "submit"]
      /\ UNCHANGED <<remote, copy, view>>
  BY DEF CreateOCRTask, Goto
<1>2. \/ rows' = Append(rows, NewRow) /\ at' = [at EXCEPT ![c] = Len(rows) + 1] /\ UNCHANGED faults
      \/ rows' \in {rows, Append(rows, NewRow)} /\ at' = [at EXCEPT ![c] = 0] /\ Fault
  BY DEF CreateOCRTask
<1>3. rows \in Seq(Row) /\ NewRow \in Row /\ Len(rows) \in Nat /\ faults \in Nat
  BY RowTypes, Sizes DEF OcrInv, OcrTypeOK, OcrTyped
<1>4. faults' \in 0 .. MaxFaults /\ faults' >= faults /\ (at'[c] = 0 => faults' > 0)
  BY <1>2, <1>3, FaultTypes DEF Fault, OcrInv, OcrTypeOK, OcrTyped
<1>5. /\ rows' \in Seq(Row) /\ Len(rows') \in {Len(rows), Len(rows) + 1}
      /\ \A i \in 1 .. Len(rows) : rows'[i] = rows[i]
      /\ Len(rows') # Len(rows) => rows'[Len(rows) + 1] = NewRow
  BY <1>2, <1>3, AppendProperties
<1>6. /\ at' \in [Callers -> 0 .. MaxTasks] /\ at'[c] \in {0, Len(rows) + 1}
      /\ at'[c] # 0 => at'[c] = Len(rows) + 1 /\ rows' = Append(rows, NewRow)
  <2>1. Len(rows) + 1 \in 0 .. MaxTasks /\ 0 \in 0 .. MaxTasks /\ Len(rows) + 1 # 0
    BY <1>1, <1>3, OcrAssumption
  <2>2. at \in [Callers -> 0 .. MaxTasks]
    BY DEF OcrInv, OcrTypeOK, OcrTyped
  <2>. QED
    BY <1>2, <2>1, <2>2
<1>7. \A d \in Callers \ {c} : step'[d] = step[d] /\ at'[d] = at[d] /\ copy'[d] = copy[d]
  BY <1>1, <1>2 DEF OcrInv, OcrTypeOK, OcrTyped
<1>8. step'[c] = "submit" /\ copy'[c] = copy[c] /\ Len(rows') >= Len(rows)
  BY <1>1, <1>3, <1>5 DEF OcrInv, OcrTypeOK, OcrTyped
<1>9. OcrTyped'
  <2>1. Len(rows') <= MaxTasks
    BY <1>1, <1>3, <1>5, OcrAssumption
  <2>. QED
    BY <1>1, <1>4, <1>5, <1>6, <2>1 DEF OcrInv, OcrTypeOK, OcrTyped, Step
<1>10. at'[c] # 0 => Len(rows') = Len(rows) + 1 /\ rows'[Len(rows) + 1] = NewRow
  BY <1>3, <1>6, AppendProperties
<1>11. CallFits(c)' /\ RowOwned(c)'
  <2>1. CallFits(c)
    BY DEF OcrInv, OcrTypeOK
  <2>2. CallFits(c)'
    BY <2>1, <1>1, <1>3, <1>5, <1>6, <1>8, <1>10 DEF CallFits
  <2>3. RowOwned(c)'
    BY <1>4, <1>6, <1>8, <1>10, RowTypes DEF RowOwned, Submitting, Asking
  <2>. QED
    BY <2>2, <2>3
<1>12. \A i \in 1 .. Len(rows') : rows'[i].ref <= Len(remote')
  BY <1>1, <1>3, <1>5, RowTypes, Sizes DEF OcrInv, OcrTypeOK
<1>13. at'[c] # 0 => \A d \in Callers \ {c} : at[d] # at'[c]
  BY <1>3, <1>6, EntryTypes DEF OcrInv, OcrTypeOK, CallFits
<1>14. OcrTypeOK' /\ Owned'
  <2>1. Len(remote') >= Len(remote)
    BY <1>1, Sizes DEF OcrInv
  <2>2. \A j \in 1 .. Len(rows) : rows'[j].ref = rows[j].ref
    BY <1>5
  <2>. QED
    BY <1>4, <1>7, <1>8, <1>9, <1>11, <1>12, <1>13, <2>1, <2>2, CallKeeps
<1>15. NoOrphanTask'
  <2>. SUFFICES ASSUME faults' = 0, NEW k \in 1 .. Len(remote), remote[k].known
                PROVE  HasOwner(k)'
    BY <1>1, EntryTypes DEF OcrInv, NoOrphanTask
  <2>1. HasOwner(k)
    BY <1>3, <1>4, EntryTypes DEF OcrInv, NoOrphanTask
  <2>2. ASSUME NEW i \in DOMAIN rows, rows[i].ref = k PROVE i \in DOMAIN rows' /\ rows'[i].ref = k
    BY <2>2, <1>3, <1>5
  <2>3. ASSUME NEW d \in Callers, copy[d].ref = k, step[d] \in {"submitted", "record"}, at[d] # 0
        PROVE  copy'[d].ref = k /\ step'[d] \in {"submitted", "record"} /\ at'[d] # 0
    BY <2>3, <1>1, <1>7
  <2>. QED
    BY <2>1, <2>2, <2>3 DEF HasOwner
<1>. QED
  BY <1>14, <1>15 DEF OcrInv

LEMMA SubmitKeeps ==
    ASSUME OcrInv, NEW c \in Callers, SubmitTask(c)
    PROVE  OcrInv'
<1>1. /\ step[c] = "submit" /\ Len(remote) < MaxTasks
      /\ remote' = Append(remote, NewRemote)
      /\ copy' = [copy EXCEPT ![c].ref = Len(remote) + 1]
      /\ step' = [step EXCEPT ![c] = "submitted"]
      /\ UNCHANGED <<rows, at, view, faults>>
  BY DEF SubmitTask, Goto
<1>2. /\ remote' \in Seq(Remote) /\ Len(remote') = Len(remote) + 1
      /\ \A k \in 1 .. Len(remote) : remote'[k] = remote[k]
  <2>1. remote \in Seq(Remote) /\ NewRemote \in Remote
    BY RowTypes DEF OcrInv, OcrTypeOK, OcrTyped
  <2>. QED
    BY <1>1, <2>1, AppendProperties
<1>3. Len(remote) \in Nat /\ Len(remote') >= Len(remote) /\ Len(remote) + 1 \in 0 .. MaxTasks
  BY <1>1, <1>2, Sizes, OcrAssumption DEF OcrInv
<1>4. \A d \in Callers \ {c} : step'[d] = step[d] /\ at'[d] = at[d] /\ copy'[d] = copy[d]
  BY <1>1 DEF OcrInv, OcrTypeOK, OcrTyped
<1>5. CallFits(c) /\ RowOwned(c) /\ copy[c] \in Row
  BY <1>1 DEF OcrInv, OcrTypeOK, Owned, CallFits
<1>6. copy'[c] \in Row /\ copy'[c].ref = Len(remote) + 1
  <2>1. copy'[c] = [copy[c] EXCEPT !.ref = Len(remote) + 1]
    BY <1>1 DEF OcrInv, OcrTypeOK, OcrTyped
  <2>. QED
    BY <2>1, <1>3, <1>5 DEF Row
<1>7. step'[c] = "submitted" /\ at'[c] = at[c]
  BY <1>1 DEF OcrInv, OcrTypeOK, OcrTyped
<1>8. OcrTyped'
  <2>1. copy' \in [Callers -> Row \cup {NoTask}]
    BY <1>1, <1>4, <1>6 DEF OcrInv, OcrTypeOK, OcrTyped
  <2>2. step' \in [Callers -> Step]
    BY <1>1 DEF OcrInv, OcrTypeOK, OcrTyped, Step
  <2>3. Len(remote') <= MaxTasks
    BY <1>2, <1>3
  <2>. QED
    BY <2>1, <2>2, <2>3, <1>1, <1>2 DEF OcrInv, OcrTypeOK, OcrTyped
<1>9. CallFits(c)' /\ RowOwned(c)'
  <2>1. CallFits(c)'
    BY <1>1, <1>2, <1>3, <1>5, <1>6, <1>7 DEF CallFits
  <2>2. RowOwned(c)'
    BY <1>1, <1>5, <1>7 DEF RowOwned, Submitting, Asking
  <2>. QED
    BY <2>1, <2>2
<1>10. OcrTypeOK' /\ Owned'
  <2>1. Len(rows') >= Len(rows) /\ faults' >= faults
    BY <1>1, Sizes DEF OcrInv
  <2>2. /\ \A j \in 1 .. Len(rows') : rows'[j].ref <= Len(remote')
        /\ \A j \in 1 .. Len(rows) : rows'[j].ref = rows[j].ref
    BY <1>1, <1>2, EntryTypes DEF OcrInv
  <2>3. at'[c] # 0 => \A d \in Callers \ {c} : step[d] \in Submitting => at[d] # at'[c]
    BY <1>1, <1>7 DEF OcrInv, Owned, Submitting
  <2>. QED
    BY <1>3, <1>4, <1>8, <1>9, <2>1, <2>2, <2>3, CallKeeps
<1>11. NoOrphanTask'
  <2>. SUFFICES ASSUME faults = 0, NEW k \in 1 .. Len(remote'), remote'[k].known
                PROVE  HasOwner(k)'
    BY <1>1, <1>2 DEF NoOrphanTask
  <2>1. CASE k = Len(remote) + 1
    <3>1. at[c] # 0
      BY <1>1, <1>5 DEF RowOwned, Submitting
    <3>. QED
      BY <2>1, <3>1, <1>6, <1>7 DEF HasOwner
  <2>2. CASE k # Len(remote) + 1
    <3>1. k \in 1 .. Len(remote) /\ remote[k].known
      BY <2>2, <1>2, <1>3
    <3>2. HasOwner(k)
      BY <3>1, EntryTypes DEF OcrInv, NoOrphanTask
    <3>. QED
      BY <3>2, <1>1, <1>4 DEF HasOwner
  <2>. QED
    BY <2>1, <2>2
<1>. QED
  BY <1>10, <1>11 DEF OcrInv

\* The copy of a submission changes, its reference is kept or the task lost.
LEMMA AfterSubmit ==
    ASSUME OcrInv, NEW c \in Callers, NEW row \in Row,
           step[c] \in {"submit", "submitted"},
           step' = [step EXCEPT ![c] = "record"],
           copy' = [copy EXCEPT ![c] = row],
           UNCHANGED <<rows, remote, at, view>>,
           faults' \in 0 .. MaxFaults, faults' >= faults,
           row.ref <= Len(remote),
           \/ row.ref = copy[c].ref
           \/ step[c] = "submitted" /\ ~ remote[copy[c].ref].known
           \/ faults' > 0
    PROVE  OcrInv'
<1>1. \A d \in Callers \ {c} : step'[d] = step[d] /\ at'[d] = at[d] /\ copy'[d] = copy[d]
  BY DEF OcrInv, OcrTypeOK, OcrTyped
<1>2. CallFits(c) /\ RowOwned(c) /\ faults \in Nat /\ Len(rows) \in Nat /\ Len(remote) \in Nat
  BY Sizes DEF OcrInv, OcrTypeOK, Owned
<1>3. step'[c] = "record" /\ at'[c] = at[c] /\ copy'[c] = row
  BY DEF OcrInv, OcrTypeOK, OcrTyped
<1>4. OcrTyped'
  BY DEF OcrInv, OcrTypeOK, OcrTyped, Step
<1>5. CallFits(c)' /\ RowOwned(c)'
  <2>1. CallFits(c)'
    BY <1>2, <1>3 DEF CallFits
  <2>2. RowOwned(c)'
    BY <1>2, <1>3 DEF RowOwned, Submitting, Asking
  <2>. QED
    BY <2>1, <2>2
<1>6. OcrTypeOK' /\ Owned'
  <2>1. Len(rows') >= Len(rows) /\ Len(remote') >= Len(remote)
    BY <1>2
  <2>2. /\ \A j \in 1 .. Len(rows') : rows'[j].ref <= Len(remote')
        /\ \A j \in 1 .. Len(rows) : rows'[j].ref = rows[j].ref
    BY DEF OcrInv, OcrTypeOK
  <2>3. at'[c] # 0 => \A d \in Callers \ {c} : step[d] \in Submitting => at[d] # at'[c]
    BY <1>3 DEF OcrInv, Owned, Submitting
  <2>. QED
    BY <1>1, <1>4, <1>5, <2>1, <2>2, <2>3, CallKeeps
<1>7. NoOrphanTask'
  <2>. SUFFICES ASSUME faults' = 0, NEW k \in DOMAIN remote, remote[k].known
                PROVE  HasOwner(k)'
    BY DEF NoOrphanTask
  <2>1. HasOwner(k)
    BY <1>2 DEF OcrInv, NoOrphanTask
  <2>2. ASSUME copy[c].ref = k, step[c] = "submitted", at[c] # 0 PROVE copy'[c].ref = k
    BY <2>2, <1>3
  <2>. QED
    BY <2>1, <2>2, <1>1, <1>3 DEF HasOwner
<1>. QED
  BY <1>6, <1>7 DEF OcrInv

LEMMA ReplyKeeps ==
    ASSUME OcrInv, NEW c \in Callers, SubmitReply(c)
    PROVE  OcrInv'
<1> DEFINE k == copy[c].ref
           row == [copy[c] EXCEPT !.status = remote[k].status]
<1>1. step[c] = "submitted" /\ CallFits(c) /\ copy[c] \in Row
  BY DEF SubmitReply, OcrInv, OcrTypeOK, CallFits
<1>2. k \in 1 .. Len(remote)
  BY <1>1, EntryTypes DEF OcrInv, CallFits
<1>3. row \in Row /\ row.ref = copy[c].ref
  BY <1>1, <1>2, EntryTypes DEF Row, OcrInv
<1>4. copy' = [copy EXCEPT ![c] = row]
  BY DEF SubmitReply, OcrInv, OcrTypeOK, OcrTyped
<1>5. step' = [step EXCEPT ![c] = "record"] /\ UNCHANGED <<rows, remote, at, view, faults>>
  BY DEF SubmitReply, Goto
<1>6. faults' \in 0 .. MaxFaults /\ faults' >= faults
  BY <1>5, Sizes DEF OcrInv, OcrTypeOK, OcrTyped
<1>7. row.ref <= Len(remote)
  BY <1>1, <1>3 DEF CallFits
<1>. HIDE DEF row, k
<1>. QED
  BY <1>1, <1>3, <1>4, <1>5, <1>6, <1>7, AfterSubmit

LEMMA SubmitFailsKeeps ==
    ASSUME OcrInv, NEW c \in Callers, SubmitFails(c)
    PROVE  OcrInv'
<1>1. /\ step[c] \in {"submit", "submitted"}
      /\ step' = [step EXCEPT ![c] = "record"]
      /\ copy' = [copy EXCEPT ![c] = FailedRow]
      /\ UNCHANGED <<rows, remote, at, view>>
  BY DEF SubmitFails, Goto
<1>2. \/ step[c] = "submitted" /\ ~ remote[copy[c].ref].known /\ UNCHANGED faults
      \/ Fault
  BY DEF SubmitFails
<1>3. faults' \in 0 .. MaxFaults /\ faults' >= faults
  BY <1>2, Sizes, FaultTypes DEF Fault, OcrInv, OcrTypeOK, OcrTyped
<1>4. FailedRow \in Row /\ FailedRow.ref <= Len(remote)
  BY RowTypes, Sizes DEF OcrInv
<1>5. \/ step[c] = "submitted" /\ ~ remote[copy[c].ref].known
      \/ faults' > 0
  BY <1>2, FaultTypes DEF OcrInv
<1>. QED
  BY <1>1, <1>3, <1>4, <1>5, AfterSubmit

\* A call that ends with a write of its row: what it writes is not another task,
\* unless it records its own.
LEMMA WriteKeeps ==
    ASSUME OcrInv, NEW c \in Callers, NEW row \in Row, NEW task \in Row \cup {NoTask},
           at[c] # 0, rows' = rows \/ Update(c, row), Answer(c, task),
           row.ref <= Len(remote), task.ref <= Len(remote),
           step[c] = "record" \/ row.ref = rows[at[c]].ref,
           faults' \in 0 .. MaxFaults, faults' >= faults,
           UNCHANGED remote,
           \/ row.ref = rows[at[c]].ref /\ step[c] \notin Submitting
           \/ row.ref = copy[c].ref /\ step[c] = "record" /\ Update(c, row)
           \/ faults' > 0
    PROVE  OcrInv'
<1>1. at[c] \in 1 .. Len(rows) /\ Len(rows) \in Nat /\ Len(remote) \in Nat /\ faults \in Nat
  BY Sizes, EntryTypes DEF OcrInv, OcrTypeOK, CallFits
<1>2. /\ rows' \in Seq(Row) /\ Len(rows') = Len(rows)
      /\ \A i \in 1 .. Len(rows) : i # at[c] => rows'[i] = rows[i]
      /\ rows'[at[c]] \in {rows[at[c]], row}
      /\ Update(c, row) => rows'[at[c]] = row
  BY <1>1, UpdateTypes DEF OcrInv, OcrTypeOK, OcrTyped
<1>3. /\ step' \in [Callers -> Step]
      /\ at' \in [Callers -> 0 .. MaxTasks]
      /\ copy' \in [Callers -> Row \cup {NoTask}]
      /\ view' \in [Callers -> View]
      /\ step'[c] \in {"idle", "done"} /\ at'[c] = 0 /\ copy'[c].ref <= Len(remote)
      /\ \A d \in Callers \ {c} :
            step'[d] = step[d] /\ at'[d] = at[d] /\ copy'[d] = copy[d] /\ view'[d] = view[d]
  BY AnswerTypes DEF OcrInv
<1>4. OcrTyped'
  BY <1>2, <1>3 DEF OcrInv, OcrTypeOK, OcrTyped
<1>5. CallFits(c)' /\ RowOwned(c)'
  BY <1>1, <1>2, <1>3 DEF CallFits, RowOwned, Submitting, Asking
<1>6. \A i \in 1 .. Len(rows') : rows'[i].ref <= Len(remote')
  BY <1>1, <1>2 DEF OcrInv, OcrTypeOK
<1>7. \A i \in 1 .. Len(rows) : rows'[i].ref # rows[i].ref => step[c] \in Submitting /\ i = at[c]
  BY <1>1, <1>2 DEF Submitting
<1>8. OcrTypeOK' /\ Owned'
  <2>1. Len(rows') >= Len(rows) /\ Len(remote') >= Len(remote)
    BY <1>1, <1>2
  <2>. QED
    BY <1>3, <1>4, <1>5, <1>6, <1>7, <2>1, CallKeeps
<1>9. NoOrphanTask'
  <2>. SUFFICES ASSUME faults' = 0, NEW k \in 1 .. Len(remote), remote[k].known
                PROVE  HasOwner(k)'
    BY <1>1, EntryTypes DEF OcrInv, NoOrphanTask
  <2>1. faults = 0 /\ HasOwner(k)
    BY <1>1, EntryTypes DEF OcrInv, NoOrphanTask
  <2>2. ASSUME NEW i \in 1 .. Len(rows), rows[i].ref = k PROVE rows'[i].ref = k
    <3>1. CASE i # at[c]
      BY <2>2, <3>1, <1>2
    <3>2. CASE i = at[c] /\ step[c] \in Submitting
      <4>1. rows[i].ref = 0
        BY <3>2, <1>1 DEF OcrInv, Owned, RowOwned
      <4>. QED
        BY <4>1, <2>2
    <3>3. CASE i = at[c] /\ step[c] \notin Submitting
      <4>1. row.ref = rows[i].ref
        BY <3>3 DEF Submitting
      <4>. QED
        BY <4>1, <2>2, <3>3, <1>2
    <3>. QED
      BY <3>1, <3>2, <3>3
  <2>3. ASSUME copy[c].ref = k, step[c] \in {"submitted", "record"} PROVE rows'[at[c]].ref = k
    BY <2>3, <2>1, <1>2 DEF Submitting
  <2>4. DOMAIN rows = 1 .. Len(rows) /\ DOMAIN rows' = 1 .. Len(rows)
    BY <1>2, EntryTypes DEF OcrInv
  <2>5. CASE \E i \in 1 .. Len(rows) : rows[i].ref = k
    BY <2>5, <2>2, <2>4 DEF HasOwner
  <2>6. CASE copy[c].ref = k /\ step[c] \in {"submitted", "record"}
    BY <2>6, <2>3, <2>4, <1>1 DEF HasOwner
  <2>7. CASE \E d \in Callers \ {c} :
                copy[d].ref = k /\ step[d] \in {"submitted", "record"} /\ at[d] # 0
    BY <2>7, <1>3 DEF HasOwner
  <2>. QED
    BY <2>1, <2>4, <2>5, <2>6, <2>7 DEF HasOwner
<1>. QED
  BY <1>8, <1>9 DEF OcrInv

LEMMA RecordKeeps ==
    ASSUME OcrInv, NEW c \in Callers, RecordSubmission(c)
    PROVE  OcrInv'
<1>1. step[c] = "record" /\ UNCHANGED remote
  BY DEF RecordSubmission
<1>2. /\ copy[c] \in Row /\ copy[c].ref <= Len(remote) /\ RowOwned(c)
      /\ copy[c].ref \in Nat /\ Len(remote) \in Nat /\ faults \in 0 .. MaxFaults /\ faults \in Nat
  BY <1>1, EntryTypes, Sizes DEF OcrInv, OcrTypeOK, OcrTyped, CallFits, Owned
<1>3. NoTask.ref <= Len(remote)
  BY <1>2, RowTypes
<1>4. CASE at[c] # 0 /\ Update(c, copy[c]) /\ Answer(c, copy[c]) /\ UNCHANGED faults
  <2>1. faults' \in 0 .. MaxFaults /\ faults' >= faults
    BY <1>2, <1>4
  <2>. QED
    BY <2>1, <1>1, <1>2, <1>4, WriteKeeps
<1>5. CASE at[c] = 0 /\ Answer(c, NoTask) /\ UNCHANGED <<rows, faults>>
  <2>1. faults > 0
    BY <1>1, <1>2, <1>5 DEF RowOwned, Submitting
  <2>2. /\ step' \in [Callers -> Step]
        /\ at' \in [Callers -> 0 .. MaxTasks]
        /\ copy' \in [Callers -> Row \cup {NoTask}]
        /\ view' \in [Callers -> View]
        /\ step'[c] \in {"idle", "done"} /\ at'[c] = 0 /\ copy'[c].ref <= Len(remote)
        /\ \A d \in Callers \ {c} :
            step'[d] = step[d] /\ at'[d] = at[d] /\ copy'[d] = copy[d] /\ view'[d] = view[d]
    BY <1>3, <1>5, AnswerTypes DEF OcrInv
  <2>3. OcrTyped'
    BY <2>2, <1>1, <1>5 DEF OcrInv, OcrTypeOK, OcrTyped
  <2>4. CallFits(c)' /\ RowOwned(c)'
    BY <2>2, <1>1, <1>5, Sizes DEF OcrInv, CallFits, RowOwned, Submitting, Asking
  <2>5. Len(rows') >= Len(rows) /\ Len(remote') >= Len(remote) /\ faults' >= faults
    BY <1>1, <1>5, Sizes DEF OcrInv
  <2>6. /\ \A j \in 1 .. Len(rows') : rows'[j].ref <= Len(remote')
        /\ \A j \in 1 .. Len(rows) : rows'[j].ref = rows[j].ref
    BY <1>1, <1>5 DEF OcrInv, OcrTypeOK
  <2>7. OcrTypeOK' /\ Owned'
    BY <2>2, <2>3, <2>4, <2>5, <2>6, CallKeeps
  <2>8. NoOrphanTask'
    BY <2>1, <1>5 DEF NoOrphanTask
  <2>. QED
    BY <2>7, <2>8 DEF OcrInv
<1>6. CASE at[c] # 0 /\ (UNCHANGED rows \/ Update(c, copy[c])) /\ Answer(c, NoTask) /\ Fault
  <2>1. faults' \in 0 .. MaxFaults /\ faults' >= faults /\ faults' > 0
    BY <1>2, <1>6, FaultTypes DEF OcrInv, Fault
  <2>2. rows' = rows \/ Update(c, copy[c])
    BY <1>6
  <2>. QED
    BY <2>1, <2>2, <1>1, <1>2, <1>3, <1>6, WriteKeeps
<1>. QED
  BY <1>4, <1>5, <1>6 DEF RecordSubmission

\* A poll that goes on reading changes its view only.
LEMMA ReadKeeps ==
    ASSUME OcrInv, NEW c \in Callers, ReadStatus(c) \/ ReadResult(c)
    PROVE  OcrInv'
<1> DEFINE k == copy[c].ref
<1>1. /\ step[c] \in {"ask", "asked"} /\ UNCHANGED <<rows, remote, at, copy, faults>>
      /\ step' \in {[step EXCEPT ![c] = "asked"], [step EXCEPT ![c] = "store"]}
  BY DEF ReadStatus, ReadResult, Goto
<1>2. CallFits(c) /\ RowOwned(c)
  BY DEF OcrInv, OcrTypeOK, Owned
<1>3. k \in 1 .. Len(remote)
  BY <1>1, <1>2, EntryTypes DEF OcrInv, CallFits
<1>4. view[c] \in View
  BY DEF OcrInv, OcrTypeOK, OcrTyped
<1>5. /\ [view[c] EXCEPT !.status = remote[k].status] \in View
      /\ [view[c] EXCEPT !.result = remote[k].result] \in View
  BY <1>3, <1>4, EntryTypes DEF View, OcrInv
<1>6. view' \in [Callers -> View]
  <2>. DEFINE v == [view[c] EXCEPT !.status = remote[k].status]
              r == [view[c] EXCEPT !.result = remote[k].result]
  <2>1. view' = [view EXCEPT ![c] = v] \/ view' = [view EXCEPT ![c] = r]
    BY DEF ReadStatus, ReadResult, OcrInv, OcrTypeOK, OcrTyped
  <2>2. v \in View /\ r \in View
    BY <1>5
  <2>. HIDE DEF v, r
  <2>. QED
    BY <2>1, <2>2 DEF OcrInv, OcrTypeOK, OcrTyped
<1>7. /\ step' \in [Callers -> Step] /\ step'[c] \in {"asked", "store"}
      /\ \A d \in Callers \ {c} : step'[d] = step[d]
  BY <1>1 DEF OcrInv, OcrTypeOK, OcrTyped, Step
<1>8. OcrTyped'
  BY <1>1, <1>6, <1>7 DEF OcrInv, OcrTypeOK, OcrTyped
<1>9. CallFits(c)' /\ RowOwned(c)'
  <2>1. CallFits(c)'
    BY <1>1, <1>2, <1>7 DEF CallFits
  <2>2. RowOwned(c)'
    BY <1>1, <1>2, <1>7 DEF RowOwned, Submitting, Asking
  <2>. QED
    BY <2>1, <2>2
<1>10. OcrTypeOK' /\ Owned'
  <2>1. Len(rows') >= Len(rows) /\ Len(remote') >= Len(remote) /\ faults' >= faults
    BY <1>1, Sizes DEF OcrInv
  <2>2. /\ \A j \in 1 .. Len(rows') : rows'[j].ref <= Len(remote')
        /\ \A j \in 1 .. Len(rows) : rows'[j].ref = rows[j].ref
    BY <1>1 DEF OcrInv, OcrTypeOK
  <2>3. step'[c] \notin Submitting
    BY <1>7 DEF Submitting
  <2>. QED
    BY <1>1, <1>7, <1>8, <1>9, <2>1, <2>2, <2>3, CallKeeps
<1>11. NoOrphanTask'
  BY <1>1, <1>7 DEF OcrInv, NoOrphanTask, HasOwner
<1>. QED
  BY <1>10, <1>11 DEF OcrInv

LEMMA AskFailsKeeps ==
    ASSUME OcrInv, NEW c \in Callers, AskFails(c)
    PROVE  OcrInv'
<1>1. step[c] \notin Submitting /\ Answer(c, copy[c]) /\ UNCHANGED <<rows, remote>>
  BY DEF AskFails, Submitting
<1>2. faults' \in 0 .. MaxFaults /\ faults' >= faults
  BY FaultTypes, Sizes DEF AskFails, Fault, OcrInv, OcrTypeOK, OcrTyped
<1>3. copy[c] \in Row \cup {NoTask} /\ copy[c].ref <= Len(remote)
  BY DEF OcrInv, OcrTypeOK, OcrTyped, CallFits
<1>. QED
  BY <1>1, <1>2, <1>3, AnswerKeeps

LEMMA StoreKeeps ==
    ASSUME OcrInv, NEW c \in Callers, StoreView(c)
    PROVE  OcrInv'
<1>1. step[c] = "store" /\ UNCHANGED remote
  BY DEF StoreView
<1>2. /\ CallFits(c) /\ RowOwned(c) /\ copy[c] \in Row
      /\ copy[c].ref \in 0 .. MaxTasks /\ copy[c].result \in BOOLEAN
      /\ view[c].status \in TaskStatus /\ view[c].result \in BOOLEAN
  <2>1. copy[c] \in Row /\ view[c] \in View /\ CallFits(c) /\ RowOwned(c)
    BY <1>1 DEF OcrInv, OcrTypeOK, OcrTyped, CallFits, Owned
  <2>. QED
    BY <2>1 DEF Row, View
<1>3. Synced(c) \in Row /\ Synced(c).ref = copy[c].ref
  BY <1>2 DEF Synced, Row
<1>4. /\ at[c] # 0 /\ copy[c].ref <= Len(remote) /\ rows[at[c]].ref = copy[c].ref
      /\ step[c] \notin Submitting
  BY <1>1, <1>2 DEF CallFits, RowOwned, Asking, Submitting
<1>5. faults' \in 0 .. MaxFaults /\ faults' >= faults
  BY FaultTypes, Sizes DEF StoreView, Fault, OcrInv, OcrTypeOK, OcrTyped
<1>6. PICK task \in {copy[c], Synced(c)} : Answer(c, task)
  BY DEF StoreView
<1>7. rows' = rows \/ Update(c, Synced(c))
  BY DEF StoreView
<1>8. task \in Row \cup {NoTask} /\ task.ref <= Len(remote)
  BY <1>2, <1>3, <1>4
<1>. QED
  BY <1>1, <1>3, <1>4, <1>5, <1>6, <1>7, <1>8, WriteKeeps

-----------------------------------------------------------------------------
(* The provider. *)

LEMMA ProviderKeeps ==
    ASSUME OcrInv, Provider
    PROVE  OcrInv'
<1>1. UNCHANGED <<rows, step, at, copy, view>>
  BY DEF Provider, RestartProvider, Thread
<1>2. faults' \in 0 .. MaxFaults /\ faults' >= faults
  BY FaultTypes, Sizes DEF Provider, RestartProvider, Thread, Fault, OcrInv, OcrTypeOK, OcrTyped
<1>3. /\ remote \in Seq(Remote) /\ Len(remote) \in Nat /\ Len(remote) <= MaxTasks
      /\ DOMAIN remote = 1 .. Len(remote)
  BY EntryTypes DEF OcrInv, OcrTypeOK, OcrTyped
<1>4. /\ remote' \in Seq(Remote) /\ Len(remote') = Len(remote)
      /\ \A k \in 1 .. Len(remote) : remote'[k].known => remote[k].known
  <2>1. CASE RestartProvider
    <3>1. remote' = [k \in 1 .. Len(remote) |-> LostRemote]
      BY <2>1, <1>3 DEF RestartProvider
    <3>2. remote' \in Seq(Remote) /\ Len(remote') = Len(remote)
      BY <3>1, <1>3, RowTypes, IsASeq
    <3>. QED
      BY <3>1, <3>2, RowTypes
  <2>2. ASSUME NEW k \in 1 .. Len(remote), Thread(k) 
        PROVE  /\ remote' \in Seq(Remote) /\ Len(remote') = Len(remote)
               /\ \A j \in 1 .. Len(remote) : remote'[j].known => remote[j].known
    <3>1. PICK task : remote' = [remote EXCEPT ![k] = task] /\ task \in Remote /\ remote[k].known
      <4>. DEFINE ends(s) == [remote[k] EXCEPT !.status = s]
                  full == [remote[k] EXCEPT !.result = TRUE]
      <4>1. /\ remote[k].known
            /\ \/ \E s \in {"succeeded", "failed"} : remote' = [remote EXCEPT ![k] = ends(s)]
               \/ remote' = [remote EXCEPT ![k] = full]
        BY <2>2, <1>3 DEF Thread
      <4>2. full \in Remote /\ \A s \in {"succeeded", "failed"} : ends(s) \in Remote
        BY EntryTypes DEF Remote, TaskStatus, OcrInv
      <4>. HIDE DEF ends, full
      <4>. QED
        BY <4>1, <4>2
    <3>. QED
      BY <3>1, <1>3, ExceptSeq
  <2>. QED
    BY <2>1, <2>2, <1>3 DEF Provider
<1>5. OcrTypeOK'
  BY <1>1, <1>2, <1>3, <1>4 DEF OcrInv, OcrTypeOK, OcrTyped, CallFits
<1>6. Owned'
  BY <1>1, <1>2, Sizes DEF OcrInv, Owned, RowOwned
<1>7. NoOrphanTask'
  <2>1. DOMAIN remote' = 1 .. Len(remote)
    BY <1>4
  <2>2. faults' = 0 => faults = 0
    BY <1>2, Sizes DEF OcrInv
  <2>. QED
    BY <2>1, <2>2, <1>1, <1>3, <1>4 DEF OcrInv, NoOrphanTask, HasOwner
<1>. QED
  BY <1>5, <1>6, <1>7 DEF OcrInv

LEMMA CallStepKeeps ==
    ASSUME OcrInv, NEW c \in Callers, EnsureTask(c) \/ GetTaskStatus(c) \/ Proceed(c)
    PROVE  OcrInv'
BY FindOpenKeeps, FindSettledKeeps, FindNoneKeeps, CreateKeeps, SubmitKeeps, ReplyKeeps,
   SubmitFailsKeeps, RecordKeeps, ReadKeeps, AskFailsKeeps, StoreKeeps
   DEF EnsureTask, GetTaskStatus, Proceed

-----------------------------------------------------------------------------
(* The index job. *)

IInv ==
    /\ OcrInv
    /\ TypeOK
    /\ SearchableWhenSucceeded
    /\ \A w \in Workers : wstep[w] = "succeed" => indexed
    /\ NoLostJob
    /\ Cardinality(Busy) + (IF job.status \in {"pending", "failed"} THEN 1 ELSE 0) <= enqueues
    /\ RetriesAreBounded

LEMMA BusyIsFinite ==
    IsFiniteSet(Busy) /\ Cardinality(Busy) \in Nat
<1>1. Busy \in SUBSET Workers /\ IsFiniteSet(Workers)
  BY IndexAssumption DEF Busy
<1>2. IsFiniteSet(Busy)
  BY <1>1, FS_Subset
<1>. QED
  BY <1>2, FS_CardinalityType

\* How a worker's step changes who is busy.
LEMMA BusyChanges ==
    ASSUME TypeOK, NEW w \in Workers, NEW s \in WorkerStep, WorkerGoto(w, s)
    PROVE  /\ wstep' \in [Workers -> WorkerStep] /\ wstep'[w] = s
           /\ \A v \in Workers \ {w} : wstep'[v] = wstep[v]
           /\ s = "idle" /\ wstep[w] # "idle" => Cardinality(Busy') = Cardinality(Busy) - 1
           /\ s # "idle" /\ wstep[w] # "idle" => Busy' = Busy
           /\ s # "idle" /\ wstep[w] = "idle" => Cardinality(Busy') = Cardinality(Busy) + 1
           /\ s # "idle" => Busy' # {}
<1>1. /\ wstep' \in [Workers -> WorkerStep] /\ wstep'[w] = s
      /\ \A v \in Workers \ {w} : wstep'[v] = wstep[v]
  BY DEF WorkerGoto, TypeOK
<1>2. (w \in Busy <=> wstep[w] # "idle") /\ (w \in Busy' <=> s # "idle")
  BY <1>1 DEF Busy
<1>3. s = "idle" => Busy' = Busy \ {w}
  BY <1>1 DEF Busy
<1>4. s # "idle" => Busy' = Busy \cup {w}
  BY <1>1 DEF Busy
<1>5. s = "idle" /\ wstep[w] # "idle" => Cardinality(Busy') = Cardinality(Busy) - 1
  BY <1>2, <1>3, BusyIsFinite, FS_RemoveElement
<1>6. s # "idle" /\ wstep[w] = "idle" => Cardinality(Busy') = Cardinality(Busy) + 1
  BY <1>2, <1>4, BusyIsFinite, FS_AddElement
<1>7. s # "idle" /\ wstep[w] # "idle" => Busy' = Busy
  BY <1>2, <1>4
<1>. QED
  BY <1>1, <1>2, <1>5, <1>6, <1>7

LEMMA Numbers ==
    ASSUME IInv
    PROVE  /\ faults \in Nat /\ enqueues \in Nat /\ requests \in Nat /\ job.retry \in Nat
           /\ job \in Job /\ job.status \in {"none", "pending", "running", "succeeded", "failed"}
           /\ Cardinality(Busy) \in Nat
<1>1. faults \in Nat
  BY Sizes DEF IInv, OcrInv
<1>2. enqueues \in Nat /\ requests \in Nat /\ job \in Job
  BY DEF IInv, TypeOK
<1>. QED
  BY <1>1, <1>2, BusyIsFinite DEF Job

\* A step that leaves the workers and the job alone, and what it counts.
LEMMA OcrFrame ==
    ASSUME IInv, UNCHANGED <<kind, job, indexed, wstep, enqueues>>,
           requests' \in Nat, enqueues + requests' <= MaxDemands,
           OcrInv', faults' >= faults
    PROVE  IInv'
<1>1. Busy' = Busy
  BY DEF Busy
<1>2. faults \in Nat /\ faults' \in Nat
  BY Sizes, OcrAssumption DEF IInv, OcrInv, OcrTypeOK, OcrTyped
<1>3. TypeOK'
  BY DEF IInv, TypeOK, OcrInv
<1>. QED
  BY <1>1, <1>2, <1>3 DEF IInv, SearchableWhenSucceeded, NoLostJob, RetriesAreBounded

\* OcrInv does not depend on the job, and a fault alone keeps it.
LEMMA OcrUnchanged ==
    ASSUME OcrInv, UNCHANGED <<rows, remote, step, at, copy, view>>,
           UNCHANGED faults \/ Fault
    PROVE  OcrInv' /\ faults' >= faults /\ (UNCHANGED faults \/ faults' > 0) /\ faults' \in Nat
<1>1. faults' \in 0 .. MaxFaults /\ faults' >= faults /\ (UNCHANGED faults \/ faults' > 0)
      /\ faults \in Nat /\ faults' \in Nat
  BY Sizes, FaultTypes, OcrAssumption DEF Fault, OcrInv, OcrTypeOK, OcrTyped
<1>2. OcrTypeOK'
  BY <1>1 DEF OcrInv, OcrTypeOK, OcrTyped, CallFits
<1>3. Owned'
  BY <1>1 DEF OcrInv, Owned, RowOwned
<1>4. NoOrphanTask'
  BY <1>1 DEF OcrInv, NoOrphanTask, HasOwner
<1>. QED
  BY <1>1, <1>2, <1>3, <1>4 DEF OcrInv

\* A step of a worker inside its attempt.
LEMMA AttemptFrame ==
    ASSUME IInv, NEW w \in Workers, NEW s \in WorkerStep \ {"idle"},
           wstep[w] # "idle", WorkerGoto(w, s),
           UNCHANGED <<kind, job, enqueues, requests>>,
           indexed' \in BOOLEAN, indexed => indexed', s = "succeed" => indexed',
           OcrInv', faults' >= faults
    PROVE  IInv'
<1>1. /\ wstep' \in [Workers -> WorkerStep] /\ wstep'[w] = s
      /\ \A v \in Workers \ {w} : wstep'[v] = wstep[v]
      /\ Busy' = Busy
  BY BusyChanges DEF IInv
<1>2. faults \in Nat /\ faults' \in Nat
  BY Sizes, OcrAssumption DEF IInv, OcrInv, OcrTypeOK, OcrTyped
<1>3. TypeOK'
  BY <1>1 DEF IInv, TypeOK, OcrInv
<1>4. SearchableWhenSucceeded' /\ NoLostJob' /\ RetriesAreBounded'
  BY <1>1, <1>2 DEF IInv, SearchableWhenSucceeded, NoLostJob, RetriesAreBounded
<1>5. \A v \in Workers : wstep'[v] = "succeed" => indexed'
  BY <1>1 DEF IInv
<1>. QED
  BY <1>1, <1>3, <1>4, <1>5 DEF IInv

\* The step that ends an attempt, whose UPDATE may be lost.
LEMMA EndFrame ==
    ASSUME IInv, NEW w \in Workers, wstep[w] # "idle", WorkerGoto(w, "idle"),
           UNCHANGED <<kind, indexed, enqueues, requests>>,
           OcrInv', faults' >= faults,
           \/ /\ job' \in Job /\ job'.status \in {"failed", "succeeded"}
              /\ job'.retry <= job.retry + 1
              /\ job'.status = "succeeded" => indexed
           \/ UNCHANGED job /\ faults' > 0
    PROVE  IInv'
<1>1. /\ wstep' \in [Workers -> WorkerStep] /\ wstep'[w] = "idle"
      /\ \A v \in Workers \ {w} : wstep'[v] = wstep[v]
      /\ Cardinality(Busy') = Cardinality(Busy) - 1
  BY BusyChanges DEF IInv, WorkerStep
<1>2. /\ faults \in Nat /\ faults' \in Nat
      /\ Cardinality(Busy) \in Nat /\ enqueues \in Nat
      /\ job \in Job /\ job' \in Job /\ job.retry \in Nat /\ job'.retry \in Nat
      /\ job'.retry <= job.retry + 1
  BY Sizes, OcrAssumption, Numbers DEF IInv, OcrInv, OcrTypeOK, OcrTyped, Job
<1>3. TypeOK'
  BY <1>1, <1>2 DEF IInv, TypeOK, OcrInv
<1>4. SearchableWhenSucceeded' /\ NoLostJob'
  BY <1>2 DEF IInv, SearchableWhenSucceeded, NoLostJob
<1>5. RetriesAreBounded'
  BY <1>1, <1>2 DEF IInv, RetriesAreBounded, MaxRetry
<1>6. Cardinality(Busy') + (IF job'.status \in {"pending", "failed"} THEN 1 ELSE 0) <= enqueues'
  BY <1>1, <1>2 DEF IInv
<1>7. \A v \in Workers : wstep'[v] = "succeed" => indexed'
  BY <1>1 DEF IInv
<1>. QED
  BY <1>3, <1>4, <1>5, <1>6, <1>7 DEF IInv

LEMMA EnqueueKeeps ==
    ASSUME IInv, Enqueue PROVE IInv'
<1>1. /\ job' = [job EXCEPT !.status = "pending"] /\ enqueues' = enqueues + 1
      /\ enqueues + requests < MaxDemands
      /\ UNCHANGED <<rows, remote, step, at, copy, view, faults, kind, indexed, wstep, requests>>
  BY DEF Enqueue, ocrVars
<1>2. OcrInv'
  BY <1>1, OcrUnchanged DEF IInv
<1>3. Busy' = Busy
  BY <1>1 DEF Busy
<1>4. job' \in Job /\ job'.status = "pending" /\ job'.retry = job.retry
  BY <1>1, Numbers DEF Job
<1>5. TypeOK'
  BY <1>1, <1>2, <1>4, Numbers, IndexAssumption DEF IInv, TypeOK, OcrInv
<1>6. RetriesAreBounded' /\ Cardinality(Busy') + 1 <= enqueues'
  BY <1>1, <1>3, <1>4, Numbers DEF IInv, RetriesAreBounded, MaxRetry
<1>7. SearchableWhenSucceeded' /\ NoLostJob'
  BY <1>4 DEF SearchableWhenSucceeded, NoLostJob
<1>. QED
  BY <1>1, <1>2, <1>4, <1>5, <1>6, <1>7 DEF IInv

LEMMA ClaimKeeps ==
    ASSUME IInv, NEW w \in Workers, ClaimNextJob(w) PROVE IInv'
<1>1. /\ job' = [job EXCEPT !.status = "running"] /\ wstep[w] = "idle" /\ Claimable
      /\ WorkerGoto(w, "parse")
      /\ UNCHANGED <<rows, remote, step, at, copy, view, faults, kind, indexed, enqueues, requests>>
  BY DEF ClaimNextJob, ocrVars
<1>2. OcrInv'
  BY <1>1, OcrUnchanged DEF IInv
<1>3. /\ wstep' \in [Workers -> WorkerStep] /\ wstep'[w] = "parse"
      /\ \A v \in Workers \ {w} : wstep'[v] = wstep[v]
      /\ Cardinality(Busy') = Cardinality(Busy) + 1 /\ Busy' # {}
  BY <1>1, BusyChanges DEF IInv, WorkerStep
<1>4. job' \in Job /\ job'.status = "running" /\ job'.retry = job.retry
  BY <1>1, Numbers DEF Job
<1>5. TypeOK'
  BY <1>1, <1>2, <1>3, <1>4 DEF IInv, TypeOK, OcrInv
<1>6. RetriesAreBounded' /\ Cardinality(Busy') <= enqueues'
  BY <1>1, <1>3, <1>4, Numbers DEF IInv, RetriesAreBounded, Claimable, MaxRetry
<1>7. SearchableWhenSucceeded' /\ NoLostJob'
  BY <1>3, <1>4 DEF SearchableWhenSucceeded, NoLostJob
<1>8. \A v \in Workers : wstep'[v] = "succeed" => indexed'
  BY <1>1, <1>3 DEF IInv
<1>. QED
  BY <1>2, <1>3, <1>4, <1>5, <1>6, <1>7, <1>8, Numbers DEF IInv

LEMMA MarkKeeps ==
    ASSUME IInv, NEW w \in Workers, MarkJobFailed(w) \/ MarkJobSucceeded(w) PROVE IInv'
<1>1. /\ wstep[w] # "idle" /\ WorkerGoto(w, "idle")
      /\ UNCHANGED <<rows, remote, step, at, copy, view, kind, indexed, enqueues, requests>>
  BY DEF MarkJobFailed, MarkJobSucceeded
<1>2. UNCHANGED faults \/ Fault
  BY DEF MarkJobFailed, MarkJobSucceeded
<1>3. OcrInv' /\ faults' >= faults /\ (UNCHANGED faults \/ faults' > 0)
  BY <1>1, <1>2, OcrUnchanged DEF IInv
<1>4. CASE UNCHANGED job /\ Fault
  <2>1. faults' > 0
    BY <1>4, FaultTypes DEF IInv, OcrInv
  <2>. QED
    BY <2>1, <1>1, <1>3, <1>4, EndFrame
<1>5. CASE MarkJobFailed(w) /\ job' = [status |-> "failed", retry |-> job.retry + 1]
  <2>1. /\ job' \in Job /\ job'.status \in {"failed", "succeeded"}
        /\ job'.retry <= job.retry + 1 /\ job'.status # "succeeded"
    BY <1>5, Numbers DEF Job
  <2>. QED
    BY <2>1, <1>1, <1>3, EndFrame
<1>6. CASE MarkJobSucceeded(w) /\ job' = [job EXCEPT !.status = "succeeded"]
  <2>1. /\ job' \in Job /\ job'.status \in {"failed", "succeeded"}
        /\ job'.retry <= job.retry + 1
    BY <1>6, Numbers DEF Job
  <2>2. indexed
    BY <1>6 DEF MarkJobSucceeded, IInv
  <2>. QED
    BY <2>1, <2>2, <1>1, <1>3, EndFrame
<1>. QED
  BY <1>4, <1>5, <1>6 DEF MarkJobFailed, MarkJobSucceeded

LEMMA ParseKeeps ==
    ASSUME IInv, NEW w \in Workers, ParseNative(w) \/ ParseFails(w) PROVE IInv'
<1>1. /\ wstep[w] # "idle"
      /\ \E s \in {"embed", "fail"} : WorkerGoto(w, s)
      /\ UNCHANGED <<rows, remote, step, at, copy, view, kind, job, indexed, enqueues, requests>>
      /\ UNCHANGED faults \/ Fault
  BY DEF ParseNative, ParseFails, ocrVars
<1>2. OcrInv' /\ faults' >= faults
  BY <1>1, OcrUnchanged DEF IInv
<1>3. PICK s \in {"embed", "fail"} : WorkerGoto(w, s)
  BY <1>1
<1>4. s \in WorkerStep \ {"idle"} /\ s # "succeed" /\ indexed' \in BOOLEAN
  BY <1>1 DEF WorkerStep, IInv, TypeOK
<1>. QED
  BY <1>1, <1>2, <1>3, <1>4, AttemptFrame

LEMMA EmbedKeeps ==
    ASSUME IInv, NEW w \in Workers, EmbedAndReplace(w) PROVE IInv'
<1>1. /\ wstep[w] # "idle"
      /\ UNCHANGED <<rows, remote, step, at, copy, view, kind, job, enqueues, requests>>
      /\ UNCHANGED faults \/ Fault
  BY DEF EmbedAndReplace
<1>2. OcrInv' /\ faults' >= faults
  BY <1>1, OcrUnchanged DEF IInv
<1>3. "succeed" \in WorkerStep \ {"idle"} /\ "fail" \in WorkerStep \ {"idle"} /\ indexed \in BOOLEAN
  BY DEF WorkerStep, IInv, TypeOK
<1>4. CASE indexed' = TRUE /\ WorkerGoto(w, "succeed")
  BY <1>1, <1>2, <1>3, <1>4, AttemptFrame
<1>5. CASE UNCHANGED indexed /\ WorkerGoto(w, "fail")
  BY <1>1, <1>2, <1>3, <1>5, AttemptFrame
<1>. QED
  BY <1>4, <1>5 DEF EmbedAndReplace

LEMMA ParseScannedKeeps ==
    ASSUME IInv, NEW w \in Workers, ParseScanned(w) PROVE IInv'
<1>0. w \in Callers
  BY OcrAssumption
<1>1. /\ wstep[w] = "parse" /\ step[w] = "done"
      /\ step' = [step EXCEPT ![w] = "idle"] /\ copy' = [copy EXCEPT ![w] = NoTask]
      /\ UNCHANGED <<rows, remote, at, view, faults, kind, job, indexed, enqueues, requests>>
  BY DEF ParseScanned, Goto
<1>2. PICK s \in {"embed", "fail"} : WorkerGoto(w, s)
  BY DEF ParseScanned
<1>3. /\ step' \in [Callers -> Step] /\ step'[w] = "idle"
      /\ copy' \in [Callers -> Row \cup {NoTask}] /\ copy'[w] = NoTask
      /\ \A d \in Callers \ {w} : step'[d] = step[d] /\ copy'[d] = copy[d]
  BY <1>0, <1>1, RowTypes DEF IInv, OcrInv, OcrTypeOK, OcrTyped
<1>4. OcrTyped'
  BY <1>1, <1>3 DEF IInv, OcrInv, OcrTypeOK, OcrTyped
<1>5. CallFits(w) /\ RowOwned(w) /\ Len(remote) \in Nat
  BY <1>0, Sizes DEF IInv, OcrInv, OcrTypeOK, Owned
<1>6. CallFits(w)' /\ RowOwned(w)'
  BY <1>1, <1>3, <1>5, RowTypes DEF CallFits, RowOwned, Submitting, Asking
<1>7. OcrTypeOK' /\ Owned'
  <2>1. Len(rows') >= Len(rows) /\ Len(remote') >= Len(remote) /\ faults' >= faults
    BY <1>1, Sizes DEF IInv, OcrInv
  <2>2. /\ \A j \in 1 .. Len(rows') : rows'[j].ref <= Len(remote')
        /\ \A j \in 1 .. Len(rows) : rows'[j].ref = rows[j].ref
    BY <1>1 DEF IInv, OcrInv, OcrTypeOK
  <2>3. step'[w] \notin Submitting
    BY <1>3 DEF Submitting
  <2>4. \A d \in Callers \ {w} : at'[d] = at[d] /\ view'[d] = view[d]
    BY <1>1
  <2>. QED
    BY <1>0, <1>1, <1>3, <1>4, <1>6, <2>1, <2>2, <2>3, <2>4, CallKeeps DEF IInv, OcrInv
<1>8. NoOrphanTask'
  BY <1>1, <1>3 DEF IInv, OcrInv, NoOrphanTask, HasOwner
<1>9. OcrInv' /\ faults' >= faults
  BY <1>1, <1>7, <1>8, Sizes DEF IInv, OcrInv
<1>10. s \in WorkerStep \ {"idle"} /\ s # "succeed" /\ indexed' \in BOOLEAN
  BY <1>1 DEF WorkerStep, IInv, TypeOK
<1>. QED
  BY <1>1, <1>2, <1>9, <1>10, AttemptFrame

\* No step but a fault changes the count of faults, and a fault adds to it.
LEMMA FaultsGrow ==
    ASSUME OcrInv, UNCHANGED faults \/ Fault PROVE faults' >= faults
BY Sizes, OcrAssumption DEF Fault, OcrInv

LEMMA CallsKeep ==
    ASSUME IInv, NEW c \in Callers, AskForTask(c) \/ Request(c) \/ ContinueCall(c) PROVE IInv'
<1>1. EnsureTask(c) \/ GetTaskStatus(c) \/ Proceed(c)
  BY DEF AskForTask, Request, ContinueCall
<1>2. OcrInv'
  BY <1>1, CallStepKeeps DEF IInv
<1>3. UNCHANGED faults \/ Fault
  BY <1>1 DEF EnsureTask, GetTaskStatus, Proceed, FindOpen, FindSettled, FindNone, Finds,
     CreateOCRTask, SubmitTask, SubmitReply, SubmitFails, RecordSubmission, ReadStatus,
     ReadResult, AskFails, StoreView
<1>4. faults' >= faults
  BY <1>3, FaultsGrow DEF IInv
<1>5. /\ UNCHANGED <<kind, job, indexed, wstep, enqueues>>
      /\ requests' \in Nat /\ enqueues + requests' <= MaxDemands
  BY Numbers, IndexAssumption DEF AskForTask, Request, ContinueCall, indexVars, IInv, TypeOK
<1>. QED
  BY <1>2, <1>4, <1>5, OcrFrame

LEMMA ServiceKeeps ==
    ASSUME IInv, OcrService PROVE IInv'
<1>1. Provider /\ UNCHANGED <<kind, job, indexed, wstep, enqueues, requests>>
  BY DEF OcrService, indexVars
<1>2. OcrInv'
  BY <1>1, ProviderKeeps DEF IInv
<1>3. UNCHANGED faults \/ Fault
  BY <1>1 DEF Provider, Thread, RestartProvider
<1>4. faults' >= faults
  BY <1>3, FaultsGrow DEF IInv
<1>5. requests' \in Nat /\ enqueues + requests' <= MaxDemands
  BY <1>1 DEF IInv, TypeOK
<1>. QED
  BY <1>1, <1>2, <1>4, <1>5, OcrFrame

LEMMA CrashKeeps ==
    ASSUME IInv, Crash PROVE IInv'
<1>1. /\ wstep' = [w \in Workers |-> "idle"] /\ step' = [c \in Callers |-> "idle"]
      /\ at' = [c \in Callers |-> 0] /\ copy' = [c \in Callers |-> NoTask]
      /\ view' = [c \in Callers |-> NoView]
      /\ UNCHANGED <<rows, remote, kind, job, indexed, enqueues, requests>>
      /\ Fault
  BY DEF Crash
<1>2. faults' \in 0 .. MaxFaults /\ faults' > 0
  BY <1>1, FaultTypes DEF IInv, OcrInv
<1>3. OcrTyped'
  BY <1>1, <1>2, RowTypes, OcrAssumption DEF IInv, OcrInv, OcrTypeOK, OcrTyped
<1>4. OcrTypeOK'
  <2>1. Len(rows) \in Nat /\ Len(remote) \in Nat
    BY Sizes DEF IInv, OcrInv
  <2>2. \A c \in Callers : CallFits(c)'
    BY <1>1, <2>1, RowTypes DEF CallFits
  <2>. QED
    BY <1>1, <1>3, <2>2 DEF IInv, OcrInv, OcrTypeOK
<1>5. Owned'
  BY <1>1 DEF Owned, RowOwned, Submitting, Asking
<1>6. NoOrphanTask' /\ NoLostJob'
  BY <1>2 DEF NoOrphanTask, NoLostJob
<1>7. Busy' = {} /\ Cardinality(Busy') = 0
  BY <1>1, FS_EmptySet DEF Busy
<1>8. OcrInv' /\ TypeOK'
  BY <1>1, <1>4, <1>5, <1>6 DEF IInv, TypeOK, WorkerStep, OcrInv
<1>9. /\ RetriesAreBounded'
      /\ Cardinality(Busy') + (IF job'.status \in {"pending", "failed"} THEN 1 ELSE 0) <= enqueues'
  BY <1>1, <1>7, Numbers DEF IInv, RetriesAreBounded, MaxRetry
<1>10. SearchableWhenSucceeded' /\ \A w \in Workers : wstep'[w] = "succeed" => indexed'
  BY <1>1 DEF IInv, SearchableWhenSucceeded
<1>. QED
  BY <1>6, <1>8, <1>9, <1>10 DEF IInv

-----------------------------------------------------------------------------
(* Tasks without a provider id. *)

\* What a call is about to record has the provider's id, or has failed.
RecordsId ==
    \A c \in Callers : step[c] = "record" => copy[c].ref # 0 \/ copy[c].status = "failed"

\* A row that the provider does not have yet.
Unsubmitted(i) == i \in DOMAIN rows /\ Open(rows[i]) /\ rows[i].ref = 0

Submits(c, i) == at[c] = i /\ step[c] \in Submitting

SubmissionInv == NoStuckTask /\ RecordsId

LEMMA StuckMeansNobody ==
    NoStuckTask <=> (faults = 0 => \A i : Unsubmitted(i) => \E c \in Callers : Submits(c, i))
BY DEF NoStuckTask, Unsubmitted, Submits, Submitting

\* A step of one call leaves the submissions of the others alone: it has to look
\* after its own only.
LEMMA SubmissionKeeps ==
    ASSUME OcrInv, SubmissionInv, NEW c \in Callers,
           \A d \in Callers \ {c} : step'[d] = step[d] /\ at'[d] = at[d] /\ copy'[d] = copy[d],
           faults' >= faults, faults' \in Nat,
           step'[c] = "record" => copy'[c].ref # 0 \/ copy'[c].status = "failed",
           faults' = 0 => \A i : Unsubmitted(i)' =>
              Submits(c, i)' \/ (Unsubmitted(i) /\ ~ Submits(c, i))
    PROVE  SubmissionInv'
<1>1. RecordsId'
  BY DEF SubmissionInv, RecordsId
<1>2. ASSUME faults' = 0, NEW i, Unsubmitted(i)' PROVE \E d \in Callers : Submits(d, i)'
  <2>1. CASE Submits(c, i)'
    BY <2>1
  <2>2. CASE Unsubmitted(i) /\ ~ Submits(c, i)
    <3>1. faults = 0
      BY <1>2, Sizes DEF OcrInv
    <3>2. PICK d \in Callers : Submits(d, i)
      BY <3>1, <2>2, StuckMeansNobody DEF SubmissionInv
    <3>3. d # c
      BY <3>2, <2>2
    <3>. QED
      BY <3>2, <3>3 DEF Submits
  <2>. QED
    BY <1>2, <2>1, <2>2
<1>3. NoStuckTask'
  BY <1>2 DEF NoStuckTask, Unsubmitted, Submits, Submitting
<1>. QED
  BY <1>1, <1>3 DEF SubmissionInv

\* A call that begins, polls or ends without writing a row.
LEMMA QuietCallSubmission ==
    ASSUME OcrInv, SubmissionInv, NEW c \in Callers,
           FindOpen(c) \/ FindSettled(c) \/ FindNone(c) \/ ReadStatus(c) \/ ReadResult(c) \/ AskFails(c)
    PROVE  SubmissionInv'
<1>1. /\ \A d \in Callers \ {c} : step'[d] = step[d] /\ at'[d] = at[d] /\ copy'[d] = copy[d]
      /\ step[c] \notin Submitting /\ step'[c] # "record" /\ rows' = rows
      /\ UNCHANGED faults \/ Fault
  <2>1. step \in [Callers -> Step] /\ at \in [Callers -> 0 .. MaxTasks]
        /\ copy \in [Callers -> Row \cup {NoTask}]
    BY DEF OcrInv, OcrTypeOK, OcrTyped
  <2>2. CASE FindOpen(c)
    BY <2>1, <2>2 DEF FindOpen, Finds, Goto, CanCall, Submitting
  <2>3. CASE FindSettled(c)
    BY <2>1, <2>3 DEF FindSettled, Finds, Answer, CanCall, Submitting
  <2>4. CASE FindNone(c)
    BY <2>1, <2>4 DEF FindNone, Finds, Goto, CanCall, Submitting
  <2>5. CASE ReadStatus(c) \/ ReadResult(c)
    BY <2>1, <2>5 DEF ReadStatus, ReadResult, Goto, Submitting
  <2>6. CASE AskFails(c)
    BY <2>1, <2>6 DEF AskFails, Answer, Submitting
  <2>. QED
    BY <2>2, <2>3, <2>4, <2>5, <2>6
<1>2. faults' >= faults /\ faults' \in Nat
  BY <1>1, Sizes, FaultTypes, OcrAssumption DEF Fault, OcrInv, OcrTypeOK, OcrTyped
<1>3. \A i : Unsubmitted(i)' => Unsubmitted(i) /\ ~ Submits(c, i)
  BY <1>1 DEF Unsubmitted, Submits, Open
<1>. QED
  BY <1>1, <1>2, <1>3, SubmissionKeeps

\* The new row has its call.
LEMMA CreateSubmission ==
    ASSUME OcrInv, SubmissionInv, NEW c \in Callers, CreateOCRTask(c)
    PROVE  SubmissionInv'
<1>1. /\ step \in [Callers -> Step] /\ at \in [Callers -> 0 .. MaxTasks]
      /\ rows \in Seq(Row) /\ faults \in Nat /\ NewRow \in Row
  BY Sizes, RowTypes DEF OcrInv, OcrTypeOK, OcrTyped
<1>2. /\ step[c] = "create" /\ step'[c] = "submit"
      /\ \A d \in Callers \ {c} : step'[d] = step[d] /\ at'[d] = at[d] /\ copy'[d] = copy[d]
  BY <1>1 DEF CreateOCRTask, Goto
<1>3. UNCHANGED faults \/ Fault
  BY DEF CreateOCRTask
<1>4. faults' >= faults /\ faults' \in Nat /\ (Fault => faults' > 0)
  BY <1>3, <1>1, FaultTypes, OcrAssumption DEF Fault, OcrInv
<1>5. ASSUME faults' = 0, NEW i, Unsubmitted(i)'
      PROVE  Submits(c, i)' \/ (Unsubmitted(i) /\ ~ Submits(c, i))
  <2>1. rows' = Append(rows, NewRow) /\ at'[c] = Len(rows) + 1
    BY <1>1, <1>4, <1>5 DEF CreateOCRTask
  <2>2. /\ DOMAIN rows = 1 .. Len(rows) /\ DOMAIN rows' = 1 .. (Len(rows) + 1) /\ Len(rows) \in Nat
        /\ \A j \in 1 .. Len(rows) : rows'[j] = rows[j]
    BY <2>1, <1>1, AppendProperties
  <2>3. CASE i = Len(rows) + 1
    BY <2>1, <2>3, <1>2 DEF Submits, Submitting
  <2>4. CASE i \in 1 .. Len(rows)
    BY <2>2, <2>4, <1>2, <1>5 DEF Unsubmitted, Submits, Submitting, Open
  <2>. QED
    BY <1>5, <2>2, <2>3, <2>4 DEF Unsubmitted
<1>. QED
  BY <1>2, <1>4, <1>5, SubmissionKeeps

\* A submission that goes on keeps its row.
LEMMA SubmitSubmission ==
    ASSUME OcrInv, SubmissionInv, NEW c \in Callers,
           SubmitTask(c) \/ SubmitReply(c) \/ SubmitFails(c)
    PROVE  SubmissionInv'
<1>1. /\ step \in [Callers -> Step] /\ copy \in [Callers -> Row \cup {NoTask}]
      /\ faults \in Nat /\ CallFits(c)
  BY Sizes DEF OcrInv, OcrTypeOK, OcrTyped
<1>2. /\ step[c] \in Submitting /\ step'[c] \in Submitting /\ rows' = rows /\ at' = at
      /\ \A d \in Callers \ {c} : step'[d] = step[d] /\ copy'[d] = copy[d]
      /\ UNCHANGED faults \/ Fault
  BY <1>1 DEF SubmitTask, SubmitReply, SubmitFails, Goto, Submitting
<1>3. step'[c] = "record" => copy'[c].ref # 0 \/ copy'[c].status = "failed"
  <2>1. CASE SubmitTask(c)
    BY <2>1, <1>1 DEF SubmitTask, Goto
  <2>2. CASE SubmitReply(c)
    <3>1. copy[c] \in Row /\ copy[c].ref # 0
      BY <2>2, <1>1 DEF SubmitReply, CallFits
    <3>2. copy'[c] = [copy[c] EXCEPT !.status = remote[copy[c].ref].status]
      BY <2>2, <1>1 DEF SubmitReply
    <3>. QED
      BY <3>1, <3>2 DEF Row
  <2>3. CASE SubmitFails(c)
    BY <2>3, <1>1 DEF SubmitFails, FailedRow
  <2>. QED
    BY <2>1, <2>2, <2>3
<1>4. faults' >= faults /\ faults' \in Nat
  BY <1>1, <1>2, FaultTypes, OcrAssumption DEF Fault, OcrInv
<1>5. \A i : Unsubmitted(i)' => Submits(c, i)' \/ (Unsubmitted(i) /\ ~ Submits(c, i))
  BY <1>2 DEF Unsubmitted, Submits, Open
<1>. QED
  BY <1>2, <1>3, <1>4, <1>5, SubmissionKeeps

\* A call that writes its row has the provider's id, or leaves it failed.
LEMMA WriteSubmission ==
    ASSUME OcrInv, SubmissionInv, NEW c \in Callers, RecordSubmission(c) \/ StoreView(c)
    PROVE  SubmissionInv'
<1>1. /\ step \in [Callers -> Step] /\ at \in [Callers -> 0 .. MaxTasks]
      /\ copy \in [Callers -> Row \cup {NoTask}] /\ rows \in Seq(Row)
      /\ faults \in Nat /\ CallFits(c) /\ RowOwned(c)
  BY Sizes DEF OcrInv, OcrTypeOK, OcrTyped, Owned
<1>2. /\ step[c] \in {"record", "store"}
      /\ \E task : Answer(c, task)
      /\ UNCHANGED faults \/ Fault
  BY DEF RecordSubmission, StoreView
<1>3. /\ step'[c] \in {"idle", "done"}
      /\ \A d \in Callers \ {c} : step'[d] = step[d] /\ at'[d] = at[d] /\ copy'[d] = copy[d]
  BY <1>1, <1>2 DEF Answer
<1>4. faults' >= faults /\ faults' \in Nat /\ (Fault => faults' > 0)
  BY <1>1, <1>2, FaultTypes, OcrAssumption DEF Fault, OcrInv
<1>5. ASSUME faults' = 0, NEW i, Unsubmitted(i)'
      PROVE  Unsubmitted(i) /\ ~ Submits(c, i)
  <2>1. /\ at[c] # 0
        /\ \E row : Update(c, row) /\ (row.ref # 0 \/ row.status = "failed")
    <3>1. CASE RecordSubmission(c)
      <4>1. at[c] # 0
        BY <3>1, <1>1, <1>2, <1>4, <1>5 DEF RecordSubmission, RowOwned, Submitting
      <4>2. copy[c].ref # 0 \/ copy[c].status = "failed"
        BY <3>1 DEF RecordSubmission, SubmissionInv, RecordsId
      <4>3. Update(c, copy[c])
        BY <3>1, <4>1, <1>4, <1>5 DEF RecordSubmission
      <4>. QED
        BY <4>1, <4>2, <4>3
    <3>2. CASE StoreView(c)
      <4>1. at[c] # 0 /\ copy[c].ref # 0
        BY <3>2, <1>1 DEF StoreView, CallFits
      <4>2. Update(c, Synced(c)) /\ Synced(c).ref = copy[c].ref
        BY <3>2, <1>4, <1>5 DEF StoreView, Synced
      <4>. QED
        BY <4>1, <4>2
    <3>. QED
      BY <3>1, <3>2
  <2>2. PICK row : Update(c, row) /\ (row.ref # 0 \/ row.status = "failed")
    BY <2>1
  <2>3. DOMAIN rows' = DOMAIN rows /\ \A j \in DOMAIN rows : rows'[j] = IF j = at[c] THEN row ELSE rows[j]
    BY <2>2 DEF Update
  <2>4. i # at[c]
    BY <2>2, <2>3, <1>5 DEF Unsubmitted, Open
  <2>. QED
    BY <2>3, <2>4, <1>5 DEF Unsubmitted, Submits, Open
<1>. QED
  BY <1>3, <1>4, <1>5, SubmissionKeeps

\* The other steps leave the rows and the calls alone, or are faults.
LEMMA OtherSubmission ==
    ASSUME OcrInv, SubmissionInv, UNCHANGED rows,
           UNCHANGED faults \/ Fault,
           UNCHANGED <<step, at, copy>> \/ Crash
    PROVE  SubmissionInv'
<1>1. faults' \in Nat /\ faults' >= faults /\ (Fault => faults' > 0) /\ faults \in Nat
  BY Sizes, FaultTypes, OcrAssumption DEF Fault, OcrInv
<1>2. CASE UNCHANGED <<step, at, copy>>
  BY <1>1, <1>2 DEF SubmissionInv, NoStuckTask, RecordsId, Open
<1>3. CASE Crash
  BY <1>1, <1>3 DEF Crash, SubmissionInv, NoStuckTask, RecordsId
<1>. QED
  BY <1>2, <1>3

-----------------------------------------------------------------------------
(* The invariant of the specification. *)

LEMMA InitIInv == Init => IInv
<1>. SUFFICES ASSUME Init PROVE IInv
  OBVIOUS
<1>1. /\ rows = << >> /\ remote = << >> /\ step = [c \in Callers |-> "idle"]
      /\ at = [c \in Callers |-> 0] /\ copy = [c \in Callers |-> NoTask]
      /\ view = [c \in Callers |-> NoView] /\ faults = 0
  BY DEF Init, OcrInit
<1>2. OcrTyped
  <2>1. rows \in Seq(Row) /\ Len(rows) = 0 /\ remote \in Seq(Remote) /\ Len(remote) = 0
    BY <1>1
  <2>. QED
    BY <1>1, <2>1, RowTypes, OcrAssumption DEF OcrTyped
<1>3. OcrTypeOK
  BY <1>1, <1>2, RowTypes DEF OcrTypeOK, CallFits
<1>4. Owned
  BY <1>1 DEF Owned, RowOwned, Submitting, Asking
<1>5. NoOrphanTask
  BY <1>1 DEF NoOrphanTask
<1>6. /\ kind \in Kinds /\ job = [status |-> "none", retry |-> 0] /\ indexed = FALSE
      /\ wstep = [w \in Workers |-> "idle"] /\ enqueues = 0 /\ requests = 0
  BY DEF Init
<1>7. Busy = {} /\ Cardinality(Busy) = 0
  BY <1>6, FS_EmptySet DEF Busy
<1>8. TypeOK
  <2>1. job \in Job /\ wstep \in [Workers -> WorkerStep]
    BY <1>6 DEF Job, WorkerStep
  <2>2. 0 + 0 <= MaxDemands
    BY IndexAssumption
  <2>. QED
    BY <1>3, <1>6, <2>1, <2>2 DEF TypeOK
<1>9. SearchableWhenSucceeded /\ NoLostJob /\ RetriesAreBounded
  BY <1>6, <1>7 DEF SearchableWhenSucceeded, NoLostJob, RetriesAreBounded, MaxRetry
<1>. QED
  BY <1>3, <1>4, <1>5, <1>6, <1>7, <1>8, <1>9 DEF IInv, OcrInv

LEMMA StepIInv == IInv /\ [Next]_vars => IInv'
<1>. SUFFICES ASSUME IInv, [Next]_vars PROVE IInv'
  OBVIOUS
<1>1. CASE UNCHANGED vars
  <2>1. UNCHANGED <<rows, remote, step, at, copy, view, faults, kind, job, indexed, wstep, enqueues, requests>>
    BY <1>1 DEF vars, ocrVars, indexVars
  <2>2. OcrInv' /\ faults' >= faults
    BY <2>1, OcrUnchanged DEF IInv
  <2>3. requests' \in Nat /\ enqueues + requests' <= MaxDemands
    BY <2>1 DEF IInv, TypeOK
  <2>. QED
    BY <2>1, <2>2, <2>3, OcrFrame
<1>2. CASE Enqueue
  BY <1>2, EnqueueKeeps
<1>3. CASE Crash
  BY <1>3, CrashKeeps
<1>4. CASE OcrService
  BY <1>4, ServiceKeeps
<1>5. ASSUME NEW c \in Callers, AskForTask(c) \/ Request(c) \/ ContinueCall(c) PROVE IInv'
  BY <1>5, CallsKeep
<1>6. ASSUME NEW w \in Workers, ClaimNextJob(w) PROVE IInv'
  BY <1>6, ClaimKeeps
<1>7. ASSUME NEW w \in Workers, Attempt(w) PROVE IInv'
  BY <1>7, ParseKeeps, ParseScannedKeeps, EmbedKeeps, MarkKeeps DEF Attempt
<1>. QED
  BY <1>1, <1>2, <1>3, <1>4, <1>5, <1>6, <1>7 DEF Next

\* Every step keeps the submissions going.
LEMMA SubmissionStep == IInv /\ SubmissionInv /\ [Next]_vars => SubmissionInv'
<1>. SUFFICES ASSUME IInv, SubmissionInv, [Next]_vars PROVE SubmissionInv'
  OBVIOUS
<1>0. OcrInv
  BY DEF IInv
<1>1. CASE UNCHANGED vars
  BY <1>0, <1>1, OtherSubmission DEF vars, ocrVars
<1>2. CASE Enqueue \/ Crash \/ OcrService
  BY <1>0, <1>2, OtherSubmission
  DEF Enqueue, Crash, OcrService, Provider, RestartProvider, Thread, ocrVars
<1>3. ASSUME NEW c \in Callers, AskForTask(c) \/ Request(c) \/ ContinueCall(c)
      PROVE  SubmissionInv'
  <2>1. EnsureTask(c) \/ GetTaskStatus(c) \/ Proceed(c)
    BY <1>3 DEF AskForTask, Request, ContinueCall
  <2>. QED
    BY <1>0, <2>1, QuietCallSubmission, CreateSubmission, SubmitSubmission, WriteSubmission
    DEF EnsureTask, GetTaskStatus, Proceed
<1>4. ASSUME NEW w \in Workers,
             ClaimNextJob(w) \/ ParseNative(w) \/ ParseFails(w) \/ EmbedAndReplace(w)
               \/ MarkJobFailed(w) \/ MarkJobSucceeded(w)
      PROVE  SubmissionInv'
  BY <1>0, <1>4, OtherSubmission
  DEF ClaimNextJob, ParseNative, ParseFails, EmbedAndReplace, MarkJobFailed, MarkJobSucceeded, ocrVars
<1>5. ASSUME NEW w \in Workers, ParseScanned(w) PROVE SubmissionInv'
  <2>1. /\ w \in Callers /\ step \in [Callers -> Step] /\ copy \in [Callers -> Row \cup {NoTask}]
        /\ faults \in Nat
    BY <1>0, Sizes, OcrAssumption DEF OcrInv, OcrTypeOK, OcrTyped
  <2>2. /\ step[w] = "done" /\ step'[w] = "idle" /\ UNCHANGED <<rows, at, faults>>
        /\ \A d \in Callers \ {w} : step'[d] = step[d] /\ copy'[d] = copy[d]
    BY <1>5, <2>1 DEF ParseScanned, Goto
  <2>3. \A i : Unsubmitted(i)' => Unsubmitted(i) /\ ~ Submits(w, i)
    BY <2>2 DEF Unsubmitted, Submits, Submitting, Open
  <2>. QED
    BY <1>0, <2>1, <2>2, <2>3, SubmissionKeeps
<1>. QED
  BY <1>1, <1>2, <1>3, <1>4, <1>5 DEF Next, Attempt

LEMMA Invariance == Spec => []IInv
BY InitIInv, StepIInv, PTL DEF Spec

\* Every variable keeps its type; a call's row and its provider's task exist.
THEOREM TypeCorrect == Spec => []TypeOK
<1>1. IInv => TypeOK
  BY DEF IInv
<1>. QED
  BY <1>1, Invariance, PTL

\* A job that has succeeded has its chunks, with any number of workers.
THEOREM SearchableIfSucceeded == Spec => []SearchableWhenSucceeded
<1>1. IInv => SearchableWhenSucceeded
  BY DEF IInv
<1>. QED
  BY <1>1, Invariance, PTL

\* Failed tries and those under way are at most three and one for each further
\* request to index: only one that comes while the job is worked on gives it to
\* a second worker.
THEOREM BoundedRetries == Spec => []RetriesAreBounded
<1>1. IInv => RetriesAreBounded
  BY DEF IInv
<1>. QED
  BY <1>1, Invariance, PTL

\* However many calls of EnsureTask overlap, as long as nothing fails each task
\* of the provider is recorded in a row, or about to be.
THEOREM SubmissionsAreRecorded == Spec => []NoOrphanTask
<1>1. IInv => NoOrphanTask
  BY DEF IInv, OcrInv
<1>. QED
  BY <1>1, Invariance, PTL

\* As long as nothing fails, a task that the provider does not have yet is being
\* submitted, with any number of overlapping calls.
THEOREM NoTaskIsStuck == Spec => []NoStuckTask
<1>1. Init => SubmissionInv
  BY DEF Init, OcrInit, SubmissionInv, NoStuckTask, RecordsId
<1>2. Spec => []SubmissionInv
  BY <1>1, SubmissionStep, Invariance, PTL DEF Spec
<1>3. SubmissionInv => NoStuckTask
  BY DEF SubmissionInv
<1>. QED
  BY <1>2, <1>3, PTL

\* As long as nothing fails, a running job has a worker.
THEOREM NoJobIsLost == Spec => []NoLostJob
<1>1. IInv => NoLostJob
  BY DEF IInv
<1>. QED
  BY <1>1, Invariance, PTL

=============================================================================
