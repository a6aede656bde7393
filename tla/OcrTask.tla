------------------------------- MODULE OcrTask -------------------------------
(***************************************************************************)
(* The OCR tasks of one version of a file: the rows of ocr_task, the calls  *)
(* of EnsureTask and GetTaskStatus that read and write them, and the OCR    *)
(* service (src/ocr-service), which keeps its tasks in memory and works on  *)
(* each in a thread of its own.                                             *)
(*                                                                         *)
(* A call takes a copy of the latest row, asks the provider over HTTP and   *)
(* writes the whole copy back: the steps are cut at every statement and     *)
(* every request, since other calls, the provider's threads and restarts    *)
(* come in between.  The provider never reports "cancelled".                *)
(***************************************************************************)
EXTENDS Naturals, Sequences

CONSTANTS
    Callers,       \* the goroutines that ask for the task: requests and ...
    Workers,       \* ... those that go on with what they are told
    MaxTasks,      \* bound: rows of ocr_task
    MaxFaults      \* bound: statements and requests that fail, restarts

ASSUME OcrAssumption ==
    /\ Workers \subseteq Callers
    /\ MaxTasks \in Nat /\ MaxFaults \in Nat

VARIABLES
    rows,      \* ocr_task, in the order of creation
    remote,    \* the provider's tasks, in the order of submission
    step,      \* where each caller is
    at,        \* the row a call is about; 0: its INSERT returned no id
    copy,      \* the call's copy of that row; what it told a worker when done
    view,      \* the provider's answer, as far as it has been read
    faults     \* how often something has failed

ocrVars == <<rows, remote, step, at, copy, view, faults>>

\* "open" is pending or running: the code treats them alike everywhere.
TaskStatus == {"open", "succeeded", "failed"}

\* A row: its status, the provider's task (0: none was recorded) and whether it
\* has a result.
Row == [status : TaskStatus, ref : 0 .. MaxTasks, result : BOOLEAN]
NewRow == [status |-> "open", ref |-> 0, result |-> FALSE]
FailedRow == [status |-> "failed", ref |-> 0, result |-> FALSE]

\* model.OCRTask{}, which EnsureTask returns when its last UPDATE fails.
NoTask == [status |-> "none", ref |-> 0, result |-> FALSE]

\* A task of the provider; it is unknown after a restart.
Remote == [status : TaskStatus, result : BOOLEAN, known : BOOLEAN]
NewRemote == [status |-> "open", result |-> FALSE, known |-> TRUE]
LostRemote == [NewRemote EXCEPT !.known = FALSE]

View == [status : TaskStatus, result : BOOLEAN]
NoView == [status |-> "open", result |-> FALSE]

Step == {"idle", "create", "submit", "submitted", "record", "ask", "asked", "store", "done"}

Open(row) == row.status = "open"

OcrInit ==
    /\ rows = << >>
    /\ remote = << >>
    /\ step = [c \in Callers |-> "idle"]
    /\ at = [c \in Callers |-> 0]
    /\ copy = [c \in Callers |-> NoTask]
    /\ view = [c \in Callers |-> NoView]
    /\ faults = 0

\* Something fails that can.
Fault ==
    /\ faults < MaxFaults
    /\ faults' = faults + 1

\* The call returns this task; that of a request leaves the system.
Answer(c, task) ==
    /\ step' = [step EXCEPT ![c] = IF c \in Workers THEN "done" ELSE "idle"]
    /\ at' = [at EXCEPT ![c] = 0]
    /\ copy' = [copy EXCEPT ![c] = IF c \in Workers THEN task ELSE NoTask]
    /\ view' = [view EXCEPT ![c] = NoView]

Goto(c, s) == step' = [step EXCEPT ![c] = s]

CanCall(c) == step[c] = "idle"

-----------------------------------------------------------------------------
(* FindLatestOCRTask, and what EnsureTask and GetTaskStatus make of it. *)

\* The query finds the latest row, or nothing: there is none, or it failed.
Finds(i) ==
    \/ i = Len(rows) /\ UNCHANGED faults
    \/ i = 0 /\ rows # << >> /\ Fault

\* Mutant: whether the provider has the task is not looked at.
FindOpenAny(c) ==
    \E i \in 1 .. Len(rows) :
        /\ CanCall(c)
        /\ Finds(i)
        /\ Open(rows[i])
        /\ Goto(c, "ask")
        /\ at' = [at EXCEPT ![c] = i]
        /\ copy' = [copy EXCEPT ![c] = rows[i]]
        /\ UNCHANGED <<rows, remote, view>>

\* The latest row has not finished, and the provider has it: ask for it.
FindOpen(c) ==
    \E i \in 1 .. Len(rows) :
        /\ CanCall(c)
        /\ Finds(i)
        /\ Open(rows[i]) /\ rows[i].ref # 0
        /\ Goto(c, "ask")
        /\ at' = [at EXCEPT ![c] = i]
        /\ copy' = [copy EXCEPT ![c] = rows[i]]
        /\ UNCHANGED <<rows, remote, view>>

\* It is returned as it is: it has succeeded, or it was never submitted.
FindSettled(c) ==
    \E i \in 1 .. Len(rows) :
        /\ CanCall(c)
        /\ Finds(i)
        /\ rows[i].status = "succeeded" \/ (Open(rows[i]) /\ rows[i].ref = 0)
        /\ Answer(c, rows[i])
        /\ UNCHANGED <<rows, remote>>

\* There is none, or it has failed: EnsureTask makes a new one.
FindNone(c) ==
    \E i \in 0 .. Len(rows) :
        /\ CanCall(c)
        /\ Len(rows) < MaxTasks
        /\ Finds(i)
        /\ i # 0 => rows[i].status = "failed"
        /\ Goto(c, "create")
        /\ copy' = [copy EXCEPT ![c] = NewRow]
        /\ UNCHANGED <<rows, remote, at, view>>

EnsureTask(c) == FindOpen(c) \/ FindSettled(c) \/ FindNone(c)

\* GetTaskStatus changes nothing in the other cases: it reports what it found.
GetTaskStatus(c) == FindOpen(c)

-----------------------------------------------------------------------------
(* The rest of EnsureTask: a row, a submission, and its record. *)

\* CreateOCRTask ignores the error of its INSERT: the task then has no id,
\* whether or not the row is there.
CreateOCRTask(c) ==
    /\ step[c] = "create"
    /\ Len(rows) < MaxTasks
    /\ \/ /\ rows' = Append(rows, NewRow)
          /\ at' = [at EXCEPT ![c] = Len(rows) + 1]
          /\ UNCHANGED faults
       \/ /\ rows' \in {rows, Append(rows, NewRow)}
          /\ at' = [at EXCEPT ![c] = 0]
          /\ Fault
    /\ Goto(c, "submit")
    /\ UNCHANGED <<remote, copy, view>>

\* The provider has got the request and starts its thread.
SubmitTask(c) ==
    /\ step[c] = "submit"
    /\ Len(remote) < MaxTasks
    /\ remote' = Append(remote, NewRemote)
    /\ copy' = [copy EXCEPT ![c].ref = Len(remote) + 1]
    /\ Goto(c, "submitted")
    /\ UNCHANGED <<rows, at, view, faults>>

\* Its reply shows how far the thread has come by then.
SubmitReply(c) ==
    /\ step[c] = "submitted"
    /\ remote[copy[c].ref].known
    /\ copy' = [copy EXCEPT ![c].status = remote[copy[c].ref].status]
    /\ Goto(c, "record")
    /\ UNCHANGED <<rows, remote, at, view, faults>>

\* No reply: the request failed, or ran into its time limit, or the provider
\* was restarted.
SubmitFails(c) ==
    /\ step[c] \in {"submit", "submitted"}
    /\ IF step[c] = "submitted" /\ ~remote[copy[c].ref].known THEN UNCHANGED faults ELSE Fault
    /\ copy' = [copy EXCEPT ![c] = FailedRow]
    /\ Goto(c, "record")
    /\ UNCHANGED <<rows, remote, at, view>>

\* Mutant: the latest row is updated instead of the call's own.
UpdateLatest(c, row) == rows' = [rows EXCEPT ![Len(rows)] = row]

\* UpdateOCRTask writes the whole copy over the row, whatever is there by now.
Update(c, row) == rows' = [rows EXCEPT ![at[c]] = row]

\* Mutant: a task that has not finished is not recorded.
RecordFinished(c) ==
    /\ step[c] = "record"
    /\ at[c] # 0
    /\ IF Open(copy[c]) THEN UNCHANGED rows ELSE Update(c, copy[c])
    /\ Answer(c, copy[c])
    /\ UNCHANGED <<remote, faults>>

RecordSubmission(c) ==
    /\ step[c] = "record"
    /\ \/ /\ at[c] # 0
          /\ Update(c, copy[c])
          /\ Answer(c, copy[c])
          /\ UNCHANGED faults
       \/ /\ at[c] = 0
          /\ Answer(c, NoTask)
          /\ UNCHANGED <<rows, faults>>
       \/ /\ at[c] # 0
          /\ UNCHANGED rows \/ Update(c, copy[c])
          /\ Answer(c, NoTask)
          /\ Fault
    /\ UNCHANGED remote

-----------------------------------------------------------------------------
(* syncTask. *)

\* The provider builds its answer field by field, without the task's lock: the
\* status first, the result last.
ReadStatus(c) ==
    /\ step[c] = "ask"
    /\ remote[copy[c].ref].known
    /\ view' = [view EXCEPT ![c].status = remote[copy[c].ref].status]
    /\ Goto(c, "asked")
    /\ UNCHANGED <<rows, remote, at, copy, faults>>

ReadResult(c) ==
    /\ step[c] = "asked"
    /\ remote[copy[c].ref].known
    /\ view' = [view EXCEPT ![c].result = remote[copy[c].ref].result]
    /\ Goto(c, "store")
    /\ UNCHANGED <<rows, remote, at, copy, faults>>

\* The provider does not know the task, or does not answer.
AskFails(c) ==
    /\ step[c] \in {"ask", "asked"}
    /\ IF remote[copy[c].ref].known THEN Fault ELSE UNCHANGED faults
    /\ Answer(c, copy[c])
    /\ UNCHANGED <<rows, remote>>

\* The copy with the provider's answer; a result that is missing there leaves
\* the copy's.
Synced(c) ==
    [status |-> view[c].status, ref |-> copy[c].ref, result |-> view[c].result \/ copy[c].result]

StoreView(c) ==
    /\ step[c] = "store"
    /\ \/ /\ Update(c, Synced(c))
          /\ Answer(c, Synced(c))
          /\ UNCHANGED faults
       \/ /\ UNCHANGED rows \/ Update(c, Synced(c))
          /\ Answer(c, copy[c])
          /\ Fault
    /\ UNCHANGED remote

\* A call that has begun goes on.
Proceed(c) ==
    \/ CreateOCRTask(c) \/ SubmitTask(c) \/ SubmitReply(c) \/ SubmitFails(c)
    \/ RecordSubmission(c)
    \/ ReadStatus(c) \/ ReadResult(c) \/ AskFails(c) \/ StoreView(c)

-----------------------------------------------------------------------------
(* The provider. *)

\* _run_task: the thread ends, with the status before the result.
Thread(k) ==
    /\ remote[k].known
    /\ \/ /\ remote[k].status = "open"
          /\ \E s \in {"succeeded", "failed"} : remote' = [remote EXCEPT ![k].status = s]
       \/ /\ remote[k].status = "succeeded" /\ ~remote[k].result
          /\ remote' = [remote EXCEPT ![k].result = TRUE]
    /\ UNCHANGED <<rows, step, at, copy, view, faults>>

\* Its tasks are in memory only.
RestartProvider ==
    /\ \E k \in DOMAIN remote : remote[k].known
    /\ Fault
    /\ remote' = [k \in DOMAIN remote |-> LostRemote]
    /\ UNCHANGED <<rows, step, at, copy, view>>

Provider == RestartProvider \/ \E k \in DOMAIN remote : Thread(k)

-----------------------------------------------------------------------------
(* Properties. *)

OcrTyped ==
    /\ rows \in Seq(Row) /\ Len(rows) <= MaxTasks
    /\ remote \in Seq(Remote) /\ Len(remote) <= MaxTasks
    /\ step \in [Callers -> Step]
    /\ at \in [Callers -> 0 .. MaxTasks]
    /\ copy \in [Callers -> Row \cup {NoTask}]
    /\ view \in [Callers -> View]
    /\ faults \in 0 .. MaxFaults

CallFits(c) ==
    /\ at[c] <= Len(rows)
    /\ copy[c].ref <= Len(remote)
    /\ step[c] \in {"ask", "asked", "store"} => at[c] # 0
    /\ step[c] \in {"submitted", "ask", "asked", "store"} => copy[c].ref # 0
    /\ step[c] \notin {"idle", "done"} => copy[c] \in Row

\* Every variable keeps its type, and a call is about a row and a task that exist.
OcrTypeOK ==
    /\ OcrTyped
    /\ \A i \in 1 .. Len(rows) : rows[i].ref <= Len(remote)
    /\ \A c \in Callers : CallFits(c)

=============================================================================
