---------------------------- MODULE KnowledgeIndex ----------------------------
(***************************************************************************)
(* The index of one version of a file: its row of knowledge_index_job, its *)
(* chunks, and the workers (one goroutine per call of StartWorker) that    *)
(* claim the job, parse the version, embed its text and store the chunks.  *)
(* A scanned version is parsed through its OCR task, which web requests    *)
(* ask for as well: the module extends OcrTask, and workers are callers.   *)
(*                                                                         *)
(* The server, as bootstrap/app.go builds it, starts no worker: nothing    *)
(* here says that one ever takes a step, only what happens if it does.     *)
(*                                                                         *)
(* The steps of an attempt are cut at its statements and requests.  Jobs of *)
(* other versions only change the order of claims and are left out, as is   *)
(* the deletion of the file, which removes every row by cascade.            *)
(***************************************************************************)
EXTENDS OcrTask, FiniteSets

CONSTANTS
    Kinds,         \* what the version may hold: "text", "blank", "scanned"
    MaxDemands     \* bound: requests to index and requests for the OCR task

ASSUME IndexAssumption ==
    /\ IsFiniteSet(Workers)
    /\ Kinds \subseteq {"text", "blank", "scanned"}
    /\ MaxDemands \in Nat

VARIABLES
    kind,       \* what the version holds
    job,        \* its row of knowledge_index_job; status "none": no row
    indexed,    \* it has chunks
    wstep,      \* where each worker is
    enqueues,   \* how often it was asked for
    requests    \* how often the OCR task was

indexVars == <<kind, job, indexed, wstep, enqueues, requests>>
vars == <<ocrVars, indexVars>>

MaxRetry == 3

Job == [status : {"none", "pending", "running", "succeeded", "failed"}, retry : Nat]

WorkerStep == {"idle", "parse", "embed", "fail", "succeed"}

Init ==
    /\ OcrInit
    /\ kind \in Kinds
    /\ job = [status |-> "none", retry |-> 0]
    /\ indexed = FALSE
    /\ wstep = [w \in Workers |-> "idle"]
    /\ enqueues = 0
    /\ requests = 0

WorkerGoto(w, s) == wstep' = [wstep EXCEPT ![w] = s]

Claimable == job.status \in {"pending", "failed"} /\ job.retry < MaxRetry

-----------------------------------------------------------------------------
(* The queue. *)

\* A reindex (an upload does not get here: enqueueIndexTask of FileUpload): a
\* new row, or the old one pending again with the retries it has used, whoever
\* works on it.
Enqueue ==
    /\ enqueues + requests < MaxDemands
    /\ enqueues' = enqueues + 1
    /\ job' = [job EXCEPT !.status = "pending"]
    /\ UNCHANGED <<ocrVars, kind, indexed, wstep, requests>>

\* Mutant: the claim selects a job and leaves it as it is.
ClaimPeeks(w) ==
    /\ wstep[w] = "idle"
    /\ Claimable
    /\ WorkerGoto(w, "parse")
    /\ UNCHANGED <<ocrVars, kind, job, indexed, enqueues, requests>>

ClaimNextJob(w) ==
    /\ wstep[w] = "idle"
    /\ Claimable
    /\ job' = [job EXCEPT !.status = "running"]
    /\ WorkerGoto(w, "parse")
    /\ UNCHANGED <<ocrVars, kind, indexed, enqueues, requests>>

\* The rows are named by id: neither statement looks at what became of the job.
MarkJobFailed(w) ==
    /\ wstep[w] = "fail"
    /\ \/ /\ job' = [status |-> "failed", retry |-> job.retry + 1]
          /\ UNCHANGED faults
       \/ UNCHANGED job /\ Fault
    /\ WorkerGoto(w, "idle")
    /\ UNCHANGED <<rows, remote, step, at, copy, view,
                   kind, indexed, enqueues, requests>>

MarkJobSucceeded(w) ==
    /\ wstep[w] = "succeed"
    /\ \/ /\ job' = [job EXCEPT !.status = "succeeded"]
          /\ UNCHANGED faults
       \/ UNCHANGED job /\ Fault
    /\ WorkerGoto(w, "idle")
    /\ UNCHANGED <<rows, remote, step, at, copy, view,
                   kind, indexed, enqueues, requests>>

-----------------------------------------------------------------------------
(* runJob. *)

\* Mutant: a version without text is skipped.
ParseNativeSkips(w) ==
    /\ wstep[w] = "parse"
    /\ kind # "scanned"
    /\ WorkerGoto(w, IF kind = "text" THEN "embed" ELSE "idle")
    /\ UNCHANGED <<ocrVars, kind, job, indexed, enqueues, requests>>

\* A version with a text layer is parsed on the spot; one without any text has
\* no chunks, and that fails the attempt.
ParseNative(w) ==
    /\ wstep[w] = "parse"
    /\ kind # "scanned"
    /\ WorkerGoto(w, IF kind = "text" THEN "embed" ELSE "fail")
    /\ UNCHANGED <<ocrVars, kind, job, indexed, enqueues, requests>>

\* The file, its owner's configuration or its content cannot be read.
ParseFails(w) ==
    /\ wstep[w] = "parse" /\ step[w] = "idle"
    /\ Fault
    /\ WorkerGoto(w, "fail")
    /\ UNCHANGED <<rows, remote, step, at, copy, view,
                   kind, job, indexed, enqueues, requests>>

\* A scanned version asks for its task, and goes on with what EnsureTask
\* returned: the text of a result, or pages that wait for one, which have none.
AskForTask(c) ==
    /\ c \in Workers
    /\ wstep[c] = "parse" /\ kind = "scanned"
    /\ EnsureTask(c)
    /\ UNCHANGED indexVars

\* A request that parses the version, or asks how far its task has come.
Request(c) ==
    /\ c \notin Workers
    /\ kind = "scanned"
    /\ enqueues + requests < MaxDemands
    /\ requests' = requests + 1
    /\ EnsureTask(c) \/ GetTaskStatus(c)
    /\ UNCHANGED <<kind, job, indexed, wstep, enqueues>>

ContinueCall(c) ==
    /\ Proceed(c)
    /\ UNCHANGED indexVars

ParseScanned(w) ==
    /\ wstep[w] = "parse" /\ step[w] = "done"
    /\ WorkerGoto(w, IF copy[w].status = "succeeded" /\ copy[w].result THEN "embed" ELSE "fail")
    /\ Goto(w, "idle")
    /\ copy' = [copy EXCEPT ![w] = NoTask]
    /\ UNCHANGED <<rows, remote, at, view, faults,
                   kind, job, indexed, enqueues, requests>>

\* Mutant: the outcome is not looked at.
EmbedUnchecked(w) ==
    /\ wstep[w] = "embed"
    /\ \/ indexed' = TRUE /\ UNCHANGED faults
       \/ UNCHANGED indexed /\ Fault
    /\ WorkerGoto(w, "succeed")
    /\ UNCHANGED <<rows, remote, step, at, copy, view, kind, job, enqueues, requests>>

\* The embeddings are made, and one transaction deletes the version's chunks and
\* inserts the new ones: whichever fails, the old chunks stay.
EmbedAndReplace(w) ==
    /\ wstep[w] = "embed"
    /\ \/ /\ indexed' = TRUE
          /\ WorkerGoto(w, "succeed")
          /\ UNCHANGED faults
       \/ /\ UNCHANGED indexed
          /\ WorkerGoto(w, "fail")
          /\ Fault
    /\ UNCHANGED <<rows, remote, step, at, copy, view, kind, job, enqueues, requests>>

-----------------------------------------------------------------------------
(* The server process goes down with its workers and requests.  The rows stay,
   and nothing looks for a running job when it comes up again. *)
Crash ==
    /\ (\E w \in Workers : wstep[w] # "idle") \/ (\E c \in Callers : step[c] # "idle")
    /\ Fault
    /\ wstep' = [w \in Workers |-> "idle"]
    /\ step' = [c \in Callers |-> "idle"]
    /\ at' = [c \in Callers |-> 0]
    /\ copy' = [c \in Callers |-> NoTask]
    /\ view' = [c \in Callers |-> NoView]
    /\ UNCHANGED <<rows, remote, kind, job, indexed, enqueues, requests>>

OcrService == Provider /\ UNCHANGED indexVars

\* An attempt that has been claimed goes on.
Attempt(w) ==
    \/ ParseNative(w) \/ ParseFails(w) \/ ParseScanned(w)
    \/ EmbedAndReplace(w)
    \/ MarkJobFailed(w) \/ MarkJobSucceeded(w)

Next ==
    \/ Enqueue \/ Crash \/ OcrService
    \/ \E c \in Callers : AskForTask(c) \/ Request(c) \/ ContinueCall(c)
    \/ \E w \in Workers : ClaimNextJob(w) \/ Attempt(w)

Spec == Init /\ [][Next]_vars

-----------------------------------------------------------------------------
(* Properties. *)

Busy == {w \in Workers : wstep[w] # "idle"}

\* Every variable keeps its type.
TypeOK ==
    /\ OcrTypeOK
    /\ kind \in Kinds
    /\ job \in Job
    /\ indexed \in BOOLEAN
    /\ wstep \in [Workers -> WorkerStep]
    /\ enqueues \in Nat /\ requests \in Nat
    /\ enqueues + requests <= MaxDemands

\* A job that has succeeded has its chunks stored, whatever other workers and
\* later requests did to the row in the meantime.
SearchableWhenSucceeded == job.status = "succeeded" => indexed

\* FOR UPDATE SKIP LOCKED and the status keep a claimed job from a second
\* worker: the tries that have failed and those under way are at most three for
\* the first request to index and one more for each that came after it.
RetriesAreBounded == job.retry + Cardinality(Busy) <= MaxRetry - 1 + enqueues

\* The row a task of the provider is recorded in, or the call that will do so.
HasOwner(k) ==
    \/ \E i \in DOMAIN rows : rows[i].ref = k
    \/ \E c \in Callers : copy[c].ref = k /\ step[c] \in {"submitted", "record"} /\ at[c] # 0

\* As long as nothing fails, no task is worked on for nobody: overlapping calls
\* of EnsureTask may submit a version twice, but each records its own task.
NoOrphanTask ==
    faults = 0 =>
        \A k \in DOMAIN remote : remote[k].known => HasOwner(k)

\* As long as nothing fails, a task that the provider does not have yet is being
\* submitted: EnsureTask returns an open row without a provider id as it is, and
\* nothing submits it again.
NoStuckTask ==
    faults = 0 =>
        \A i \in DOMAIN rows :
            Open(rows[i]) /\ rows[i].ref = 0 =>
                \E c \in Callers : at[c] = i /\ step[c] \in {"submit", "submitted", "record"}

\* Only a crash or a lost statement leaves a job running with nobody at it: a
\* worker that has claimed it reports how its attempt ended.
NoLostJob ==
    (faults = 0 /\ Busy = {}) => job.status # "running"

\* "Once the OCR is finished, parsing again gives its structured result": the
\* row that says so has it, since a finished task is not asked for again.
FinishedHasResult == \A i \in DOMAIN rows : rows[i].status = "succeeded" => rows[i].result

=============================================================================
