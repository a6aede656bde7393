--------------------------- MODULE ExecutionService ---------------------------
(***************************************************************************)
(* One execution under concurrent requests: StartAsync, ResumeAsync and    *)
(* Cancel of workflowruntime/runtime.go behind the handlers of             *)
(* service/workflow_execution_service.go, the goroutines they launch, the  *)
(* in-process map of running executions and the execution store.           *)
(*                                                                         *)
(* The store keeps whole snapshots and the last writer wins; nothing ties  *)
(* a write to the snapshot it was computed from.  A request and the        *)
(* goroutine it launches are one process here: the goroutine takes over    *)
(* the copy that the request prepared.  The workflow is a chain of         *)
(* `Length` nodes (what a segment does inside a graph is WorkflowRun), so  *)
(* a snapshot says how many nodes have succeeded.                          *)
(*                                                                         *)
(* Abstracted: the service's own Get before each operation (it reads what  *)
(* the runtime's Get reads again), access control, the republication of    *)
(* an unchanged snapshot between two attempts of a node, the stream hub.   *)
(* The store is PostgresExecutionStore: a Get returns a copy of its own.   *)
(***************************************************************************)
EXTENDS Integers, FiniteSets, Lifecycle

CONSTANTS
    Length,         \* nodes of the workflow
    InputNodes,     \* those that ask for input
    Starter,        \* the request that starts the execution
    Resumes,        \* the resume requests
    Cancels,        \* the cancel requests
    Absent,         \* no snapshot
    MaxLostSaves,   \* bound: saves that fail
    MaxCrashes      \* bound: restarts of the server

Launchers == Resumes \cup {Starter}
Requests  == Launchers \cup Cancels

Snapshot == [status : ExecutionStatus, life : LifeState,
             done : 0 .. Length, waiting : 0 .. Length]

ServiceAssumption ==
    /\ Length \in Nat
    /\ InputNodes \subseteq 1 .. Length
    /\ Starter \notin Resumes \cup Cancels
    /\ Resumes \cap Cancels = {}
    /\ Absent \notin Snapshot
    /\ MaxLostSaves \in Nat
    /\ MaxCrashes \in Nat

ASSUME ServiceAssumption

VARIABLES
    stored,      \* the execution's row
    inFlight,    \* Runtime.running[executionID]
    step,        \* where each request, or its goroutine, stands
    held,        \* the snapshot it holds
    answered,    \* the node whose input a resume carries
    lostSaves,
    crashes,
    stale        \* history: the row is not what the process last read or wrote

vars == <<stored, inFlight, step, held, answered, lostSaves, crashes, stale>>

Step == {"new", "published", "prepared", "marked", "read",
         "loop", "execute", "result", "unmark",
         "done", "rejected", "dead"}

\* A goroutine is running segments of the execution.
Working == {"loop", "execute", "result", "unmark"}

\* Requests that a crash takes down: all that have begun and not ended.
Underway == Working \cup {"published", "prepared", "marked", "read"}

-----------------------------------------------------------------------------
\* What buildExecution makes.
Fresh == [status |-> "running", life |-> LifeStep("idle", "BEGIN"),
          done |-> 0, waiting |-> 0]

\* Appending a lifecycle event and deriving the status from the list.
Record(x, event) ==
    [x EXCEPT !.life = LifeStep(x.life, event),
              !.status = StatusOf(LifeStep(x.life, event))]

Move(p, s) == step' = [step EXCEPT ![p] = s]

Keep(p, x) == held' = [held EXCEPT ![p] = x]

\* publishExecution by p: the result of Save is discarded, so a save that
\* fails goes unnoticed.
Publish(p, x) ==
    \/ /\ stored' = x
       /\ stale' = [q \in Requests |-> q # p]
       /\ UNCHANGED lostSaves
    \/ /\ lostSaves < MaxLostSaves
       /\ lostSaves' = lostSaves + 1
       /\ stale' = [stale EXCEPT ![p] = TRUE]
       /\ UNCHANGED stored

NoPublish == UNCHANGED <<stored, lostSaves, stale>>

Init ==
    /\ stored = Absent
    /\ inFlight = FALSE
    /\ step = [p \in Requests |-> "new"]
    /\ held = [p \in Requests |-> Absent]
    /\ answered = [p \in Requests |-> 0]
    /\ lostSaves = 0
    /\ crashes = 0
    /\ stale = [p \in Requests |-> FALSE]

-----------------------------------------------------------------------------
(* StartAsync: publish, then mark and launch. *)

StartPublish ==
    /\ step[Starter] = "new"
    /\ Publish(Starter, Fresh)
    /\ Keep(Starter, Fresh)
    /\ Move(Starter, "published")
    /\ UNCHANGED <<inFlight, answered, crashes>>

\* launchAsync: gives up silently when the execution is marked already.
StartLaunch ==
    /\ step[Starter] = "published"
    /\ inFlight' = TRUE
    /\ Move(Starter, IF inFlight THEN "done" ELSE "loop")
    /\ NoPublish
    /\ UNCHANGED <<held, answered, crashes>>

-----------------------------------------------------------------------------
(* ResumeAsync: prepare, mark, publish and launch. *)

\* Mutant: trusts WaitingInput, which a cancel leaves in place, and forces the
\* status the way Cancel does.
ResumePrepareForced(r) ==
    /\ step[r] = "new"
    /\ stored # Absent
    /\ stored.waiting # 0
    /\ Keep(r, [stored EXCEPT !.status = "running", !.life = "running", !.waiting = 0])
    /\ answered' = [answered EXCEPT ![r] = stored.waiting]
    /\ stale' = [stale EXCEPT ![r] = FALSE]
    /\ Move(r, "prepared")
    /\ UNCHANGED <<stored, inFlight, lostSaves, crashes>>

\* prepareResumeExecution reads the row and computes the resumed snapshot.
ResumePrepare(r) ==
    /\ step[r] = "new"
    /\ stored # Absent
    /\ stored.status = "waiting_input"
    /\ stored.waiting # 0
    /\ Keep(r, [Record(stored, "RESUME") EXCEPT !.waiting = 0])
    /\ answered' = [answered EXCEPT ![r] = stored.waiting]
    /\ stale' = [stale EXCEPT ![r] = FALSE]
    /\ Move(r, "prepared")
    /\ UNCHANGED <<stored, inFlight, lostSaves, crashes>>

\* Mutant: resumes whether or not the execution is marked.
ResumeMarkUnchecked(r) ==
    /\ step[r] = "prepared"
    /\ inFlight' = TRUE
    /\ Move(r, "marked")
    /\ NoPublish
    /\ UNCHANGED <<held, answered, crashes>>

\* markExecutionRunning, or "the execution is running, try again later".
ResumeMark(r) ==
    /\ step[r] = "prepared"
    /\ inFlight' = TRUE
    /\ Move(r, IF inFlight THEN "rejected" ELSE "marked")
    /\ NoPublish
    /\ UNCHANGED <<held, answered, crashes>>

\* Mutant: launches with launchAsync, which marks a second time and gives up.
ResumePublishMarksAgain(r) ==
    /\ step[r] = "marked"
    /\ Publish(r, held[r])
    /\ Move(r, "done")
    /\ UNCHANGED <<inFlight, held, answered, crashes>>

\* launchMarkedAsync runs at once: the mark is already this request's.
ResumePublish(r) ==
    /\ step[r] = "marked"
    /\ Publish(r, held[r])
    /\ Move(r, "loop")
    /\ UNCHANGED <<inFlight, held, answered, crashes>>

-----------------------------------------------------------------------------
(* Cancel: read, then publish the copy as cancelled, whatever it was. *)

CancelRead(c) ==
    /\ step[c] = "new"
    /\ stored # Absent
    /\ Keep(c, stored)
    /\ stale' = [stale EXCEPT ![c] = FALSE]
    /\ Move(c, "read")
    /\ UNCHANGED <<stored, inFlight, answered, lostSaves, crashes>>

CancelPublish(c) ==
    /\ step[c] = "read"
    /\ Publish(c, [held[c] EXCEPT !.life = LifeStep(held[c].life, "CANCEL"),
                                  !.status = "cancelled"])
    /\ Move(c, "done")
    /\ UNCHANGED <<inFlight, held, answered, crashes>>

-----------------------------------------------------------------------------
(* The goroutine: runUntilPauseOrEnd on its copy, then the final publish. *)

NextNode(w) == held[w].done + 1

AsksForInput(w) == NextNode(w) \in InputNodes /\ answered[w] # NextNode(w)

\* Mutant: one node too many.
BeginNodePastEnd(w) ==
    /\ step[w] = "loop"
    /\ held[w].done <= Length
    /\ Publish(w, held[w])
    /\ Move(w, "execute")
    /\ UNCHANGED <<inFlight, held, answered, crashes>>

BeginNode(w) ==
    /\ step[w] = "loop"
    /\ held[w].done < Length
    /\ Publish(w, held[w])
    /\ Move(w, "execute")
    /\ UNCHANGED <<inFlight, held, answered, crashes>>

\* The end of an executor's turn: record the outcome in the copy, publish it.
Outcome(w, x, s) ==
    /\ Keep(w, x)
    /\ Publish(w, x)
    /\ Move(w, s)
    /\ UNCHANGED <<inFlight, answered, crashes>>

NodeSucceeds(w) ==
    /\ step[w] = "execute"
    /\ ~ AsksForInput(w)
    /\ Outcome(w, [held[w] EXCEPT !.done = NextNode(w)], "loop")

NodeFails(w) ==
    /\ step[w] = "execute"
    /\ ~ AsksForInput(w)
    /\ Outcome(w, Record(held[w], "FAIL"), "result")

NodeAsks(w) ==
    /\ step[w] = "execute"
    /\ AsksForInput(w)
    /\ Outcome(w, [Record(held[w], "WAIT_INPUT") EXCEPT !.waiting = NextNode(w)],
               "result")

\* Mutant: the mark is released when the run function returns.
RunOutUnmarks(w) ==
    /\ step[w] = "loop"
    /\ held[w].done = Length
    /\ Keep(w, Record(held[w], "COMPLETE"))
    /\ Move(w, "result")
    /\ NoPublish
    /\ inFlight' = FALSE
    /\ UNCHANGED <<answered, crashes>>

\* The loop is over.  Only launchMarkedAsync publishes the completion.
RunOut(w) ==
    /\ step[w] = "loop"
    /\ held[w].done = Length
    /\ Keep(w, Record(held[w], "COMPLETE"))
    /\ Move(w, "result")
    /\ NoPublish
    /\ UNCHANGED <<inFlight, answered, crashes>>

\* Mutant: counts on the run to have published everything.
DropResult(w) ==
    /\ step[w] = "result"
    /\ NoPublish
    /\ Move(w, "unmark")
    /\ UNCHANGED <<inFlight, held, answered, crashes>>

PublishResult(w) ==
    /\ step[w] = "result"
    /\ Publish(w, held[w])
    /\ Move(w, "unmark")
    /\ UNCHANGED <<inFlight, held, answered, crashes>>

\* The deferred unmarkExecutionRunning.
Unmark(w) ==
    /\ step[w] = "unmark"
    /\ inFlight' = FALSE
    /\ Move(w, "done")
    /\ NoPublish
    /\ UNCHANGED <<held, answered, crashes>>

-----------------------------------------------------------------------------
\* The server restarts.  The row survives; the map, the requests and the
\* goroutines do not, and nothing at start-up looks for executions to go on.
Crash ==
    /\ crashes < MaxCrashes
    /\ crashes' = crashes + 1
    /\ inFlight' = FALSE
    /\ step' = [p \in Requests |-> IF step[p] \in Underway THEN "dead" ELSE step[p]]
    /\ UNCHANGED <<stored, held, answered, lostSaves, stale>>

Start == StartPublish \/ StartLaunch

Resume(r) == ResumePrepare(r) \/ ResumeMark(r) \/ ResumePublish(r)

Cancel(c) == CancelRead(c) \/ CancelPublish(c)

Segment(w) ==
    \/ BeginNode(w)
    \/ NodeSucceeds(w)
    \/ NodeFails(w)
    \/ NodeAsks(w)
    \/ RunOut(w)
    \/ PublishResult(w)
    \/ Unmark(w)

Next ==
    \/ Start
    \/ \E r \in Resumes : Resume(r)
    \/ \E c \in Cancels : Cancel(c)
    \/ \E w \in Launchers : Segment(w)
    \/ Crash

\* Whether a request is ever made is not assumed; one that has begun goes on,
\* and so does a goroutine: nothing in the code makes either wait for another.
Fairness ==
    /\ WF_vars(StartLaunch)
    /\ \A r \in Resumes : WF_vars(ResumeMark(r) \/ ResumePublish(r))
    /\ \A c \in Cancels : WF_vars(CancelPublish(c))
    /\ \A w \in Launchers : WF_vars(Segment(w))

Spec == Init /\ [][Next]_vars /\ Fairness

-----------------------------------------------------------------------------
(* Properties. *)

TypeOK ==
    /\ stored \in Snapshot \cup {Absent}
    /\ inFlight \in BOOLEAN
    /\ step \in [Requests -> Step]
    /\ held \in [Requests -> Snapshot \cup {Absent}]
    /\ answered \in [Requests -> 0 .. Length]
    /\ lostSaves \in 0 .. MaxLostSaves
    /\ crashes \in 0 .. MaxCrashes
    /\ stale \in [Requests -> BOOLEAN]

StoredStatus == IF stored = Absent THEN "running" ELSE stored.status

\* Two goroutines never run segments of the same execution at once, however
\* many resumes race: the map is claimed before the launch and released only
\* after the last publish.
SingleWorker ==
    \A p, q \in Launchers :
        step[p] \in Working \cup {"marked"} /\ step[q] \in Working \cup {"marked"} => p = q

\* An execution that the store shows as running has somebody to run it, unless
\* a crash or a failed save came in between.  (Nothing repairs those.)
RunningHasOwner ==
    crashes = 0 /\ lostSaves = 0 /\ stored # Absent /\ StoredStatus = "running" =>
        inFlight \/ step[Starter] = "published"

\* A cancel is for good once nobody holds a copy taken before it: no goroutine
\* is at work, and no resume or start is half way.
CancelledForGood ==
    /\ StoredStatus = "cancelled"
    /\ \A p \in Launchers : step[p] \notin Underway

CancelSticks == [][CancelledForGood => CancelledForGood']_vars

\* A process that writes over the very snapshot it last read or wrote moves
\* the status along the README's flow, or cancels a finished execution.  Every
\* other departure from the flow is a write of a process whose copy was stale.
LC == INSTANCE ExecutionLifecycle WITH status <- StoredStatus

LateCancel ==
    /\ StoredStatus \in LC!Finished
    /\ \E c \in Cancels : step[c] = "read" /\ step'[c] = "done"

StaleWrite == \E p \in Requests : stale[p] /\ step'[p] # step[p]

FreshWritesFollowFlow == [][LC!Next \/ LateCancel \/ StaleWrite]_StoredStatus

\* Without a crash or a failed save, an execution does not stay running
\* forever: its goroutine brings it to an end or to a pause, and says so.
NothingGoesWrong == [](crashes = 0 /\ lostSaves = 0)

EventuallySettles ==
    NothingGoesWrong => (StoredStatus = "running" /\ stored # Absent ~> StoredStatus # "running")

\* A resume that was accepted has its answer consumed by a goroutine of its
\* own, or the server crashed.
AnswerConsumed(r) ==
    held[r] # Absent /\ (held[r].done >= answered[r] \/ held[r].status = "failed")

AcceptedResumeRuns ==
    \A r \in Resumes :
        step[r] = "marked" ~> AnswerConsumed(r) \/ step[r] = "dead"

\* What the README says of cancelled and of finished executions.
CancelledIsFinal ==
    [][StoredStatus = "cancelled" => StoredStatus' = "cancelled"]_vars

FinishedIsFinal ==
    [][(StoredStatus \in {"completed", "failed"}) => StoredStatus' = StoredStatus]_vars

=============================================================================
