# Formal models of xafgs

TLA+ modules, TLC configurations and TLAPS proofs for the server of this
repository (`src/server`, Go): a platform that runs workflow definitions, stores
versioned files, parses and indexes documents, and streams the progress of
executions to a web console. Paths below are relative to `src/server/internal`
unless they say otherwise.

## 1. Inventory

| Component | State | Operations | Interacts with |
|---|---|---|---|
| Workflow engine (`workflowruntime/runtime.go`, `dsl.go`, `graph.go`, `lifecycle.go`, `types.go`) | a snapshot: node states, events, variables, `WaitingInput`, status; per segment also queue, pushed set, arrivals, step counter | `runUntilPauseOrEnd`: executes nodes until the end, a failure or a pause; resume preparation | calls executors; calls `publishExecution` after every node |
| Execution service (`service/workflow_execution_service.go`, `runtime.go`) | rows of the store, the in-process map `running` | StartAsync, ResumeAsync, Cancel, Get; the goroutines they launch | store (`postgres_store.go`), stream hub |
| Stream hub and SSE (`stream.go`, `handler/workflow_execution.go`) | groups of one-slot channels per execution | Publish, Subscribe, unsubscribe, the connection's loop | engine goroutines and cancel requests publish; one goroutine per client reads |
| File upload (`service/file_service.go`, `repository/postgres_file_repository.go`, `service/local_file_storage.go`) | rows of `file`, `file_version`, `upload_session`; bytes on disk | create, upload, cancel and expire a session; upload directly; delete | would enqueue index jobs, but the server gives it no enqueuer |
| Debug sessions (`debug.go`, `debug_store.go`) | a session: target, node states, variables, `WaitingInput`, status; per run a queue, pushed set and arrivals | create, continue, rerun, rebuild | calls executors with a loop of its own |
| Reporting (`service/reporting_service.go`, `repository/reporting_repository.go`) | maps of cases, case files, facts, assembly items and subject assets | attach a file, process, review | document parsing, files |
| Iteration node (`iteration.go`) | trace, aggregate, reserved roots | runs a sub-graph once per item | called by the engine |
| Execution rate limiter (`service/workflow_execution_rate_limiter.go`) | a log of times per key | Allow | guards the start handler |
| Workflow definitions (`service/workflow_service.go`, `repository/postgres_workflow_repository.go`) | workflow row, version rows | create, update, publish, rollback, delete | read by the start of an execution |
| OCR tasks (`service/ocr_task_service.go`, `src/ocr-service`) | task rows; tasks in the provider's memory | EnsureTask, GetTask (polls) | document parsing |
| Knowledge index (`service/knowledge_service.go`, `repository/postgres_knowledge_repository.go`) | job rows, chunks | enqueue, claim, succeed, fail, replace | reindex requests, chat; the server starts no worker |
| Node executors and write-backs | none of their own | one call per node | engine |
| Document parsing, chat, master data, HTTP surface, AI clients, schema, web console | see `PROJECT.json` | | |

What is hard in it:

* **The engine forgets between segments.** Its queue, pushed set and arrival
  sets live for one segment; a resume rebuilds them from node states and branch
  events. Joins, branches and cycles make that rebuild easy to get wrong, and
  the tests cover one shape each.
* **Whole snapshots, last writer wins.** A request, a goroutine and a cancel
  each hold a copy of the execution and save all of it; the only exclusion is
  the map of running executions, which a resume claims *after* it has prepared
  its copy and a cancel never looks at. The error of a save is discarded.
* **Sends outside of the lock.** The hub copies the channels under its lock and
  sends afterwards, while connections unsubscribe and close their channels.
* **Two stores without a common transaction.** An upload writes bytes, then
  commits a version; a deletion removes rows, then bytes.
* **Reads outside of the transaction.** An update of a workflow reads the row and
  the highest version before the transaction that writes both; a start reads the
  breaker, the published version and the clock before it takes the limiter's lock.
* **Polls and duplicates.** Whoever looks for the OCR task of a version may submit
  one, poll it, and write a row that somebody else has written since; the provider
  answers from threads of its own and forgets its tasks when it restarts.
* **Reviews under processings.** A report case is processed file by file while
  others attach files and decide on facts, without a lock: any two repository calls of
  one request may have another request's calls between them.
* **Restarts.** The running map, the hub and the requests are in memory; no
  code looks for interrupted work when the server starts.

What makes each component correct, in a sentence: the engine runs what the
data flow of the definition says and nothing else, and always returns; the
service has one goroutine per execution at most and the status follows
`docs`/`README.md`'s flow; the stream shows snapshots in order and closes on an
ending; a file's versions are dense and agree with the bytes on disk; a workflow's
draft and published pointers name the DSL that is shown; an index job is retried a
bounded number of times and succeeds only with an index; a debug session is
one that a single run has left; a ready report shows what is approved now, as far as
requests that overlap leave it that.

## 2. Modules

| Module | Models | Proofs |
|---|---|---|
| `Lifecycle` | `StatusFromLifecycleEvents`: the state machine folded over the life-cycle events | |
| `ExecutionLifecycle` | abstract: the status flow of `README.md` (running, waiting, finished) | |
| `WorkflowGraph` | definitions, join policy, taken edges, arrivals from history | |
| `Dataflow` | abstract: what running a definition means, without queue and pauses | |
| `WorkflowRun` | the engine, one execution, every statement that changes its state | `WorkflowRunProofs` |
| `ExecutionService` | requests, goroutines, running map and store for one execution | `ExecutionServiceProofs` |
| `Feed` | abstract: what the clients of a stream are promised | |
| `StreamHub` | hub, publishers, a cancel and connections of one execution | `StreamHubProofs` |
| `FileUpload` | one file: sessions, uploads, deletions, database and disk | `FileUploadProofs` |
| `OcrTask` | the OCR tasks of one version: rows, calls that submit and poll, the provider's threads and restarts | `KnowledgeIndexProofs` |
| `KnowledgeIndex` | extends `OcrTask`: the index job of the version and the workers that claim it | `KnowledgeIndexProofs` |
| `WorkflowHistory` | abstract: what the editors and users of a workflow are promised | |
| `WorkflowDefinition` | one workflow: its row, its versions and the requests that change it | `WorkflowStartProofs` |
| `WorkflowStart` | extends `WorkflowDefinition`: the requests of one user to run it, and the rate limiter | `WorkflowStartProofs` |
| `DebugSession` | one debug session over `WorkflowGraph`, and overlapping requests on it | `DebugSessionProofs` |
| `ReportCase` | one report case: attaches, processings and reviews, call by call of the repository | `ReportCaseProofs` |
| `MC...` | the instances that TLC checks | |

### WorkflowRun

`dsl`, `nodeStatus`, `branch`, `waiting` and `life` are the saved snapshot
(`branch` is the handle in a node's `node.branch` event); `queue`, `pushed`,
`arrived`, `current`, `attempt` and `stepCount` are the locals of
`runUntilPauseOrEnd`. `Begin` is its prologue, `Dequeue` one turn up to the
executor's call (`SkipFinished` or `StartNode`), and `Retry`, `PauseForInput`,
`NodeFailed`, `NodeSucceeded` and `NodeBranched` the cases of its result.
`Complete` is the epilogue (pending nodes become skipped). `Resume` is
`prepareResumeExecution` with the prologue of the next segment, which seeds the
arrivals from history and queues what history allows.

An executor is a nondeterministic result that its kind can have: an if-else node
answers a handle, an input node asks unless it has been answered, others
succeed or fail. The order in which the targets of a fan-out are queued depends
on map iteration and on the layout hints of the definition; the model takes any.
Variables, outputs and timing are left out. The loop also asks `ctx.Err()`,
but the service calls it with `context.WithoutCancel`, so that branch is dead.
`maxSteps` cannot be reached (proved): a cycle ends because a node that has
been pushed is not pushed again, not by the "possible loop" error.

### ExecutionService

One process per request; the goroutine that a start or a resume launches takes
over its copy of the snapshot. The steps are cut where another process may come
in between: `StartPublish`, `StartLaunch`; `ResumePrepare`, `ResumeMark`,
`ResumePublish`; `CancelRead`, `CancelPublish`; `Segment`, the goroutine:
begin a node, end it with a publish, run out, publish the result, and unmark.
The definition is a chain of nodes, some of which ask for input: what happens
inside a graph is the other module's question. `Publish` may lose the save,
and `Crash` empties the running map and kills every process under way.
The history variable `stale[p]` says that the row is no longer the one `p` last
read or wrote. The service reads the execution once more before each call, for
access control, and that read changes nothing. The synchronous `Start` and
`Resume` are not called by the service. A panic of the hub inside a
publish is not part of this module: it is the subject of `StreamHub`.
There, a panic inside a request is recovered by the web framework
(`bootstrap/app.go:80`), and if that request is a resume it leaves the execution
marked and never launched; a panic in a goroutine ends the process.

### StreamHub

`Publish` is cut into the save, the copy of the channels, one send per channel
in any order, and, for a full channel, the drain and the second attempt. The
handler reads the execution, subscribes, sends what it has read, and loops; it
leaves on a snapshot that is not running, or when a write fails (`Hangup`; the
server's write timeout of 10 s is shorter than the heartbeat of 12 s, so streams
do break). Snapshots are numbered; `RunOrder` gives the kinds that a run
publishes one after the other. A cancel publishes a snapshot of its own while the
run does; `MaxAudience` bounds the clients that are connected when it does (two
clients and a cancel at once leave TLC's reach, two clients alone do not; the theorems
need no such bound). `ImplementsFeed` maps it to `Feed`: what a client was shown is the
last snapshot its handler received, a cancel's snapshot is an ending that stands
outside of the run's numbering, and channels, drains and copies of groups are hidden.

### FileUpload

`alive`, `latest`, `rows` and `session` are the database, `blobs` the
disk. A storage key is the version an upload aims at and a stamp (the second
and the file's name). `SessionBegin`, `MarkSessionUploading`, `Persist`,
`CompleteSessionUpload`, `DiscardBytes` and `EnqueueIndexTask` are
`UploadBySession`; `DirectBegin`, `Persist`, `CreateVersion` and so on are
`UploadVersion`; `DeleteRead`, `DeleteRows` and `DeleteBytes` are `DeleteFile`.
A transaction is one action, since both commit paths lock the file's row. Every
write, commit, removal and query that can fail may do so (`Fault`), and a commit
may fail after it has taken effect (`Committed`). `EnqueueIndexTask` ends an upload and
changes nothing: `enqueueIndexTask` returns when there is no enqueuer (`file_service.go:194`),
and the server builds the service without one (`bootstrap/app.go:147`). So no upload is
indexed, although `src/docs/knowledge-rag-usage.md:152` has the reader check that its index
job was enqueued; a job comes from a reindex request only. Sessions belong to one file:
the storage key begins with the file's id, so files do not meet. Left out: reading and
listing, size limits (they reject before anything has changed), and the
repository that keeps files in memory when there is no database.

### OcrTask and KnowledgeIndex

`rows` are the version's rows of `ocr_task`, `remote` the provider's tasks; a
`ref` is the provider's id of a task, 0 before there is one. A caller is a request
or an index worker inside `EnsureTask` or `GetTaskStatus`: `FindOpen`,
`FindSettled` and `FindNone` are the lookup and what follows from it,
`CreateOCRTask`, `SubmitTask`, `SubmitReply`, `SubmitFails` and `RecordSubmission`
the submission, `ReadStatus`, `ReadResult`, `AskFails` and `StoreView` a poll. The
provider (`src/ocr-service/app/service.py`) locks its threads' writes but not its
answers: `ReadStatus` and `ReadResult` are two steps, and `Thread` may come
between them. `RestartProvider` empties its memory. The statements that fail use
up `faults`.

`KnowledgeIndex` adds the job, `indexed` (whether the version has chunks) and one
step counter per worker: `ClaimNextJob` (one statement, `FOR UPDATE SKIP LOCKED`),
the parse, which for a scanned version goes through `OcrTask`, `EmbedAndReplace`,
`MarkJobSucceeded` or `MarkJobFailed`. `Enqueue` upserts the row and may come at
any time. What a version is (with text, blank or scanned) is chosen at the start.
Nothing in the server calls `StartWorker` (`knowledge_service.go:171`), so that jobs stay
pending, against `src/docs/knowledge-rag-usage.md:7`. The module has the workers' steps
without fairness: what happens if one takes them, never that one does.

### WorkflowDefinition and WorkflowStart

`row` and `versions` are the tables. An edit is cut into `UpdateRead`,
`UpdateNumber` (`MAX(version_no)`, on a connection of its own) and
`UpdateCommit`, `UpdateConflict` (the unique key of the versions, or the row that
has gone) or `UpdatePlain` (no DSL: the draft is written back as it was read). `Publish`,
`Offline`, `Rollback` and `Delete` are one UPDATE or DELETE each. A start reads
the row, the published DSL and the clock, and calls the limiter: `ReadWorkflow`,
`ReadPublished`, `ReadClock`, `Allow`. `log` is the limiter's log; `latest`,
`skewed`, `upTo` and `raced` are history variables. One tick of the clock is any
length of time; a window is a number of ticks. `ImplementsHistory` maps the tables to
`WorkflowHistory`: `Past` (the versions' DSLs), `DraftDsl`, `PublishedDsl` and the
requests that have been `Settled`. The statements that read are hidden, and `UpdateCommit` or
`UpdatePlain` is the instant at which an update happens.

### DebugSession

`stored` is the session in the store, `run[c]` the call of `runDebugSession` that
request `c` is in: its copy of the session, queue, pushed set and arrivals.
`Start`, `Continue`, `Rerun` and `Rebuild` are the four requests up to the loop
(`Open` is its head), `Skip`, `AskForInput`, `Fail`, `Succeed` and `Branch` one
turn of it, `RunDry` its end and `Save` the store's. Results of executors and
orders of fan-outs are free, as in `WorkflowRun`. `Explained` is what the session in the
store owes its reader: each node that left pending has been led to by others that
succeeded (`Led`). The target is the exception: a rerun resets its state but not what its earlier
answer led to, in a loop back to it. Three things the model shows that
a reader of the code may not expect, and that the properties state as premises or
leave open: a continue queues the answered node alone, so that another branch that was
queued when the run paused waits for a rerun (`debug.go:397`); an if-else node as
the target leaves the session `ready`, never `target_succeeded`; and an answer that no
edge carries is not recognised by a later run, although the run that got it took an
edge (`debug.go:593`).

### ReportCase

The repository's maps have no lock and handlers run in parallel, so that a request is a
sequence of repository calls, one step each, and the calls of all requests interleave.
`copy`, `proc` and `rev` say where each request is and what it has read.

* An attach: `AttachRead` (the case, the query for duplicates), `AttachRefused` or
  `AttachCreate`, `AttachSave` (`refreshCaseSummary` writes back the status it read).
* A processing: `ProcessBegin`, `ProcessList`, and for each file `ProcessMark` (the file is
  pending), `ProcessDelete` and one `ProcessCreate` per fact, or `ProcessFail`; at the end
  `ProcessEnd` and `ProcessSummary`.
* A review: `ReviewBegin`; for each decision `ReviewMark`, `ReviewFind`, and per fact
  `ReviewFact` and, for the files of `SubjectFiles`, `ReviewAsset`; then `rebuildAssembly` as
  `ReviewClear`, `ReviewList`, `ReviewGather` per approved file and `ReviewItem` per fact;
  `ReviewReady` and `ReviewSummary`; or `ReviewCutShort` at an invalid decision.

A single call is one step; two map operations at the very same instant are a data race, which
the model does not describe. Calls that read what never changes are part of the next one.

What such requests may do to each other shows in four history variables, which the
properties use to say precisely when a promise is off. `disputed`: requests that wanted
different review statuses of a file overlapped on it, and none has had it for itself since
(a review between a processing's first and third call leaves an approved file with pending
facts). `doubled`: two processings overlapped on a file (it has two sets of facts). `behind`: since
the last rebuild that had the case for itself (`sole`), a file was decided, another rebuild
ran, or an attach put back an old status (a rejecting review inside another one's rebuild
leaves rejected facts in a ready report; so does a review that is cut short). Each
of these outcomes is reached by the model, and without the exceptions TLC finds
`DecisionsCoverFacts`, `OneExtraction` and `ReadyMeansAssembled` violated. The properties
show that nothing else breaks them, and that the next undisturbed request puts them right.
Assets are a set of facts: that approving a file again creates its assets a second time, and that
two attaches of one file may both pass the query for duplicates, is not shown by any property.

## 3. Runs

| Run | Question | Bounds | Distinct states |
|---|---|---|---|
| `engine` | Does the engine implement the data flow, lose nothing across pauses, and return? | 8 hand-made definitions of 2 to 6 nodes and all members of two families: 3 nodes with cycles, 4 nodes with forward edges, every choice of kinds and join policies | 243,096 |
| `engine_unreachable` | Are unreachable nodes skipped, as the runtime's documentation says? | one definition | violated |
| `service` | Start, two resumes and a cancel, in any order | chain of 3 nodes, two of which ask; one lost save, one restart | 40,611 |
| `service_cancel` | Is cancelled final, as `README.md` says? | chain of 2 | violated |
| `service_stale_resume` | Is completed final, as `README.md` says? | chain of 2 | violated |
| `stream` | Does the hub implement the feed? Conflation, endings and panics with two clients and a cancel | 5 snapshots, one hang-up, one client when the cancel publishes | 166,730 |
| `upload` | Two uploads of one session, a direct one, a cancel, a deadline and a deletion | two stamps, one fault, one restart | 287,857 |
| `documents` | Are retries bounded, submissions made and recorded, and successes searchable? | two workers and a request, two tasks, two demands (enqueues or requests), one fault | 399,493 |
| `ocr_result` | Does a finished OCR give its result, as `docs/report-cases-usage.md` says? | one request, one task, no fault | violated |
| `definitions` | Is a workflow the history that its editors see? The limiter under overlapping edits and starts | three edits, three starts, two settings of the breaker, two ticks | 1,195,436 (with symmetry) |
| `debug` | Overlapping requests on one debug session | two clients; nine definitions of 4 to 6 nodes, one with a loop back to a branch, each node as the target, both modes | 164,141 (with symmetry) |
| `reporting` | What do decisions, facts and a ready report have in common when the calls of attaches, processings and reviews interleave? | two files, any two requests in flight, two extractions of one fact each | 2,213,431 (with symmetry) |

Why the bounds are enough to be of interest: three or four nodes make every
join see all orders of arrival and a pause between any two of them, and the
families contain every combination; two resumes are what a race needs, and a
chain with two questions lets a resume be overtaken by a whole segment; a
snapshot more than the first ending covers "ends, is launched again, ends"; two
uploads of one session and a third that competes for the version make every
pair of uploads race; two stamps let keys collide or not; two workers and a web
request meet at every step of a submission and of a poll; of three edits two race and the
third publishes, rolls back or deletes between them, and three starts fill a breaker
of two; two clients let one request on a session overlap a series of the other's;
two requests in flight are what it takes to put one's calls between the other's, and every
kind of request meets every other, in any order and again and again. That a third request
joins in, or that an extraction has several facts, is left to the theorems.
A bound limits the number of faults, restarts, hang-ups, snapshots, demands, ticks,
requests in flight, extractions and their facts, nothing else, and each has its constant. The safety properties of all
passing runs also have theorems, without bounds (section 5). Symmetry is used only in runs that
check safety, and every set it permutes is treated alike by the properties.

`CHECK_DEADLOCK FALSE` is set where systems come to an end: an execution finishes,
requests are answered, streams close, bounds are used up. A report case never does
(it can always be reviewed again), and `reporting` checks that it does not get stuck.

What the properties say is written beside each of them. The ones a reader
should look at first: `ArrivedIsHistory` (a resume rebuilds exactly what was
lost), `ImplementsDataflow`, `ImplementsFeed` and `ImplementsHistory` (refinements
of what each component promises), `SingleWorker`,
`FreshWritesFollowFlow` (the status leaves the documented flow only by the
write of an overtaken copy or by the cancel of a finished execution),
`CancelSticks`, `NewestKept`, `OnlyEndingsPanic`, `BytesAreKept`,
`NothingIsLeftBehind`, `RetriesAreBounded`, `ShownDslIsDraft`,
`AdmissionsAreLimited`, `StoredIsOneRun`, `DecisionsCoverFacts`, `ReadyMeansAssembled`.

### What the violated runs show

* `engine_unreachable`: `canEnqueueFromHistory` (`runtime.go:574`) answers true
  for every node without incoming edges. The first resume executes nodes that no
  edge leads to; the documentation calls them skipped, and without a pause they are.
* `service_cancel`: a cancel saves a cancelled copy and tells nobody; the
  goroutine's next publish puts the execution back to running.
* `service_stale_resume`: a resume reads `waiting_input`, is overtaken by another
  one that runs the execution to its end, then claims it and runs the rest of the
  nodes a second time.
* `ocr_result`: the provider starts a task's thread before it builds the reply to the
  submission. A reply that already says succeeded is copied into the row, without a
  result, which it cannot carry; the row counts as finished and is never asked for again.

Premises that mark where the code offers no guarantee: after a lost save or a
restart an execution may stay running for ever (`RunningHasOwner`,
`EventuallySettles`); two uploads that come to the same storage key overwrite
each other's bytes, and the one that loses removes them (`BytesAreKept`); a
version that is committed between the two statements of a deletion leaves its
bytes behind (`NothingIsLeftBehind`); a connection that subscribes after
it has read "running" and after the ending was published waits until it breaks
(`EndingCloses`); a job that is running when its worker dies stays running
(`NoLostJob`), and an OCR task whose submission was interrupted stays open without one
(`NoStuckTask`); readings of the clock that reach the limiter out of order
may let more through (`AdmissionsAreLimited`); overlapping requests on a
report case do what section 2 says (`DecisionsCoverFacts`, `OneExtraction`,
`ReadyMeansAssembled`).

Not shown by a run of their own, but divergences from the documentation all the same: uploads
are not indexed (`src/docs/knowledge-rag-usage.md:152`) and jobs are not worked off (`:7`),
because the server is built without an enqueuer and starts no worker.

## 4. Fairness

* `WorkflowRun`: `WF_vars(Segment)`. A segment is sequential code in a
  goroutine, and the only thing it waits for is an executor. That an executor
  answers is an assumption about the definition: HTTP requests have a time limit,
  but the script interpreter has none (`executors.go:266`) and neither have calls of a
  model (`executors.go:169`), so an endless script holds its segment, and the mark
  in the running map, until the server restarts. Resuming is a user's choice and
  not assumed.
* `ExecutionService`: a request that has begun goes on, and so does each
  goroutine (`WF` for the rest of a start, of each resume and each cancel, and for
  each segment, under the same assumption on executors). Nothing is assumed of requests that have not begun, of
  lost saves or of restarts.
* `StreamHub`: a publish that has begun goes on, and so does a connection's
  handler. That the run publishes again, that clients connect or hang up, is not
  assumed.
* The other modules: none; their properties are safety properties. In particular no worker of
  the knowledge index is assumed to take a step, since the server starts none.

## 5. Proofs

Every theorem holds for all values of the constants that satisfy the named
assumptions: `GraphsAssumption` and `NoneAssumption` (finitely many well-formed
definitions to choose from, a value that is not a node), `ServiceAssumption`
and `UploadAssumption` (the sets of requests do not overlap, the special values
are no snapshots or keys, the bounds are numbers), `OcrAssumption` and
`IndexAssumption` (finitely many workers, all of them callers; bounds),
`DefinitionAssumption` and `StartAssumption` (each edit brings a DSL of its own, a
breaker is a pair of positive numbers, finitely many starts), `ReportAssumption`,
`HubAssumption` and `ClientsAssumption`. All of them are evaluated by
TLC in the runs. Finite sets of nodes, of workers and of starts are the only finiteness used.

**WorkflowRunProofs.** `ArrivedIsHistory` and `JoinRespected` are not inductive
on their own. `IInv` adds that statuses and phase agree (`Fresh`, `PhaseFits`,
`StatusesFit`, `RunningFits`), that each turn takes one pushed node
(`TurnsCounted`, which bounds the step counter by the number of nodes), that what
is queued or was executed is justified by its arrivals (`QueueJustified`,
`ExecutedJustified`), and that what is due is queued, current or done (`PushedFits`,
`DueKept`, `CompletedAll`). One lemma per action shows that it keeps `IInv`; the
hard ones are `Forward` (arrivals of the edges taken) and `Resume` (arrivals
rebuilt). From it follow all invariants of the `engine` run, the action property
`SucceededOnce` and the refinement `Spec => DF!Spec`: each step maps to a
step of `Dataflow` or a stutter. `SegmentsShrink` is the safety half of
`SegmentReturns`: every step of a segment lessens a weight of four natural numbers, in
lexicographic order (has it begun or returned, how many turns are left, is one under way, how
many attempts are left in it). Turns are bounded by `TurnsCounted`, attempts by `RetriesRespected`.

**ExecutionServiceProofs.** `IInv` says which copies a process may hold at each
step (`CopiesFit`, `StepsFit`), that the map is marked while somebody owns the
execution (`OwnersMarked`, with `SingleWorker`), and that a finished goroutine's
result is in the row (`ResultPublished`). `OnlyStaleWritesBreakTheFlow` needs
`FreshKnow` on top: a process that nobody has overtaken knows the row.

**FileUploadProofs.** `IInv` bounds the versions that sessions and uploads aim at
(`TargetsFit`, `AimsFit`: never more than one above the latest, which is why a
commit of a free version keeps the versions dense), relates uploads, keys and
rows (`KeysFit`, `RowsFit`, `RowsDiffer`), and carries the bytes from the write to
the commit (`SavedBytes`). `BlobsOwned` (every file on disk is somebody's to commit
or to remove) proves `NothingIsLeftBehind`.

**KnowledgeIndexProofs.** `OcrInv` is shown of the steps of `OcrTask` first: the
types, `NoOrphanTask`, and `Owned`: a call that submits has a row that nobody else
submits for, and one that asks has its row's task. On top of it `IInv` counts: the
workers that are busy and the job, if it may be claimed, are never more than the
enqueues. A claim turns the one into the other, which is why `RetriesAreBounded`
survives it; a failure moves one from the busy ones to the retries. `NoTaskIsStuck` follows
the row from the call that creates it to the one that records the provider's answer.

**WorkflowStartProofs.** `EditInv` adds `Fits` to `ShownDslIsDraft`: what a plain edit has
read is still coherent with the versions, since they only grow until the row is
gone, and the number an update has counted is the next one unless it has been raced. For
the limiter, `Remembers` says that an admitted request that every breaker still
looks back at is in the log; so the log counts all that `AdmissionsAreLimited` counts.

`DefinitionImplementsHistory` needs `EditInv` only: the draft that is shown is a version
(`ShownDslIsDraft`), hence what `Publish` publishes by number is what was shown; what a plain edit writes
back is still a version (`Fits`); and an insertion leaves the published version in its place.

**StreamHubProofs.** `IInv` ties the registry to the handlers (`RegistryFits`: in the group
exactly while they listen, closed exactly when they have gone), what publishers still
address to both (`TargetsFit`), and snapshots to their publishers (`SnapsFit`). `PanicsNeedClosed` with
`LeavesAtEnding` gives `OnlyEndingsPanic`. `OrderKept` puts everything that is stored, in a channel or
seen in the order of the run, and `DoneHaveNewest` follows one publish through its sends,
drains and second attempts, which is why conflation keeps the newest snapshot. For the
refinement `FeedInv` adds that a handler in its loop has not seen an ending, and that
whatever a cancel publishes is one, wherever it has got to.

**DebugSessionProofs.** `StoredIsOneRun` is about the store, which any of the overlapping calls
may overwrite, so that `IInv` says of *each copy in flight* what the store must satisfy
when it is saved: `Explained`, arrivals that are history (`ArrivalsFit`), a queue whose
nodes are justified (`QueueFits`), and a status that is `Coherent` once the call has returned.
`NothingForgotten` is the other direction: what has succeeded and is recognised has been
credited, what is ready is queued or done. It gives `NothingLeftReady`. `TurnsAreFew` counts what is queued
and what may be pushed yet.

**ReportCaseProofs.** What the properties say of a file that nobody works on has to be said
of one that somebody does. `FactsFollow` and `AssetsFollow` let a fact lag behind its file as long as
a request has it among those it has yet to update, or has yet to find or delete it, and
`WantedAgrees` keeps the file's status what the only kind of request at work on it wants. `OneAtATime`
says that two processings are on one file only if it is `doubled`. For the report, `SoleShape`
and `SoleBuilds` follow the one review that has the case for itself: what it has put into the
assembly, what it holds and what it has yet to gather are the approved facts; and
`QuietWhenReady` says that as long as nothing is behind nobody has got to a decision and nothing is
processed, which is why no fact changes under a ready case.

Only model-checked are the four liveness properties: `SegmentReturns` (of which
`SegmentsShrink` is the part that can be proved), `EventuallySettles`, `AcceptedResumeRuns`
and `EndingCloses`. They follow from fairness, which is about `ENABLED`, and the
provers here handle neither. Every invariant, action property and refinement of the passing runs
is a theorem. The type invariants of `FileUpload`, `WorkflowStart`, `DebugSession` and
`ReportCase` are theorems only: no run spends its time on them.

What is assumed of the constants is what the code gives: finite definitions and sets of
requests, special values that are not data, bounds that are numbers. No theorem assumes
anything of a state.

## 6. Not modelled, and the plan

`PROJECT.json` lists each component with its status. What is left to do:

1. `ExecutionService` composed with `StreamHub`: a panic inside a publish and
   what it leaves in the running map.
2. Abstract specifications of `FileUpload` (a file's versions and their bytes as one
   history) and of the knowledge index (a job that is tried a bounded number of times).

Not modelled, and why:

* the iteration node: one goroutine, within one step of the engine; its hazard (items
  before a failed one stay committed) is about the JSON it writes;
* executors, write-backs, document parsing, the assembly of OCR results: sequential
  transformations of JSON, text and file formats, without state of their own. They are
  the larger part of the implementation's lines. Their outcomes are the nondeterministic
  results of the modules above, and a model of them would be the code once more;
* chat, AI clients and generators: calls to other systems; a conversation's rows are
  appended by one request at a time;
* master data, users, templates, divisions: single-row operations;
* the in-memory repositories, which serve a server without a database;
* the HTTP surface but for its recover middleware and time limits, the schema but for
  the constraints named above, and the web console.
