------------------------------ MODULE FileUpload ------------------------------
(***************************************************************************)
(* One stored file: the versions and upload sessions in the database       *)
(* (repository/postgres_file_repository.go), the bytes on disk             *)
(* (service/local_file_storage.go), and the requests of                    *)
(* service/file_service.go that work on both.                              *)
(*                                                                         *)
(* No transaction spans the two: an upload writes its bytes under a        *)
(* storage key first and commits the version after, and a deletion removes *)
(* the rows first and the bytes after.  A storage key is the version an    *)
(* upload aims at and a stamp, the second and the file name: two uploads   *)
(* may come to the same one.                                               *)
(*                                                                         *)
(* Every request starts by expiring the sessions whose deadline has        *)
(* passed.  Left out: listing and reading, and the size limits, which      *)
(* reject a request before it has changed anything.                        *)
(***************************************************************************)
EXTENDS Integers, FiniteSets

CONSTANTS
    Sessions,
    SessionUploads,     \* UploadBySession requests
    DirectUploads,      \* UploadVersion requests
    SessionOf,          \* the session of an UploadBySession request
    Deletions,          \* DeleteFile requests
    Stamps,             \* what distinguishes the keys of one version
    NoKey,              \* no storage key yet
    Garbage,            \* the bytes that a failed write leaves
    MaxFaults,          \* bound: writes, commits and removals that fail
    MaxCrashes          \* bound: restarts of the server

Uploads == SessionUploads \cup DirectUploads

Key == (Nat \ {0}) \X Stamps

UploadAssumption ==
    /\ SessionOf \in [SessionUploads -> Sessions]
    /\ SessionUploads \cap DirectUploads = {}
    /\ NoKey \notin Key
    /\ Garbage \notin Uploads
    /\ MaxFaults \in Nat
    /\ MaxCrashes \in Nat

ASSUME UploadAssumption

VARIABLES
    alive,      \* the file's row is there
    latest,     \* its latest_version_no
    rows,       \* the rows of file_version
    session,    \* the row of each session
    late,       \* sessions whose deadline has passed
    blobs,      \* what is on disk
    ustep,      \* where each upload stands
    aim,        \* the version it aims at
    key,        \* the storage key it wrote to
    dstep,      \* where each deletion stands
    doomed,     \* the storage keys it has yet to remove
    faults,
    crashes,
    missed      \* history: keys of versions that a deletion had not seen

database == <<alive, latest, rows, session>>
uploads  == <<ustep, aim, key>>
deletes  == <<dstep, doomed, missed>>
bounds   == <<faults, crashes>>
vars == <<database, late, blobs, uploads, deletes, bounds>>

SessionStatus == {"none", "selected", "uploading", "uploaded", "cancelled", "expired"}

Open == {"selected", "uploading"}

UploadStep == {"new", "begun", "marked", "saved", "committed", "failed", "done", "dead"}

DeleteStep == {"new", "read", "cleaning", "done", "dead"}

Row  == [version : Nat \ {0}, key : Key, by : Uploads]

Blob == [key : Key, by : Uploads \cup {Garbage}]

Init ==
    /\ alive = TRUE
    /\ latest = 0
    /\ rows = {}
    /\ session = [s \in Sessions |-> [status |-> "none", target |-> 0]]
    /\ late = {}
    /\ blobs = {}
    /\ ustep = [u \in Uploads |-> "new"]
    /\ aim = [u \in Uploads |-> 0]
    /\ key = [u \in Uploads |-> NoKey]
    /\ dstep = [d \in Deletions |-> "new"]
    /\ doomed = [d \in Deletions |-> {}]
    /\ faults = 0
    /\ crashes = 0
    /\ missed = {}

Fault == faults < MaxFaults /\ faults' = faults + 1 /\ UNCHANGED crashes

NoFault == UNCHANGED bounds

-----------------------------------------------------------------------------
(* Sessions. *)

\* ExpireSessions: the open sessions past their deadline.
Swept(s) ==
    IF s \in late /\ session[s].status \in Open
    THEN [session[s] EXCEPT !.status = "expired"] ELSE session[s]

Sweep == [s \in Sessions |-> Swept(s)]

CreateSession(s) ==
    /\ alive
    /\ session[s].status = "none"
    /\ session' = [Sweep EXCEPT ![s] = [status |-> "selected", target |-> latest + 1]]
    /\ UNCHANGED <<alive, latest, rows, late, blobs, uploads, deletes, bounds>>

CancelSession(s) ==
    /\ session[s].status # "none"
    /\ session' = IF Swept(s).status \in Open
                  THEN [Sweep EXCEPT ![s].status = "cancelled"] ELSE Sweep
    /\ UNCHANGED <<alive, latest, rows, late, blobs, uploads, deletes, bounds>>

\* Time passes.
DeadlinePasses(s) ==
    /\ session[s].status # "none"
    /\ s \notin late
    /\ late' = late \cup {s}
    /\ UNCHANGED <<database, blobs, uploads, deletes, bounds>>

-----------------------------------------------------------------------------
(* Uploads. *)

Move(u, where) == ustep' = [ustep EXCEPT ![u] = where]

\* UploadBySession finds its session ...
SessionBegin(u) ==
    /\ ustep[u] = "new"
    /\ session[SessionOf[u]].status # "none"
    /\ session' = Sweep
    /\ aim' = [aim EXCEPT ![u] = session[SessionOf[u]].target]
    /\ Move(u, IF Swept(SessionOf[u]).status \in Open THEN "begun" ELSE "done")
    /\ UNCHANGED <<alive, latest, rows, late, blobs, key, deletes, bounds>>

\* ... and marks it as uploading, which a second upload of it may do as well.
MarkSessionUploading(u) ==
    /\ ustep[u] = "begun"
    /\ \/ /\ SessionOf[u] \notin late
          /\ session[SessionOf[u]].status \in Open
          /\ session' = [session EXCEPT ![SessionOf[u]].status = "uploading"]
          /\ Move(u, "marked")
       \/ /\ SessionOf[u] \in late \/ session[SessionOf[u]].status \notin Open
          /\ Move(u, "done")
          /\ UNCHANGED session
    /\ UNCHANGED <<alive, latest, rows, late, blobs, aim, key, deletes, bounds>>

\* UploadVersion aims at the version after the one it reads.
DirectBegin(u) ==
    /\ ustep[u] = "new"
    /\ session' = Sweep
    /\ aim' = [aim EXCEPT ![u] = latest + 1]
    /\ Move(u, IF alive THEN "marked" ELSE "done")
    /\ UNCHANGED <<alive, latest, rows, late, blobs, key, deletes, bounds>>

Written(k, by) == {b \in blobs : b.key # k} \cup {[key |-> k, by |-> by]}

Removed(k) == {b \in blobs : b.key # k}

\* persistUploadedFile: os.Create truncates what is there.
Persist(u) ==
    /\ ustep[u] = "marked"
    /\ \E t \in Stamps :
          /\ key' = [key EXCEPT ![u] = <<aim[u], t>>]
          /\ blobs' = Written(<<aim[u], t>>, u)
    /\ Move(u, "saved")
    /\ NoFault
    /\ UNCHANGED <<database, late, aim, deletes>>

\* A write that fails may leave part of the file behind; nobody removes it.
PersistFails(u) ==
    /\ ustep[u] = "marked"
    /\ Fault
    /\ \/ UNCHANGED <<key, blobs>>
       \/ \E t \in Stamps :
             /\ key' = [key EXCEPT ![u] = <<aim[u], t>>]
             /\ blobs' = Written(<<aim[u], t>>, Garbage)
    /\ Move(u, "done")
    /\ UNCHANGED <<database, late, aim, deletes>>

\* The unique constraint on (file_id, version_no).
IsFree(v) == \A r \in rows : r.version # v

Insert(u, v) ==
    /\ rows' = rows \cup {[version |-> v, key |-> key[u], by |-> u]}
    /\ latest' = IF v > latest THEN v ELSE latest

\* A commit that is reported takes the upload on; one that is not, fails it.
Committed(u) ==
    \/ Move(u, "committed") /\ NoFault
    \/ Move(u, "failed") /\ Fault

\* Mutants: the session is not looked at again; the version is not counted again.
CommitUnchecked(u) ==
    /\ ustep[u] = "saved"
    /\ alive
    /\ Insert(u, latest + 1)
    /\ session' = [session EXCEPT ![SessionOf[u]].status = "uploaded"]
    /\ Committed(u)
    /\ UNCHANGED <<alive, late, blobs, aim, key, deletes>>
CreateAimed(u) ==
    /\ ustep[u] = "saved"
    /\ alive
    /\ Insert(u, aim[u])
    /\ Committed(u)
    /\ UNCHANGED <<alive, session, late, blobs, aim, key, deletes>>

CompleteSessionUpload(u) ==
    /\ ustep[u] = "saved"
    /\ session[SessionOf[u]].status \in Open
    /\ SessionOf[u] \notin late
    /\ alive
    /\ IsFree(aim[u])
    /\ Insert(u, aim[u])
    /\ session' = [session EXCEPT ![SessionOf[u]].status = "uploaded"]
    /\ Committed(u)
    /\ UNCHANGED <<alive, late, blobs, aim, key, deletes>>

\* The version is counted again, under the row's lock.
CreateVersion(u) ==
    /\ ustep[u] = "saved"
    /\ alive
    /\ IsFree(latest + 1)
    /\ Insert(u, latest + 1)
    /\ Committed(u)
    /\ UNCHANGED <<alive, session, late, blobs, aim, key, deletes>>

CannotComplete(u) ==
    \/ session[SessionOf[u]].status \notin Open
    \/ SessionOf[u] \in late
    \/ ~ alive
    \/ ~ IsFree(aim[u])

CannotCreate == ~ alive \/ ~ IsFree(latest + 1)

\* The transaction is rolled back, for its own reasons or by a fault.
RolledBack(u) ==
    /\ ustep[u] = "saved"
    /\ \/ NoFault /\ u \in SessionUploads /\ CannotComplete(u)
       \/ NoFault /\ u \in DirectUploads /\ CannotCreate
       \/ Fault
    /\ Move(u, "failed")
    /\ UNCHANGED <<database, late, blobs, aim, key, deletes>>

\* Mutant: what was written stays.
LeaveBytes(u) ==
    /\ ustep[u] = "failed"
    /\ Move(u, "done")
    /\ NoFault
    /\ UNCHANGED <<database, late, blobs, aim, key, deletes>>

\* Mutant: a deferred removal, which runs after a commit as well.
DiscardAlways(u) ==
    /\ ustep[u] \in {"failed", "committed"}
    /\ blobs' = Removed(key[u])
    /\ NoFault
    /\ Move(u, "done")
    /\ UNCHANGED <<database, late, aim, key, deletes>>

\* An upload that failed removes what is under its key; an error is ignored.
DiscardBytes(u) ==
    /\ ustep[u] = "failed"
    /\ \/ blobs' = Removed(key[u]) /\ NoFault
       \/ UNCHANGED blobs /\ Fault
    /\ Move(u, "done")
    /\ UNCHANGED <<database, late, aim, key, deletes>>

\* enqueueIndexTask, after the commit: the server builds the file service
\* without an indexEnqueuer (bootstrap/app.go), and it returns at once.  No
\* upload creates an index job; only a reindex does (KnowledgeIndex).
EnqueueIndexTask(u) ==
    /\ ustep[u] = "committed"
    /\ NoFault
    /\ Move(u, "done")
    /\ UNCHANGED <<database, late, blobs, aim, key, deletes>>

-----------------------------------------------------------------------------
(* DeleteFile. *)

MoveDelete(d, where) == dstep' = [dstep EXCEPT ![d] = where]

\* FindVersions takes an error of the query for a file without versions.
DeleteRead(d) ==
    /\ dstep[d] = "new"
    /\ \/ doomed' = [doomed EXCEPT ![d] = {r.key : r \in rows}] /\ NoFault
       \/ UNCHANGED doomed /\ Fault
    /\ MoveDelete(d, IF alive THEN "read" ELSE "done")
    /\ UNCHANGED <<database, late, blobs, uploads, missed>>

\* Versions and sessions go with the file's row.
DeleteRows(d) ==
    /\ dstep[d] = "read"
    /\ \/ /\ alive
          /\ alive' = FALSE
          /\ latest' = 0
          /\ rows' = {}
          /\ session' = [s \in Sessions |-> [status |-> "none", target |-> 0]]
          /\ missed' = missed \cup ({r.key : r \in rows} \ doomed[d])
          /\ MoveDelete(d, "cleaning")
          /\ NoFault
          /\ UNCHANGED doomed
       \/ /\ \/ ~ alive /\ NoFault
             \/ Fault
          /\ MoveDelete(d, "done")
          /\ UNCHANGED <<database, doomed, missed>>
    /\ UNCHANGED <<late, blobs, uploads>>

DeleteBytes(d) ==
    /\ dstep[d] = "cleaning"
    /\ \E k \in doomed[d] :
          /\ doomed' = [doomed EXCEPT ![d] = @ \ {k}]
          /\ \/ blobs' = Removed(k) /\ NoFault
             \/ UNCHANGED blobs /\ Fault
    /\ UNCHANGED <<database, late, uploads, dstep, missed>>

DeleteEnd(d) ==
    /\ dstep[d] = "cleaning"
    /\ doomed[d] = {}
    /\ MoveDelete(d, "done")
    /\ UNCHANGED <<database, late, blobs, uploads, doomed, missed, bounds>>

-----------------------------------------------------------------------------
AtRest == {"new", "done", "dead"}

\* The server restarts: the database and the disk survive, requests do not.
Crash ==
    /\ crashes < MaxCrashes
    /\ crashes' = crashes + 1
    /\ ustep' = [u \in Uploads |-> IF ustep[u] \in AtRest THEN ustep[u] ELSE "dead"]
    /\ dstep' = [d \in Deletions |-> IF dstep[d] \in AtRest THEN dstep[d] ELSE "dead"]
    /\ UNCHANGED <<database, late, blobs, aim, key, doomed, missed, faults>>

SessionUpload(u) ==
    \/ MarkSessionUploading(u)
    \/ CompleteSessionUpload(u)

Upload(u) ==
    \/ Persist(u)
    \/ PersistFails(u)
    \/ RolledBack(u)
    \/ DiscardBytes(u)
    \/ EnqueueIndexTask(u)

Delete(d) ==
    \/ DeleteRows(d)
    \/ DeleteBytes(d)
    \/ DeleteEnd(d)

Next ==
    \/ \E s \in Sessions : CreateSession(s) \/ CancelSession(s) \/ DeadlinePasses(s)
    \/ \E u \in SessionUploads : SessionBegin(u) \/ SessionUpload(u)
    \/ \E u \in DirectUploads : DirectBegin(u) \/ CreateVersion(u)
    \/ \E u \in Uploads : Upload(u)
    \/ \E d \in Deletions : DeleteRead(d) \/ Delete(d)
    \/ Crash

Spec == Init /\ [][Next]_vars

-----------------------------------------------------------------------------
(* Properties. *)

\* Every variable keeps its type.
TypeOK ==
    /\ alive \in BOOLEAN
    /\ latest \in Nat
    /\ rows \subseteq Row
    /\ session \in [Sessions -> [status : SessionStatus, target : Nat]]
    /\ late \subseteq Sessions
    /\ blobs \subseteq Blob
    /\ ustep \in [Uploads -> UploadStep]
    /\ aim \in [Uploads -> Nat]
    /\ key \in [Uploads -> Key \cup {NoKey}]
    /\ dstep \in [Deletions -> DeleteStep]
    /\ doomed \in [Deletions -> SUBSET Key]
    /\ faults \in 0 .. MaxFaults
    /\ crashes \in 0 .. MaxCrashes
    /\ missed \subseteq Key

\* The versions of the file are 1 to latest, each of them once: the one that a
\* reference without a version number resolves to is there (ResolveReference),
\* although a session fixes its version long before it commits and direct
\* uploads, sessions and retries overtake one another.
VersionsAreDense ==
    /\ {r.version : r \in rows} = 1 .. latest
    /\ \A r, q \in rows : r.version = q.version => r = q

\* A session yields a version exactly if it ends as uploaded, and one at most,
\* whatever retries, cancels and deadlines its uploads race with.
OneVersionPerSession ==
    \A s \in Sessions :
        LET made == {r \in rows : r.by \in SessionUploads /\ SessionOf[r.by] = s}
        IN  /\ session[s].status = "uploaded" <=> made # {}
            /\ \A r, q \in made : r = q

\* The bytes of a committed version are on disk, and they are the uploader's
\* own, unless another upload came to the same storage key (both may have
\* aimed at the version in the same second under the same name) or something
\* failed.  Restarts do no harm.
BytesAreKept ==
    faults = 0 =>
        \A r \in rows :
            (\A u \in Uploads \ {r.by} : key[u] # r.key) =>
                [key |-> r.key, by |-> r.by] \in blobs

\* When nothing is under way and nothing has failed, every file on disk belongs
\* to a version; all that can be left behind are the bytes of a version that
\* was committed between the two statements of a deletion.
NothingIsLeftBehind ==
    /\ faults = 0
    /\ crashes = 0
    /\ \A u \in Uploads : ustep[u] \in AtRest
    /\ \A d \in Deletions : dstep[d] \in AtRest
    => {b.key : b \in blobs} \subseteq {r.key : r \in rows} \cup missed

=============================================================================
