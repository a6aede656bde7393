--------------------------- MODULE FileUploadProofs ---------------------------
(***************************************************************************)
(* Theorems about FileUpload, for any number of sessions, uploads and      *)
(* deletions, any number of faults and restarts.                           *)
(***************************************************************************)
EXTENDS FileUpload, TLAPS

-----------------------------------------------------------------------------
(* The inductive invariant. *)

\* A deleted file has no versions, and one whose bytes are being removed is
\* deleted.
Gone ==
    /\ ~ alive => rows = {} /\ latest = 0
    /\ \A d \in Deletions : dstep[d] = "cleaning" => ~ alive

\* A session aims at the version after one that existed when it was created.
TargetsFit ==
    \A s \in Sessions :
        session[s].status # "none" => alive /\ session[s].target \in 1 .. latest + 1

\* So does an upload, until it commits.
AimsFit ==
    \A u \in Uploads :
        ustep[u] \in {"begun", "marked", "saved"} =>
            aim[u] >= 1 /\ (alive => aim[u] <= latest + 1)

\* An upload has a storage key once it has written, and what it committed is
\* under that key.
KeysFit ==
    \A u \in Uploads :
        /\ ustep[u] \in {"new", "begun", "marked"} => key[u] = NoKey
        /\ ustep[u] \in {"saved", "committed", "failed"} => key[u] \in Key

RowsFit ==
    \A r \in rows :
        /\ ustep[r.by] \in {"committed", "failed", "done", "dead"}
        /\ ustep[r.by] = "failed" => faults > 0
        /\ key[r.by] = r.key

\* An upload makes one version.
RowsDiffer == \A r, q \in rows : r.by = q.by => r = q

\* What an upload has written is still there when it commits.
SavedBytes ==
    faults = 0 =>
        \A u \in Uploads :
            /\ alive
            /\ ustep[u] = "saved"
            /\ \A v \in Uploads \ {u} : key[v] # key[u]
            => [key |-> key[u], by |-> u] \in blobs

IInv ==
    /\ TypeOK
    /\ Gone
    /\ VersionsAreDense
    /\ TargetsFit
    /\ AimsFit
    /\ KeysFit
    /\ RowsFit
    /\ RowsDiffer
    /\ OneVersionPerSession
    /\ SavedBytes
    /\ BytesAreKept

\* Whoever will remove it or commit it, every file on disk has an owner: for
\* the last theorem only.
Owned(b) ==
    \/ b.by \in Uploads /\ key[b.by] = b.key /\ ustep[b.by] \in {"saved", "failed"}
    \/ \E r \in rows : r.key = b.key
    \/ b.key \in missed
    \/ \E d \in Deletions : dstep[d] = "cleaning" /\ b.key \in doomed[d]

BlobsOwned == faults = 0 /\ crashes = 0 => \A b \in blobs : Owned(b)

-----------------------------------------------------------------------------
(* Steps. *)

\* What the rows of the file refer to.
LEMMA RowParts ==
    ASSUME TypeOK
    PROVE  /\ {r.key : r \in rows} \subseteq Key
           /\ \A r \in rows : r.by \in Uploads /\ r.key \in Key /\ r.version \in Nat
  BY DEF TypeOK, Row

\* A request's session is one of the sessions.
LEMMA SessionOfType == \A u \in SessionUploads : SessionOf[u] \in Sessions
  BY UploadAssumption DEF UploadAssumption

\* Every action keeps the types.
LEMMA TypeStep ==
    ASSUME IInv, [Next]_vars
    PROVE  TypeOK'
<1> USE DEF Uploads, Move, MoveDelete, NoFault, Fault, bounds, database, uploads, deletes, Committed
<1>1. ASSUME NEW s \in Sessions, CreateSession(s) PROVE TypeOK'
  BY <1>1, IInv DEF CreateSession, IInv, TypeOK, SessionStatus, Open, Sweep, Swept
<1>2. ASSUME NEW s \in Sessions, CancelSession(s) PROVE TypeOK'
  BY <1>2, IInv DEF CancelSession, IInv, TypeOK, SessionStatus, Open, Sweep, Swept
<1>3. ASSUME NEW s \in Sessions, DeadlinePasses(s) PROVE TypeOK'
  BY <1>3, IInv DEF DeadlinePasses, IInv, TypeOK
<1>4. ASSUME NEW u \in SessionUploads, SessionBegin(u) PROVE TypeOK'
  BY <1>4, IInv, UploadAssumption
  DEF SessionBegin, IInv, TypeOK, SessionStatus, UploadStep, Open, Sweep, Swept,
      UploadAssumption
<1>5. ASSUME NEW u \in SessionUploads, MarkSessionUploading(u) PROVE TypeOK'
  <2>1. session' \in [Sessions -> [status : SessionStatus, target : Nat]]
    BY <1>5, IInv DEF MarkSessionUploading, IInv, TypeOK, SessionStatus
  <2> QED
    BY <1>5, <2>1, IInv DEF MarkSessionUploading, IInv, TypeOK, UploadStep
<1>6. ASSUME NEW u \in SessionUploads, CompleteSessionUpload(u) PROVE TypeOK'
  BY <1>6, IInv, UploadAssumption
  DEF CompleteSessionUpload, IInv, TypeOK, KeysFit, AimsFit, Row, Key, SessionStatus,
      UploadStep, Open, Insert, UploadAssumption
<1>7. ASSUME NEW u \in DirectUploads, DirectBegin(u) PROVE TypeOK'
  BY <1>7, IInv
  DEF DirectBegin, IInv, TypeOK, SessionStatus, UploadStep, Open, Sweep, Swept
<1>8. ASSUME NEW u \in DirectUploads, CreateVersion(u) PROVE TypeOK'
  BY <1>8, IInv, UploadAssumption
  DEF CreateVersion, IInv, TypeOK, KeysFit, Row, UploadStep, Insert, UploadAssumption
<1>9. ASSUME NEW u \in Uploads, Persist(u) PROVE TypeOK'
  BY <1>9, IInv DEF Persist, IInv, TypeOK, AimsFit, Blob, Key, UploadStep, Written
<1>10. ASSUME NEW u \in Uploads, PersistFails(u) PROVE TypeOK'
  BY <1>10, IInv, UploadAssumption
  DEF PersistFails, IInv, TypeOK, AimsFit, Blob, Key, UploadStep, Written,
      UploadAssumption
<1>11. ASSUME NEW u \in Uploads, RolledBack(u) PROVE TypeOK'
  BY <1>11, IInv, UploadAssumption
  DEF RolledBack, IInv, TypeOK, UploadStep, UploadAssumption
<1>12. ASSUME NEW u \in Uploads, DiscardBytes(u) PROVE TypeOK'
  BY <1>12, IInv, UploadAssumption
  DEF DiscardBytes, IInv, TypeOK, UploadStep, Removed, UploadAssumption
<1>13. ASSUME NEW u \in Uploads, EnqueueIndexTask(u) PROVE TypeOK'
  BY <1>13, IInv DEF EnqueueIndexTask, IInv, TypeOK, UploadStep
<1>14. ASSUME NEW d \in Deletions, DeleteRead(d) PROVE TypeOK'
  BY <1>14, IInv, UploadAssumption
  DEF DeleteRead, IInv, TypeOK, Row, DeleteStep, UploadAssumption
<1>15. ASSUME NEW d \in Deletions, DeleteRows(d) PROVE TypeOK'
  <2>1. missed' \subseteq Key
    BY <1>15, RowParts, IInv DEF DeleteRows, IInv, TypeOK
  <2>2. session' \in [Sessions -> [status : SessionStatus, target : Nat]]
    BY <1>15, IInv DEF DeleteRows, IInv, TypeOK, SessionStatus
  <2>3. faults' \in 0 .. MaxFaults /\ crashes' \in 0 .. MaxCrashes
    BY <1>15, IInv, UploadAssumption DEF DeleteRows, IInv, TypeOK, UploadAssumption
  <2>4. dstep' \in [Deletions -> DeleteStep]
    BY <1>15, IInv DEF DeleteRows, IInv, TypeOK, DeleteStep
  <2>5. /\ alive' \in BOOLEAN /\ latest' \in Nat /\ rows' \subseteq Row
        /\ doomed' = doomed
    <3>1. CASE rows' = {} /\ latest' = 0 /\ alive' = FALSE /\ doomed' = doomed
      BY <3>1
    <3>2. CASE UNCHANGED <<alive, latest, rows, doomed>>
      BY <3>2, IInv DEF IInv, TypeOK
    <3> QED
      BY <1>15, <3>1, <3>2 DEF DeleteRows
  <2>6. UNCHANGED <<late, blobs, ustep, aim, key>>
    BY <1>15 DEF DeleteRows
  <2> QED
    BY <2>1, <2>2, <2>3, <2>4, <2>5, <2>6, IInv DEF IInv, TypeOK
<1>16. ASSUME NEW d \in Deletions, DeleteBytes(d) PROVE TypeOK'
  BY <1>16, IInv, UploadAssumption
  DEF DeleteBytes, IInv, TypeOK, Removed, UploadAssumption
<1>17. ASSUME NEW d \in Deletions, DeleteEnd(d) PROVE TypeOK'
  BY <1>17, IInv DEF DeleteEnd, IInv, TypeOK, DeleteStep
<1>18. CASE Crash
  BY <1>18, IInv, UploadAssumption
  DEF Crash, IInv, TypeOK, UploadStep, DeleteStep, UploadAssumption
<1>19. CASE UNCHANGED vars
  BY <1>19, IInv DEF vars, IInv, TypeOK
<1> QED
  BY <1>1, <1>2, <1>3, <1>4, <1>5, <1>6, <1>7, <1>8, <1>9, <1>10, <1>11, <1>12,
     <1>13, <1>14, <1>15, <1>16, <1>17, <1>18, <1>19
  DEF Next, SessionUpload, Upload, Delete

\* A version added after the last keeps the versions dense.
LEMMA InsertDense ==
    ASSUME TypeOK, VersionsAreDense, NEW u \in Uploads, Insert(u, latest + 1)
    PROVE  VersionsAreDense'
<1> DEFINE new == [version |-> latest + 1, key |-> key[u], by |-> u]
<1>1. latest \in Nat /\ latest' = latest + 1 /\ rows' = rows \cup {new}
  BY DEF TypeOK, Insert
<1>2. {r.version : r \in rows'} = {r.version : r \in rows} \cup {latest + 1}
  <2>1. new.version = latest + 1
    OBVIOUS
  <2>2. \A r \in rows' : r \in rows \/ r = new
    BY <1>1
  <2>3. rows \subseteq rows' /\ new \in rows'
    BY <1>1
  <2> HIDE DEF new
  <2> QED
    BY <2>1, <2>2, <2>3
<1>3. 1 .. latest' = (1 .. latest) \cup {latest + 1}
  BY <1>1
<1>4. \A r \in rows : r.version \in 1 .. latest
  BY VersionsAreDense DEF VersionsAreDense
<1>5. \A r \in rows : r.version # new.version
  BY <1>1, <1>4
<1> QED
  BY <1>1, <1>2, <1>3, <1>5, VersionsAreDense DEF VersionsAreDense

\* The version that a session has kept for itself is free only if it is next.
LEMMA FreeIsNext ==
    ASSUME TypeOK, VersionsAreDense, NEW v \in 1 .. latest + 1, IsFree(v)
    PROVE  v = latest + 1
<1>1. v \notin 1 .. latest
  BY VersionsAreDense DEF VersionsAreDense, IsFree
<1> QED
  BY <1>1 DEF TypeOK

\* A file that is gone stays without versions.
LEMMA GoneStep ==
    ASSUME IInv, [Next]_vars
    PROVE  Gone'
<1> USE DEF Uploads, Move, MoveDelete, NoFault, Fault, bounds, database, uploads, deletes, Committed
<1>1. ASSUME NEW s \in Sessions, CreateSession(s) PROVE Gone'
  BY <1>1, IInv DEF CreateSession, IInv, Gone
<1>2. ASSUME NEW s \in Sessions, CancelSession(s) PROVE Gone'
  BY <1>2, IInv DEF CancelSession, IInv, Gone
<1>3. ASSUME NEW s \in Sessions, DeadlinePasses(s) PROVE Gone'
  BY <1>3, IInv DEF DeadlinePasses, IInv, Gone
<1>4. ASSUME NEW u \in SessionUploads, SessionBegin(u) PROVE Gone'
  BY <1>4, IInv DEF SessionBegin, IInv, Gone
<1>5. ASSUME NEW u \in SessionUploads, MarkSessionUploading(u) PROVE Gone'
  BY <1>5, IInv DEF MarkSessionUploading, IInv, Gone
<1>6. ASSUME NEW u \in SessionUploads, CompleteSessionUpload(u) PROVE Gone'
  BY <1>6, IInv DEF CompleteSessionUpload, IInv, Gone, Insert
<1>7. ASSUME NEW u \in DirectUploads, DirectBegin(u) PROVE Gone'
  BY <1>7, IInv DEF DirectBegin, IInv, Gone
<1>8. ASSUME NEW u \in DirectUploads, CreateVersion(u) PROVE Gone'
  BY <1>8, IInv DEF CreateVersion, IInv, Gone, Insert
<1>9. ASSUME NEW u \in Uploads, Persist(u) PROVE Gone'
  BY <1>9, IInv DEF Persist, IInv, Gone
<1>10. ASSUME NEW u \in Uploads, PersistFails(u) PROVE Gone'
  BY <1>10, IInv DEF PersistFails, IInv, Gone
<1>11. ASSUME NEW u \in Uploads, RolledBack(u) PROVE Gone'
  BY <1>11, IInv DEF RolledBack, IInv, Gone
<1>12. ASSUME NEW u \in Uploads, DiscardBytes(u) PROVE Gone'
  BY <1>12, IInv DEF DiscardBytes, IInv, Gone
<1>13. ASSUME NEW u \in Uploads, EnqueueIndexTask(u) PROVE Gone'
  BY <1>13, IInv DEF EnqueueIndexTask, IInv, Gone
<1>14. ASSUME NEW d \in Deletions, DeleteRead(d) PROVE Gone'
  BY <1>14, IInv DEF DeleteRead, IInv, Gone
<1>15. ASSUME NEW d \in Deletions, DeleteRows(d) PROVE Gone'
  BY <1>15, IInv DEF DeleteRows, IInv, Gone, TypeOK
<1>16. ASSUME NEW d \in Deletions, DeleteBytes(d) PROVE Gone'
  BY <1>16, IInv DEF DeleteBytes, IInv, Gone
<1>17. ASSUME NEW d \in Deletions, DeleteEnd(d) PROVE Gone'
  BY <1>17, IInv DEF DeleteEnd, IInv, Gone
<1>18. CASE Crash
  BY <1>18, IInv DEF Crash, IInv, Gone, AtRest
<1>19. CASE UNCHANGED vars
  BY <1>19, IInv DEF vars, IInv, Gone
<1> QED
  BY <1>1, <1>2, <1>3, <1>4, <1>5, <1>6, <1>7, <1>8, <1>9, <1>10, <1>11, <1>12,
     <1>13, <1>14, <1>15, <1>16, <1>17, <1>18, <1>19
  DEF Next, SessionUpload, Upload, Delete

\* Versions are added at the end and go all at once.
LEMMA DenseStep ==
    ASSUME IInv, [Next]_vars
    PROVE  VersionsAreDense'
<1> USE DEF Uploads, Move, MoveDelete, NoFault, Fault, bounds, database, uploads, deletes, Committed
<1>1. ASSUME NEW s \in Sessions, CreateSession(s) PROVE VersionsAreDense'
  BY <1>1, IInv DEF CreateSession, IInv, VersionsAreDense
<1>2. ASSUME NEW s \in Sessions, CancelSession(s) PROVE VersionsAreDense'
  BY <1>2, IInv DEF CancelSession, IInv, VersionsAreDense
<1>3. ASSUME NEW s \in Sessions, DeadlinePasses(s) PROVE VersionsAreDense'
  BY <1>3, IInv DEF DeadlinePasses, IInv, VersionsAreDense
<1>4. ASSUME NEW u \in SessionUploads, SessionBegin(u) PROVE VersionsAreDense'
  BY <1>4, IInv DEF SessionBegin, IInv, VersionsAreDense
<1>5. ASSUME NEW u \in SessionUploads, MarkSessionUploading(u) PROVE VersionsAreDense'
  BY <1>5, IInv DEF MarkSessionUploading, IInv, VersionsAreDense
<1>6. ASSUME NEW u \in SessionUploads, CompleteSessionUpload(u) PROVE VersionsAreDense'
  <2>1. aim[u] \in 1 .. latest + 1
    BY <1>6, IInv DEF CompleteSessionUpload, IInv, AimsFit, TypeOK
  <2>2. aim[u] = latest + 1
    BY <1>6, <2>1, FreeIsNext, IInv DEF CompleteSessionUpload, IInv
  <2> QED
    BY <1>6, <2>2, InsertDense, IInv DEF CompleteSessionUpload, IInv
<1>7. ASSUME NEW u \in DirectUploads, DirectBegin(u) PROVE VersionsAreDense'
  BY <1>7, IInv DEF DirectBegin, IInv, VersionsAreDense
<1>8. ASSUME NEW u \in DirectUploads, CreateVersion(u) PROVE VersionsAreDense'
  BY <1>8, InsertDense, IInv DEF CreateVersion, IInv
<1>9. ASSUME NEW u \in Uploads, Persist(u) PROVE VersionsAreDense'
  BY <1>9, IInv DEF Persist, IInv, VersionsAreDense
<1>10. ASSUME NEW u \in Uploads, PersistFails(u) PROVE VersionsAreDense'
  BY <1>10, IInv DEF PersistFails, IInv, VersionsAreDense
<1>11. ASSUME NEW u \in Uploads, RolledBack(u) PROVE VersionsAreDense'
  BY <1>11, IInv DEF RolledBack, IInv, VersionsAreDense
<1>12. ASSUME NEW u \in Uploads, DiscardBytes(u) PROVE VersionsAreDense'
  BY <1>12, IInv DEF DiscardBytes, IInv, VersionsAreDense
<1>13. ASSUME NEW u \in Uploads, EnqueueIndexTask(u) PROVE VersionsAreDense'
  BY <1>13, IInv DEF EnqueueIndexTask, IInv, VersionsAreDense
<1>14. ASSUME NEW d \in Deletions, DeleteRead(d) PROVE VersionsAreDense'
  BY <1>14, IInv DEF DeleteRead, IInv, VersionsAreDense
<1>15. ASSUME NEW d \in Deletions, DeleteRows(d) PROVE VersionsAreDense'
  BY <1>15, IInv DEF DeleteRows, IInv, VersionsAreDense
<1>16. ASSUME NEW d \in Deletions, DeleteBytes(d) PROVE VersionsAreDense'
  BY <1>16, IInv DEF DeleteBytes, IInv, VersionsAreDense
<1>17. ASSUME NEW d \in Deletions, DeleteEnd(d) PROVE VersionsAreDense'
  BY <1>17, IInv DEF DeleteEnd, IInv, VersionsAreDense
<1>18. CASE Crash
  BY <1>18, IInv DEF Crash, IInv, VersionsAreDense
<1>19. CASE UNCHANGED vars
  BY <1>19, IInv DEF vars, IInv, VersionsAreDense
<1> QED
  BY <1>1, <1>2, <1>3, <1>4, <1>5, <1>6, <1>7, <1>8, <1>9, <1>10, <1>11, <1>12,
     <1>13, <1>14, <1>15, <1>16, <1>17, <1>18, <1>19
  DEF Next, SessionUpload, Upload, Delete

\* No session aims beyond the next version.
LEMMA TargetsStep ==
    ASSUME IInv, [Next]_vars
    PROVE  TargetsFit'
<1> USE DEF Uploads, Move, MoveDelete, NoFault, Fault, bounds, database, uploads, deletes, Committed
<1>1. ASSUME NEW s \in Sessions, CreateSession(s) PROVE TargetsFit'
  BY <1>1, IInv DEF CreateSession, IInv, TargetsFit, TypeOK, Open, Sweep, Swept
<1>2. ASSUME NEW s \in Sessions, CancelSession(s) PROVE TargetsFit'
  BY <1>2, IInv DEF CancelSession, IInv, TargetsFit, TypeOK, Open, Sweep, Swept
<1>3. ASSUME NEW s \in Sessions, DeadlinePasses(s) PROVE TargetsFit'
  BY <1>3, IInv DEF DeadlinePasses, IInv, TargetsFit
<1>4. ASSUME NEW u \in SessionUploads, SessionBegin(u) PROVE TargetsFit'
  BY <1>4, IInv DEF SessionBegin, IInv, TargetsFit, Open, Sweep, Swept
<1>5. ASSUME NEW u \in SessionUploads, MarkSessionUploading(u) PROVE TargetsFit'
  BY <1>5, IInv DEF MarkSessionUploading, IInv, TargetsFit, TypeOK, Open
<1>6. ASSUME NEW u \in SessionUploads, CompleteSessionUpload(u) PROVE TargetsFit'
  BY <1>6, IInv DEF CompleteSessionUpload, IInv, TargetsFit, TypeOK, Open, Insert
<1>7. ASSUME NEW u \in DirectUploads, DirectBegin(u) PROVE TargetsFit'
  BY <1>7, IInv DEF DirectBegin, IInv, TargetsFit, Open, Sweep, Swept
<1>8. ASSUME NEW u \in DirectUploads, CreateVersion(u) PROVE TargetsFit'
  BY <1>8, IInv DEF CreateVersion, IInv, TargetsFit, Insert
<1>9. ASSUME NEW u \in Uploads, Persist(u) PROVE TargetsFit'
  BY <1>9, IInv DEF Persist, IInv, TargetsFit, Written
<1>10. ASSUME NEW u \in Uploads, PersistFails(u) PROVE TargetsFit'
  BY <1>10, IInv DEF PersistFails, IInv, TargetsFit, Written
<1>11. ASSUME NEW u \in Uploads, RolledBack(u) PROVE TargetsFit'
  BY <1>11, IInv DEF RolledBack, IInv, TargetsFit
<1>12. ASSUME NEW u \in Uploads, DiscardBytes(u) PROVE TargetsFit'
  BY <1>12, IInv DEF DiscardBytes, IInv, TargetsFit, Removed
<1>13. ASSUME NEW u \in Uploads, EnqueueIndexTask(u) PROVE TargetsFit'
  BY <1>13, IInv DEF EnqueueIndexTask, IInv, TargetsFit
<1>14. ASSUME NEW d \in Deletions, DeleteRead(d) PROVE TargetsFit'
  BY <1>14, IInv DEF DeleteRead, IInv, TargetsFit
<1>15. ASSUME NEW d \in Deletions, DeleteRows(d) PROVE TargetsFit'
  BY <1>15, IInv DEF DeleteRows, IInv, TargetsFit
<1>16. ASSUME NEW d \in Deletions, DeleteBytes(d) PROVE TargetsFit'
  BY <1>16, IInv DEF DeleteBytes, IInv, TargetsFit, Removed
<1>17. ASSUME NEW d \in Deletions, DeleteEnd(d) PROVE TargetsFit'
  BY <1>17, IInv DEF DeleteEnd, IInv, TargetsFit
<1>18. CASE Crash
  BY <1>18, IInv DEF Crash, IInv, TargetsFit
<1>19. CASE UNCHANGED vars
  BY <1>19, IInv DEF vars, IInv, TargetsFit
<1> QED
  BY <1>1, <1>2, <1>3, <1>4, <1>5, <1>6, <1>7, <1>8, <1>9, <1>10, <1>11, <1>12,
     <1>13, <1>14, <1>15, <1>16, <1>17, <1>18, <1>19
  DEF Next, SessionUpload, Upload, Delete

\* Nor does an upload.
LEMMA AimsStep ==
    ASSUME IInv, [Next]_vars
    PROVE  AimsFit'
<1> USE DEF Uploads, Move, MoveDelete, NoFault, Fault, bounds, database, uploads, deletes, Committed
<1>1. ASSUME NEW s \in Sessions, CreateSession(s) PROVE AimsFit'
  BY <1>1, IInv DEF CreateSession, IInv, AimsFit, Open, Sweep, Swept
<1>2. ASSUME NEW s \in Sessions, CancelSession(s) PROVE AimsFit'
  BY <1>2, IInv DEF CancelSession, IInv, AimsFit, Open, Sweep, Swept
<1>3. ASSUME NEW s \in Sessions, DeadlinePasses(s) PROVE AimsFit'
  BY <1>3, IInv DEF DeadlinePasses, IInv, AimsFit
<1>4. ASSUME NEW u \in SessionUploads, SessionBegin(u) PROVE AimsFit'
  BY <1>4, IInv, SessionOfType
  DEF SessionBegin, IInv, AimsFit, TargetsFit, TypeOK, Open, Sweep, Swept
<1>5. ASSUME NEW u \in SessionUploads, MarkSessionUploading(u) PROVE AimsFit'
  BY <1>5, IInv DEF MarkSessionUploading, IInv, AimsFit, TypeOK, Open
<1>6. ASSUME NEW u \in SessionUploads, CompleteSessionUpload(u) PROVE AimsFit'
  BY <1>6, IInv DEF CompleteSessionUpload, IInv, AimsFit, TypeOK, Open, Insert
<1>7. ASSUME NEW u \in DirectUploads, DirectBegin(u) PROVE AimsFit'
  BY <1>7, IInv DEF DirectBegin, IInv, AimsFit, TypeOK, Open, Sweep, Swept
<1>8. ASSUME NEW u \in DirectUploads, CreateVersion(u) PROVE AimsFit'
  BY <1>8, IInv DEF CreateVersion, IInv, AimsFit, TypeOK, Insert
<1>9. ASSUME NEW u \in Uploads, Persist(u) PROVE AimsFit'
  BY <1>9, IInv DEF Persist, IInv, AimsFit, Written
<1>10. ASSUME NEW u \in Uploads, PersistFails(u) PROVE AimsFit'
  BY <1>10, IInv DEF PersistFails, IInv, AimsFit, Written
<1>11. ASSUME NEW u \in Uploads, RolledBack(u) PROVE AimsFit'
  BY <1>11, IInv DEF RolledBack, IInv, AimsFit
<1>12. ASSUME NEW u \in Uploads, DiscardBytes(u) PROVE AimsFit'
  BY <1>12, IInv DEF DiscardBytes, IInv, AimsFit, Removed
<1>13. ASSUME NEW u \in Uploads, EnqueueIndexTask(u) PROVE AimsFit'
  BY <1>13, IInv DEF EnqueueIndexTask, IInv, AimsFit
<1>14. ASSUME NEW d \in Deletions, DeleteRead(d) PROVE AimsFit'
  BY <1>14, IInv DEF DeleteRead, IInv, AimsFit
<1>15. ASSUME NEW d \in Deletions, DeleteRows(d) PROVE AimsFit'
  BY <1>15, IInv DEF DeleteRows, IInv, AimsFit
<1>16. ASSUME NEW d \in Deletions, DeleteBytes(d) PROVE AimsFit'
  BY <1>16, IInv DEF DeleteBytes, IInv, AimsFit, Removed
<1>17. ASSUME NEW d \in Deletions, DeleteEnd(d) PROVE AimsFit'
  BY <1>17, IInv DEF DeleteEnd, IInv, AimsFit
<1>18. CASE Crash
  BY <1>18, IInv DEF Crash, IInv, AimsFit, AtRest
<1>19. CASE UNCHANGED vars
  BY <1>19, IInv DEF vars, IInv, AimsFit
<1> QED
  BY <1>1, <1>2, <1>3, <1>4, <1>5, <1>6, <1>7, <1>8, <1>9, <1>10, <1>11, <1>12,
     <1>13, <1>14, <1>15, <1>16, <1>17, <1>18, <1>19
  DEF Next, SessionUpload, Upload, Delete

\* Keys follow the steps of an upload.
LEMMA KeysStep ==
    ASSUME IInv, [Next]_vars
    PROVE  KeysFit'
<1> USE DEF Uploads, Move, MoveDelete, NoFault, Fault, bounds, database, uploads, deletes, Committed
<1>1. ASSUME NEW s \in Sessions, CreateSession(s) PROVE KeysFit'
  BY <1>1, IInv DEF CreateSession, IInv, KeysFit, Open, Sweep, Swept
<1>2. ASSUME NEW s \in Sessions, CancelSession(s) PROVE KeysFit'
  BY <1>2, IInv DEF CancelSession, IInv, KeysFit, Open, Sweep, Swept
<1>3. ASSUME NEW s \in Sessions, DeadlinePasses(s) PROVE KeysFit'
  BY <1>3, IInv DEF DeadlinePasses, IInv, KeysFit
<1>4. ASSUME NEW u \in SessionUploads, SessionBegin(u) PROVE KeysFit'
  BY <1>4, IInv DEF SessionBegin, IInv, KeysFit, Open, Sweep, Swept
<1>5. ASSUME NEW u \in SessionUploads, MarkSessionUploading(u) PROVE KeysFit'
  BY <1>5, IInv DEF MarkSessionUploading, IInv, KeysFit, TypeOK, Open
<1>6. ASSUME NEW u \in SessionUploads, CompleteSessionUpload(u) PROVE KeysFit'
  BY <1>6, IInv DEF CompleteSessionUpload, IInv, KeysFit, TypeOK, Open, Insert
<1>7. ASSUME NEW u \in DirectUploads, DirectBegin(u) PROVE KeysFit'
  BY <1>7, IInv DEF DirectBegin, IInv, KeysFit, Open, Sweep, Swept
<1>8. ASSUME NEW u \in DirectUploads, CreateVersion(u) PROVE KeysFit'
  BY <1>8, IInv DEF CreateVersion, IInv, KeysFit, TypeOK, Insert
<1>9. ASSUME NEW u \in Uploads, Persist(u) PROVE KeysFit'
  BY <1>9, IInv DEF Persist, IInv, KeysFit, AimsFit, TypeOK, Key, Written
<1>10. ASSUME NEW u \in Uploads, PersistFails(u) PROVE KeysFit'
  BY <1>10, IInv DEF PersistFails, IInv, KeysFit, TypeOK, Written
<1>11. ASSUME NEW u \in Uploads, RolledBack(u) PROVE KeysFit'
  BY <1>11, IInv DEF RolledBack, IInv, KeysFit
<1>12. ASSUME NEW u \in Uploads, DiscardBytes(u) PROVE KeysFit'
  BY <1>12, IInv DEF DiscardBytes, IInv, KeysFit, Removed
<1>13. ASSUME NEW u \in Uploads, EnqueueIndexTask(u) PROVE KeysFit'
  BY <1>13, IInv DEF EnqueueIndexTask, IInv, KeysFit
<1>14. ASSUME NEW d \in Deletions, DeleteRead(d) PROVE KeysFit'
  BY <1>14, IInv DEF DeleteRead, IInv, KeysFit
<1>15. ASSUME NEW d \in Deletions, DeleteRows(d) PROVE KeysFit'
  BY <1>15, IInv DEF DeleteRows, IInv, KeysFit
<1>16. ASSUME NEW d \in Deletions, DeleteBytes(d) PROVE KeysFit'
  BY <1>16, IInv DEF DeleteBytes, IInv, KeysFit, Removed
<1>17. ASSUME NEW d \in Deletions, DeleteEnd(d) PROVE KeysFit'
  BY <1>17, IInv DEF DeleteEnd, IInv, KeysFit
<1>18. CASE Crash
  BY <1>18, IInv DEF Crash, IInv, KeysFit, AtRest
<1>19. CASE UNCHANGED vars
  BY <1>19, IInv DEF vars, IInv, KeysFit
<1> QED
  BY <1>1, <1>2, <1>3, <1>4, <1>5, <1>6, <1>7, <1>8, <1>9, <1>10, <1>11, <1>12,
     <1>13, <1>14, <1>15, <1>16, <1>17, <1>18, <1>19
  DEF Next, SessionUpload, Upload, Delete

\* Committed versions are those of uploads that have committed.
LEMMA RowsStep ==
    ASSUME IInv, [Next]_vars
    PROVE  RowsFit'
<1> USE DEF Uploads, Move, MoveDelete, NoFault, Fault, bounds, database, uploads, deletes, Committed
<1>1. ASSUME NEW s \in Sessions, CreateSession(s) PROVE RowsFit'
  BY <1>1, IInv DEF CreateSession, IInv, RowsFit
<1>2. ASSUME NEW s \in Sessions, CancelSession(s) PROVE RowsFit'
  BY <1>2, IInv DEF CancelSession, IInv, RowsFit
<1>3. ASSUME NEW s \in Sessions, DeadlinePasses(s) PROVE RowsFit'
  BY <1>3, IInv DEF DeadlinePasses, IInv, RowsFit
<1>4. ASSUME NEW u \in SessionUploads, SessionBegin(u) PROVE RowsFit'
  BY <1>4, IInv DEF SessionBegin, IInv, RowsFit
<1>5. ASSUME NEW u \in SessionUploads, MarkSessionUploading(u) PROVE RowsFit'
  BY <1>5, IInv, RowParts DEF MarkSessionUploading, IInv, RowsFit, TypeOK
<1>6. ASSUME NEW u \in SessionUploads, CompleteSessionUpload(u) PROVE RowsFit'
  BY <1>6, IInv, RowParts DEF CompleteSessionUpload, IInv, RowsFit, TypeOK, Insert
<1>7. ASSUME NEW u \in DirectUploads, DirectBegin(u) PROVE RowsFit'
  BY <1>7, IInv DEF DirectBegin, IInv, RowsFit
<1>8. ASSUME NEW u \in DirectUploads, CreateVersion(u) PROVE RowsFit'
  BY <1>8, IInv, RowParts DEF CreateVersion, IInv, RowsFit, TypeOK, Insert
<1>9. ASSUME NEW u \in Uploads, Persist(u) PROVE RowsFit'
  BY <1>9, IInv DEF Persist, IInv, RowsFit
<1>10. ASSUME NEW u \in Uploads, PersistFails(u) PROVE RowsFit'
  <2>1. \A r \in rows : r.by # u
    BY <1>10, IInv DEF PersistFails, IInv, RowsFit
  <2>2. \A v \in Uploads \ {u} : key'[v] = key[v] /\ ustep'[v] = ustep[v]
    BY <1>10, IInv DEF PersistFails, IInv, TypeOK
  <2>3. rows' = rows /\ faults' > 0
    BY <1>10, IInv, UploadAssumption DEF PersistFails, IInv, TypeOK, UploadAssumption
  <2>4. ASSUME NEW r \in rows
        PROVE  /\ ustep'[r.by] \in {"committed", "failed", "done", "dead"}
               /\ ustep'[r.by] = "failed" => faults' > 0
               /\ key'[r.by] = r.key
    <3>1. r.by \in Uploads \ {u}
      BY <2>1, RowParts, IInv DEF IInv
    <3> QED
      BY <2>2, <2>3, <3>1, IInv DEF IInv, TypeOK, RowsFit
  <2> QED
    BY <2>3, <2>4 DEF RowsFit
<1>11. ASSUME NEW u \in Uploads, RolledBack(u) PROVE RowsFit'
  BY <1>11, IInv DEF RolledBack, IInv, RowsFit, TypeOK
<1>12. ASSUME NEW u \in Uploads, DiscardBytes(u) PROVE RowsFit'
  BY <1>12, IInv DEF DiscardBytes, IInv, RowsFit, TypeOK
<1>13. ASSUME NEW u \in Uploads, EnqueueIndexTask(u) PROVE RowsFit'
  BY <1>13, IInv DEF EnqueueIndexTask, IInv, RowsFit, TypeOK
<1>14. ASSUME NEW d \in Deletions, DeleteRead(d) PROVE RowsFit'
  BY <1>14, IInv DEF DeleteRead, IInv, RowsFit, TypeOK
<1>15. ASSUME NEW d \in Deletions, DeleteRows(d) PROVE RowsFit'
  BY <1>15, IInv DEF DeleteRows, IInv, RowsFit, TypeOK
<1>16. ASSUME NEW d \in Deletions, DeleteBytes(d) PROVE RowsFit'
  BY <1>16, IInv DEF DeleteBytes, IInv, RowsFit, TypeOK
<1>17. ASSUME NEW d \in Deletions, DeleteEnd(d) PROVE RowsFit'
  BY <1>17, IInv DEF DeleteEnd, IInv, RowsFit
<1>18. CASE Crash
  BY <1>18, IInv, RowParts DEF Crash, IInv, RowsFit, AtRest
<1>19. CASE UNCHANGED vars
  BY <1>19, IInv DEF vars, IInv, RowsFit
<1> QED
  BY <1>1, <1>2, <1>3, <1>4, <1>5, <1>6, <1>7, <1>8, <1>9, <1>10, <1>11, <1>12,
     <1>13, <1>14, <1>15, <1>16, <1>17, <1>18, <1>19
  DEF Next, SessionUpload, Upload, Delete

\* An upload commits once.
LEMMA DifferStep ==
    ASSUME IInv, [Next]_vars
    PROVE  RowsDiffer'
<1> USE DEF Uploads, Move, MoveDelete, NoFault, Fault, bounds, database, uploads, deletes, Committed
<1>1. ASSUME NEW s \in Sessions, CreateSession(s) PROVE RowsDiffer'
  BY <1>1, IInv DEF CreateSession, IInv, RowsDiffer
<1>2. ASSUME NEW s \in Sessions, CancelSession(s) PROVE RowsDiffer'
  BY <1>2, IInv DEF CancelSession, IInv, RowsDiffer
<1>3. ASSUME NEW s \in Sessions, DeadlinePasses(s) PROVE RowsDiffer'
  BY <1>3, IInv DEF DeadlinePasses, IInv, RowsDiffer
<1>4. ASSUME NEW u \in SessionUploads, SessionBegin(u) PROVE RowsDiffer'
  BY <1>4, IInv DEF SessionBegin, IInv, RowsDiffer
<1>5. ASSUME NEW u \in SessionUploads, MarkSessionUploading(u) PROVE RowsDiffer'
  BY <1>5, IInv DEF MarkSessionUploading, IInv, RowsDiffer
<1>6. ASSUME NEW u \in SessionUploads, CompleteSessionUpload(u) PROVE RowsDiffer'
  BY <1>6, IInv DEF CompleteSessionUpload, IInv, RowsDiffer, RowsFit, Insert
<1>7. ASSUME NEW u \in DirectUploads, DirectBegin(u) PROVE RowsDiffer'
  BY <1>7, IInv DEF DirectBegin, IInv, RowsDiffer
<1>8. ASSUME NEW u \in DirectUploads, CreateVersion(u) PROVE RowsDiffer'
  BY <1>8, IInv DEF CreateVersion, IInv, RowsDiffer, RowsFit, Insert
<1>9. ASSUME NEW u \in Uploads, Persist(u) PROVE RowsDiffer'
  BY <1>9, IInv DEF Persist, IInv, RowsDiffer
<1>10. ASSUME NEW u \in Uploads, PersistFails(u) PROVE RowsDiffer'
  BY <1>10, IInv DEF PersistFails, IInv, RowsDiffer
<1>11. ASSUME NEW u \in Uploads, RolledBack(u) PROVE RowsDiffer'
  BY <1>11, IInv DEF RolledBack, IInv, RowsDiffer
<1>12. ASSUME NEW u \in Uploads, DiscardBytes(u) PROVE RowsDiffer'
  BY <1>12, IInv DEF DiscardBytes, IInv, RowsDiffer
<1>13. ASSUME NEW u \in Uploads, EnqueueIndexTask(u) PROVE RowsDiffer'
  BY <1>13, IInv DEF EnqueueIndexTask, IInv, RowsDiffer
<1>14. ASSUME NEW d \in Deletions, DeleteRead(d) PROVE RowsDiffer'
  BY <1>14, IInv DEF DeleteRead, IInv, RowsDiffer
<1>15. ASSUME NEW d \in Deletions, DeleteRows(d) PROVE RowsDiffer'
  BY <1>15, IInv DEF DeleteRows, IInv, RowsDiffer
<1>16. ASSUME NEW d \in Deletions, DeleteBytes(d) PROVE RowsDiffer'
  BY <1>16, IInv DEF DeleteBytes, IInv, RowsDiffer
<1>17. ASSUME NEW d \in Deletions, DeleteEnd(d) PROVE RowsDiffer'
  BY <1>17, IInv DEF DeleteEnd, IInv, RowsDiffer
<1>18. CASE Crash
  BY <1>18, IInv DEF Crash, IInv, RowsDiffer
<1>19. CASE UNCHANGED vars
  BY <1>19, IInv DEF vars, IInv, RowsDiffer
<1> QED
  BY <1>1, <1>2, <1>3, <1>4, <1>5, <1>6, <1>7, <1>8, <1>9, <1>10, <1>11, <1>12,
     <1>13, <1>14, <1>15, <1>16, <1>17, <1>18, <1>19
  DEF Next, SessionUpload, Upload, Delete

\* A session is marked as uploaded with its version and closed with it.
LEMMA SessionStep ==
    ASSUME IInv, [Next]_vars
    PROVE  OneVersionPerSession'
<1> USE DEF Uploads, Move, MoveDelete, NoFault, Fault, bounds, database, uploads, deletes, Committed
<1>1. ASSUME NEW s \in Sessions, CreateSession(s) PROVE OneVersionPerSession'
  BY <1>1, IInv
  DEF CreateSession, IInv, OneVersionPerSession, TypeOK, Open, Sweep, Swept
<1>2. ASSUME NEW s \in Sessions, CancelSession(s) PROVE OneVersionPerSession'
  BY <1>2, IInv
  DEF CancelSession, IInv, OneVersionPerSession, TypeOK, Open, Sweep, Swept
<1>3. ASSUME NEW s \in Sessions, DeadlinePasses(s) PROVE OneVersionPerSession'
  BY <1>3, IInv DEF DeadlinePasses, IInv, OneVersionPerSession
<1>4. ASSUME NEW u \in SessionUploads, SessionBegin(u) PROVE OneVersionPerSession'
  BY <1>4, IInv DEF SessionBegin, IInv, OneVersionPerSession, Open, Sweep, Swept
<1>5. ASSUME NEW u \in SessionUploads, MarkSessionUploading(u) PROVE OneVersionPerSession'
  BY <1>5, IInv DEF MarkSessionUploading, IInv, OneVersionPerSession, TypeOK, Open
<1>6. ASSUME NEW u \in SessionUploads, CompleteSessionUpload(u) PROVE OneVersionPerSession'
  <2> DEFINE new == [version |-> aim[u], key |-> key[u], by |-> u]
  <2>1. rows' = rows \cup {new}
    BY <1>6 DEF CompleteSessionUpload, Insert
  <2>2. \A r \in rows : r.by \in SessionUploads => SessionOf[r.by] # SessionOf[u]
    BY <1>6, IInv, SessionOfType DEF CompleteSessionUpload, IInv,
       OneVersionPerSession, Open
  <2>3. \A s \in Sessions :
           session'[s].status = IF s = SessionOf[u] THEN "uploaded" ELSE session[s].status
    BY <1>6, IInv, SessionOfType DEF CompleteSessionUpload, IInv, TypeOK
  <2>4. ASSUME NEW s \in Sessions, s = SessionOf[u]
        PROVE  {r \in rows' : r.by \in SessionUploads /\ SessionOf[r.by] = s} = {new}
    BY <1>6, <2>1, <2>2, <2>4
  <2>5. ASSUME NEW s \in Sessions, s # SessionOf[u]
        PROVE  {r \in rows' : r.by \in SessionUploads /\ SessionOf[r.by] = s}
                 = {r \in rows : r.by \in SessionUploads /\ SessionOf[r.by] = s}
    BY <1>6, <2>1, <2>5
  <2>6. ASSUME NEW s \in Sessions
        PROVE  LET made == {r \in rows' : r.by \in SessionUploads /\ SessionOf[r.by] = s}
               IN  /\ session'[s].status = "uploaded" <=> made # {}
                   /\ \A r, q \in made : r = q
    <3>1. CASE s = SessionOf[u]
      BY <2>3, <2>4, <3>1
    <3>2. CASE s # SessionOf[u]
      BY <2>3, <2>5, <3>2, IInv DEF IInv, OneVersionPerSession
    <3> QED
      BY <3>1, <3>2
  <2> QED
    BY <2>6 DEF OneVersionPerSession
<1>7. ASSUME NEW u \in DirectUploads, DirectBegin(u) PROVE OneVersionPerSession'
  BY <1>7, IInv DEF DirectBegin, IInv, OneVersionPerSession, Open, Sweep, Swept
<1>8. ASSUME NEW u \in DirectUploads, CreateVersion(u) PROVE OneVersionPerSession'
  BY <1>8, IInv, UploadAssumption
  DEF CreateVersion, IInv, OneVersionPerSession, UploadAssumption, Insert
<1>9. ASSUME NEW u \in Uploads, Persist(u) PROVE OneVersionPerSession'
  BY <1>9, IInv DEF Persist, IInv, OneVersionPerSession, Written
<1>10. ASSUME NEW u \in Uploads, PersistFails(u) PROVE OneVersionPerSession'
  BY <1>10, IInv DEF PersistFails, IInv, OneVersionPerSession, Written
<1>11. ASSUME NEW u \in Uploads, RolledBack(u) PROVE OneVersionPerSession'
  BY <1>11, IInv DEF RolledBack, IInv, OneVersionPerSession
<1>12. ASSUME NEW u \in Uploads, DiscardBytes(u) PROVE OneVersionPerSession'
  BY <1>12, IInv DEF DiscardBytes, IInv, OneVersionPerSession, Removed
<1>13. ASSUME NEW u \in Uploads, EnqueueIndexTask(u) PROVE OneVersionPerSession'
  BY <1>13, IInv DEF EnqueueIndexTask, IInv, OneVersionPerSession
<1>14. ASSUME NEW d \in Deletions, DeleteRead(d) PROVE OneVersionPerSession'
  BY <1>14, IInv DEF DeleteRead, IInv, OneVersionPerSession
<1>15. ASSUME NEW d \in Deletions, DeleteRows(d) PROVE OneVersionPerSession'
  <2>1. CASE rows' = {} /\ \A s \in Sessions : session'[s].status = "none"
    BY <2>1 DEF OneVersionPerSession
  <2>2. CASE rows' = rows /\ session' = session
    BY <2>2, IInv DEF IInv, OneVersionPerSession
  <2> QED
    BY <1>15, <2>1, <2>2 DEF DeleteRows
<1>16. ASSUME NEW d \in Deletions, DeleteBytes(d) PROVE OneVersionPerSession'
  BY <1>16, IInv DEF DeleteBytes, IInv, OneVersionPerSession, Removed
<1>17. ASSUME NEW d \in Deletions, DeleteEnd(d) PROVE OneVersionPerSession'
  BY <1>17, IInv DEF DeleteEnd, IInv, OneVersionPerSession
<1>18. CASE Crash
  BY <1>18, IInv DEF Crash, IInv, OneVersionPerSession
<1>19. CASE UNCHANGED vars
  BY <1>19, IInv DEF vars, IInv, OneVersionPerSession
<1> QED
  BY <1>1, <1>2, <1>3, <1>4, <1>5, <1>6, <1>7, <1>8, <1>9, <1>10, <1>11, <1>12,
     <1>13, <1>14, <1>15, <1>16, <1>17, <1>18, <1>19
  DEF Next, SessionUpload, Upload, Delete

\* Only an upload to the same key, or a removal of it, can touch what was written.
LEMMA SavedStep ==
    ASSUME IInv, [Next]_vars
    PROVE  SavedBytes'
<1> USE DEF Uploads, Move, MoveDelete, NoFault, Fault, bounds, database, uploads, deletes, Committed
<1>1. ASSUME NEW s \in Sessions, CreateSession(s) PROVE SavedBytes'
  BY <1>1, IInv DEF CreateSession, IInv, SavedBytes
<1>2. ASSUME NEW s \in Sessions, CancelSession(s) PROVE SavedBytes'
  BY <1>2, IInv DEF CancelSession, IInv, SavedBytes
<1>3. ASSUME NEW s \in Sessions, DeadlinePasses(s) PROVE SavedBytes'
  BY <1>3, IInv DEF DeadlinePasses, IInv, SavedBytes
<1>4. ASSUME NEW u \in SessionUploads, SessionBegin(u) PROVE SavedBytes'
  BY <1>4, IInv DEF SessionBegin, IInv, SavedBytes
<1>5. ASSUME NEW u \in SessionUploads, MarkSessionUploading(u) PROVE SavedBytes'
  BY <1>5, IInv DEF MarkSessionUploading, IInv, SavedBytes, TypeOK
<1>6. ASSUME NEW u \in SessionUploads, CompleteSessionUpload(u) PROVE SavedBytes'
  BY <1>6, IInv DEF CompleteSessionUpload, IInv, SavedBytes, TypeOK, Insert
<1>7. ASSUME NEW u \in DirectUploads, DirectBegin(u) PROVE SavedBytes'
  BY <1>7, IInv DEF DirectBegin, IInv, SavedBytes
<1>8. ASSUME NEW u \in DirectUploads, CreateVersion(u) PROVE SavedBytes'
  BY <1>8, IInv DEF CreateVersion, IInv, SavedBytes, TypeOK, Insert
<1>9. ASSUME NEW u \in Uploads, Persist(u) PROVE SavedBytes'
  BY <1>9, IInv, UploadAssumption
  DEF Persist, IInv, SavedBytes, KeysFit, TypeOK, UploadAssumption, Written
<1>10. ASSUME NEW u \in Uploads, PersistFails(u) PROVE SavedBytes'
  BY <1>10, IInv DEF PersistFails, IInv, SavedBytes, TypeOK, Written
<1>11. ASSUME NEW u \in Uploads, RolledBack(u) PROVE SavedBytes'
  BY <1>11, IInv DEF RolledBack, IInv, SavedBytes, TypeOK
<1>12. ASSUME NEW u \in Uploads, DiscardBytes(u) PROVE SavedBytes'
  BY <1>12, IInv DEF DiscardBytes, IInv, SavedBytes, TypeOK, Removed
<1>13. ASSUME NEW u \in Uploads, EnqueueIndexTask(u) PROVE SavedBytes'
  BY <1>13, IInv DEF EnqueueIndexTask, IInv, SavedBytes, TypeOK
<1>14. ASSUME NEW d \in Deletions, DeleteRead(d) PROVE SavedBytes'
  BY <1>14, IInv DEF DeleteRead, IInv, SavedBytes, TypeOK
<1>15. ASSUME NEW d \in Deletions, DeleteRows(d) PROVE SavedBytes'
  <2>1. CASE ~ alive'
    BY <2>1 DEF SavedBytes
  <2>2. CASE UNCHANGED <<alive, blobs, ustep, key>> /\ (faults' = 0 => faults = 0)
    BY <2>2, IInv DEF IInv, SavedBytes
  <2> QED
    BY <1>15, <2>1, <2>2, IInv, UploadAssumption DEF DeleteRows, IInv, TypeOK,
       UploadAssumption
<1>16. ASSUME NEW d \in Deletions, DeleteBytes(d) PROVE SavedBytes'
  BY <1>16, IInv DEF DeleteBytes, IInv, Gone, SavedBytes
<1>17. ASSUME NEW d \in Deletions, DeleteEnd(d) PROVE SavedBytes'
  BY <1>17, IInv DEF DeleteEnd, IInv, SavedBytes
<1>18. CASE Crash
  BY <1>18, IInv DEF Crash, IInv, SavedBytes, AtRest
<1>19. CASE UNCHANGED vars
  BY <1>19, IInv DEF vars, IInv, SavedBytes
<1> QED
  BY <1>1, <1>2, <1>3, <1>4, <1>5, <1>6, <1>7, <1>8, <1>9, <1>10, <1>11, <1>12,
     <1>13, <1>14, <1>15, <1>16, <1>17, <1>18, <1>19
  DEF Next, SessionUpload, Upload, Delete

\* The same holds of what was committed.
LEMMA BytesStep ==
    ASSUME IInv, [Next]_vars
    PROVE  BytesAreKept'
<1> USE DEF Uploads, Move, MoveDelete, NoFault, Fault, bounds, database, uploads, deletes, Committed
<1>1. ASSUME NEW s \in Sessions, CreateSession(s) PROVE BytesAreKept'
  BY <1>1, IInv DEF CreateSession, IInv, BytesAreKept
<1>2. ASSUME NEW s \in Sessions, CancelSession(s) PROVE BytesAreKept'
  BY <1>2, IInv DEF CancelSession, IInv, BytesAreKept
<1>3. ASSUME NEW s \in Sessions, DeadlinePasses(s) PROVE BytesAreKept'
  BY <1>3, IInv DEF DeadlinePasses, IInv, BytesAreKept
<1>4. ASSUME NEW u \in SessionUploads, SessionBegin(u) PROVE BytesAreKept'
  BY <1>4, IInv DEF SessionBegin, IInv, BytesAreKept
<1>5. ASSUME NEW u \in SessionUploads, MarkSessionUploading(u) PROVE BytesAreKept'
  BY <1>5, IInv DEF MarkSessionUploading, IInv, BytesAreKept
<1>6. ASSUME NEW u \in SessionUploads, CompleteSessionUpload(u) PROVE BytesAreKept'
  BY <1>6, IInv
  DEF CompleteSessionUpload, IInv, BytesAreKept, SavedBytes, TypeOK, Insert
<1>7. ASSUME NEW u \in DirectUploads, DirectBegin(u) PROVE BytesAreKept'
  BY <1>7, IInv DEF DirectBegin, IInv, BytesAreKept
<1>8. ASSUME NEW u \in DirectUploads, CreateVersion(u) PROVE BytesAreKept'
  BY <1>8, IInv DEF CreateVersion, IInv, BytesAreKept, SavedBytes, TypeOK, Insert
<1>9. ASSUME NEW u \in Uploads, Persist(u) PROVE BytesAreKept'
  <2>1. PICK t \in Stamps :
           /\ key' = [key EXCEPT ![u] = <<aim[u], t>>]
           /\ blobs' = Written(<<aim[u], t>>, u)
    BY <1>9 DEF Persist
  <2>2. \A r \in rows : r.by # u /\ key[r.by] = r.key
    BY <1>9, IInv DEF Persist, IInv, RowsFit
  <2>3. \A v \in Uploads \ {u} : key'[v] = key[v]
    BY <2>1, IInv DEF IInv, TypeOK
  <2>4. key'[u] = <<aim[u], t>> /\ key[u] = NoKey
    BY <1>9, <2>1, IInv DEF Persist, IInv, TypeOK, KeysFit
  <2>5. ASSUME NEW r \in rows, faults = 0, \A v \in Uploads \ {r.by} : key'[v] # r.key
        PROVE  [key |-> r.key, by |-> r.by] \in blobs'
    <3>1. r.by \in Uploads /\ r.by # u /\ r.key \in Key
      BY <2>2, RowParts, IInv DEF IInv
    <3>2. r.key # <<aim[u], t>> /\ r.key # NoKey
      BY <2>4, <2>5, <3>1, UploadAssumption DEF UploadAssumption
    <3>3. \A v \in Uploads \ {r.by} : key[v] # r.key
      BY <2>3, <2>4, <2>5, <3>2
    <3>4. [key |-> r.key, by |-> r.by] \in blobs
      BY <2>5, <3>3, IInv DEF IInv, BytesAreKept
    <3> QED
      BY <2>1, <3>2, <3>4 DEF Written
  <2> QED
    BY <1>9, <2>5 DEF Persist, BytesAreKept
<1>10. ASSUME NEW u \in Uploads, PersistFails(u) PROVE BytesAreKept'
  BY <1>10, IInv DEF PersistFails, IInv, BytesAreKept, TypeOK, Written
<1>11. ASSUME NEW u \in Uploads, RolledBack(u) PROVE BytesAreKept'
  BY <1>11, IInv DEF RolledBack, IInv, BytesAreKept, TypeOK
<1>12. ASSUME NEW u \in Uploads, DiscardBytes(u) PROVE BytesAreKept'
  BY <1>12, IInv DEF DiscardBytes, IInv, BytesAreKept, RowsFit, TypeOK, Removed
<1>13. ASSUME NEW u \in Uploads, EnqueueIndexTask(u) PROVE BytesAreKept'
  BY <1>13, IInv DEF EnqueueIndexTask, IInv, BytesAreKept, TypeOK
<1>14. ASSUME NEW d \in Deletions, DeleteRead(d) PROVE BytesAreKept'
  BY <1>14, IInv DEF DeleteRead, IInv, BytesAreKept, TypeOK
<1>15. ASSUME NEW d \in Deletions, DeleteRows(d) PROVE BytesAreKept'
  <2>1. CASE rows' = {}
    BY <2>1 DEF BytesAreKept
  <2>2. CASE rows' = rows
    <3>1. UNCHANGED <<blobs, key>> /\ (faults' = 0 => faults = 0)
      BY <1>15, IInv, UploadAssumption DEF DeleteRows, IInv, TypeOK, UploadAssumption
    <3> QED
      BY <2>2, <3>1, IInv DEF IInv, BytesAreKept
  <2> QED
    BY <1>15, <2>1, <2>2 DEF DeleteRows
<1>16. ASSUME NEW d \in Deletions, DeleteBytes(d) PROVE BytesAreKept'
  <2>1. rows = {} /\ rows' = rows
    BY <1>16, IInv DEF DeleteBytes, IInv, Gone
  <2> QED
    BY <2>1 DEF BytesAreKept
<1>17. ASSUME NEW d \in Deletions, DeleteEnd(d) PROVE BytesAreKept'
  BY <1>17, IInv DEF DeleteEnd, IInv, BytesAreKept
<1>18. CASE Crash
  BY <1>18, IInv DEF Crash, IInv, BytesAreKept, AtRest
<1>19. CASE UNCHANGED vars
  BY <1>19, IInv DEF vars, IInv, BytesAreKept
<1> QED
  BY <1>1, <1>2, <1>3, <1>4, <1>5, <1>6, <1>7, <1>8, <1>9, <1>10, <1>11, <1>12,
     <1>13, <1>14, <1>15, <1>16, <1>17, <1>18, <1>19
  DEF Next, SessionUpload, Upload, Delete

\* No action leaves a file on disk without an owner.
LEMMA OwnedStep ==
    ASSUME IInv, [Next]_vars, BlobsOwned
    PROVE  BlobsOwned'
<1> USE DEF Uploads, Move, MoveDelete, NoFault, Fault, bounds, database, uploads, deletes, Committed
<1>1. ASSUME NEW s \in Sessions, CreateSession(s) PROVE BlobsOwned'
  BY <1>1, IInv DEF CreateSession, IInv, BlobsOwned, Owned
<1>2. ASSUME NEW s \in Sessions, CancelSession(s) PROVE BlobsOwned'
  BY <1>2, IInv DEF CancelSession, IInv, BlobsOwned, Owned
<1>3. ASSUME NEW s \in Sessions, DeadlinePasses(s) PROVE BlobsOwned'
  BY <1>3, IInv DEF DeadlinePasses, IInv, BlobsOwned, Owned
<1>4. ASSUME NEW u \in SessionUploads, SessionBegin(u) PROVE BlobsOwned'
  BY <1>4, IInv DEF SessionBegin, IInv, BlobsOwned, Owned
<1>5. ASSUME NEW u \in SessionUploads, MarkSessionUploading(u) PROVE BlobsOwned'
  BY <1>5, IInv DEF MarkSessionUploading, IInv, BlobsOwned, Owned, TypeOK
<1>6. ASSUME NEW u \in SessionUploads, CompleteSessionUpload(u) PROVE BlobsOwned'
  <2> DEFINE new == [version |-> aim[u], key |-> key[u], by |-> u]
  <2>1. rows' = rows \cup {new} /\ new.key = key[u]
    BY <1>6 DEF CompleteSessionUpload, Insert
  <2>2. UNCHANGED <<blobs, key, missed, dstep, doomed>> /\ (faults' = 0 => faults = 0)
    BY <1>6, IInv, UploadAssumption DEF CompleteSessionUpload, IInv, TypeOK,
       UploadAssumption
  <2>3. crashes' = crashes /\ \A v \in Uploads \ {u} : ustep'[v] = ustep[v]
    BY <1>6, IInv DEF CompleteSessionUpload, IInv, TypeOK
  <2> HIDE DEF new
  <2> QED
    BY <2>1, <2>2, <2>3, BlobsOwned DEF BlobsOwned, Owned
<1>7. ASSUME NEW u \in DirectUploads, DirectBegin(u) PROVE BlobsOwned'
  BY <1>7, IInv DEF DirectBegin, IInv, BlobsOwned, Owned
<1>8. ASSUME NEW u \in DirectUploads, CreateVersion(u) PROVE BlobsOwned'
  <2> DEFINE new == [version |-> latest + 1, key |-> key[u], by |-> u]
  <2>1. rows' = rows \cup {new} /\ new.key = key[u]
    BY <1>8 DEF CreateVersion, Insert
  <2>2. UNCHANGED <<blobs, key, missed, dstep, doomed>> /\ (faults' = 0 => faults = 0)
    BY <1>8, IInv, UploadAssumption DEF CreateVersion, IInv, TypeOK, UploadAssumption
  <2>3. crashes' = crashes /\ \A v \in Uploads \ {u} : ustep'[v] = ustep[v]
    BY <1>8, IInv DEF CreateVersion, IInv, TypeOK
  <2> HIDE DEF new
  <2> QED
    BY <2>1, <2>2, <2>3, BlobsOwned DEF BlobsOwned, Owned
<1>9. ASSUME NEW u \in Uploads, Persist(u) PROVE BlobsOwned'
  BY <1>9, IInv DEF Persist, IInv, BlobsOwned, Owned, TypeOK, Written
<1>10. ASSUME NEW u \in Uploads, PersistFails(u) PROVE BlobsOwned'
  BY <1>10, IInv DEF PersistFails, IInv, BlobsOwned, Owned, TypeOK, Written
<1>11. ASSUME NEW u \in Uploads, RolledBack(u) PROVE BlobsOwned'
  BY <1>11, IInv DEF RolledBack, IInv, BlobsOwned, Owned, TypeOK
<1>12. ASSUME NEW u \in Uploads, DiscardBytes(u) PROVE BlobsOwned'
  BY <1>12, IInv DEF DiscardBytes, IInv, BlobsOwned, Owned, TypeOK, Removed
<1>13. ASSUME NEW u \in Uploads, EnqueueIndexTask(u) PROVE BlobsOwned'
  BY <1>13, IInv DEF EnqueueIndexTask, IInv, BlobsOwned, Owned, TypeOK
<1>14. ASSUME NEW d \in Deletions, DeleteRead(d) PROVE BlobsOwned'
  BY <1>14, IInv DEF DeleteRead, IInv, BlobsOwned, Owned, TypeOK
<1>15. ASSUME NEW d \in Deletions, DeleteRows(d) PROVE BlobsOwned'
  BY <1>15, IInv DEF DeleteRows, IInv, BlobsOwned, Owned, TypeOK
<1>16. ASSUME NEW d \in Deletions, DeleteBytes(d) PROVE BlobsOwned'
  BY <1>16, IInv DEF DeleteBytes, IInv, BlobsOwned, Owned, TypeOK, Removed
<1>17. ASSUME NEW d \in Deletions, DeleteEnd(d) PROVE BlobsOwned'
  BY <1>17, IInv DEF DeleteEnd, IInv, BlobsOwned, Owned
<1>18. CASE Crash
  BY <1>18, IInv DEF Crash, IInv, BlobsOwned, Owned, TypeOK, AtRest
<1>19. CASE UNCHANGED vars
  BY <1>19, IInv DEF vars, IInv, BlobsOwned, Owned
<1> QED
  BY <1>1, <1>2, <1>3, <1>4, <1>5, <1>6, <1>7, <1>8, <1>9, <1>10, <1>11, <1>12,
     <1>13, <1>14, <1>15, <1>16, <1>17, <1>18, <1>19
  DEF Next, SessionUpload, Upload, Delete

-----------------------------------------------------------------------------
(* The theorems. *)

\* At the start there are no versions, no bytes and no requests.
LEMMA InitInv == Init => IInv /\ BlobsOwned
<1> SUFFICES ASSUME Init PROVE IInv /\ BlobsOwned
  OBVIOUS
<1>1. TypeOK
  BY UploadAssumption
  DEF Init, TypeOK, UploadAssumption, SessionStatus, UploadStep, DeleteStep
<1>2. VersionsAreDense
  BY DEF Init, VersionsAreDense
<1>3. OneVersionPerSession
  BY DEF Init, OneVersionPerSession
<1>4. Gone /\ TargetsFit /\ AimsFit /\ KeysFit /\ RowsFit /\ RowsDiffer
  BY DEF Init, Gone, TargetsFit, AimsFit, KeysFit, RowsFit, RowsDiffer
<1>5. SavedBytes /\ BytesAreKept /\ BlobsOwned
  BY DEF Init, SavedBytes, BytesAreKept, BlobsOwned
<1> QED
  BY <1>1, <1>2, <1>3, <1>4, <1>5 DEF IInv

\* The invariant is inductive.
LEMMA Invariance == Spec => []IInv
<1>1. IInv /\ [Next]_vars => IInv'
  BY TypeStep, GoneStep, DenseStep, TargetsStep, AimsStep, KeysStep, RowsStep,
     DifferStep, SessionStep, SavedStep, BytesStep
  DEF IInv
<1> QED
  BY InitInv, <1>1, PTL DEF Spec

\* Every variable keeps its type, whatever requests race on the file.
THEOREM TypeCorrect == Spec => []TypeOK
  BY Invariance, PTL DEF IInv

\* The versions of a file are 1 to latest_version_no without a gap or a double:
\* CompleteSessionUpload, which inserts the version its session has kept, never
\* overtakes CreateVersion, which counts, and neither does the reverse.
THEOREM DenseVersions == Spec => []VersionsAreDense
  BY Invariance, PTL DEF IInv

\* A session ends as uploaded exactly if CompleteSessionUpload has inserted a
\* version for it, and it never does twice, for any number of racing uploads.
THEOREM SessionsUploadOnce == Spec => []OneVersionPerSession
  BY Invariance, PTL DEF IInv

\* Without faults, what a version row refers to is on disk as its upload wrote
\* it, unless buildStorageKey gave another upload the same key.
THEOREM CommittedBytesStay == Spec => []BytesAreKept
  BY Invariance, PTL DEF IInv

\* Without faults and restarts, only a DeleteFile that overlaps the commit of an
\* upload leaves bytes on disk that belong to nothing.
THEOREM NoBytesAreForgotten == Spec => []NothingIsLeftBehind
<1>1. IInv /\ BlobsOwned /\ [Next]_vars => BlobsOwned'
  BY OwnedStep
<1>2. IInv /\ BlobsOwned => NothingIsLeftBehind
  <2> SUFFICES ASSUME IInv, BlobsOwned, faults = 0, crashes = 0,
                      \A u \in Uploads : ustep[u] \in AtRest,
                      \A d \in Deletions : dstep[d] \in AtRest,
                      NEW b \in blobs
               PROVE  b.key \in {r.key : r \in rows} \cup missed
    BY DEF NothingIsLeftBehind
  <2>1. Owned(b)
    BY DEF BlobsOwned
  <2> QED
    BY <2>1 DEF Owned, AtRest
<1> QED
  BY <1>1, <1>2, InitInv, Invariance, PTL DEF Spec

=============================================================================
