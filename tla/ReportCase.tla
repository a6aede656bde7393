------------------------------ MODULE ReportCase ------------------------------
(***************************************************************************)
(* One report case: service/reporting_service.go over the maps of          *)
(* repository/reporting_repository.go.  Files are attached to the case,    *)
(* processing extracts facts from each of them, a review approves or       *)
(* rejects file by file, and a review that goes through assembles the      *)
(* report from the approved facts and calls the case ready.                *)
(*                                                                         *)
(* Nothing is locked, and every request runs on a goroutine of its own: a  *)
(* request is a sequence of calls of the repository, one step each, and    *)
(* the calls of all requests interleave.  A call itself is atomic here:    *)
(* two that run at the same instant are a data race on a Go map, which may *)
(* end the process.  A call that only reads what no other request changes  *)
(* (the case's subject, the row of a file, which is never deleted) is part *)
(* of the call it precedes.                                                *)
(*                                                                         *)
(* Abstracted: what is extracted (slices, tables, cells and source         *)
(* references live and die with the facts of their file), categories, the  *)
(* profile that is saved with a file's row, summaries, the order in which  *)
(* the files of a case, or the facts of a file, are gone through.          *)
(***************************************************************************)
EXTENDS Integers, FiniteSets

CONSTANTS
    CaseFiles,      \* attach requests, each with the case file it may create
    FileOf,         \* the file an attach request names
    SubjectFiles,   \* case files of a category whose facts become assets
    Processings,    \* process requests in flight at the same time
    Reviews,        \* review requests in flight at the same time
    NoFile,         \* no case file
    MaxInFlight,    \* bound: requests in flight at the same time
    MaxExtractions, \* bound: extractions
    MaxFacts        \* bound: facts of one extraction

ReportAssumption ==
    /\ SubjectFiles \subseteq CaseFiles
    /\ NoFile \notin CaseFiles
    /\ MaxInFlight \in Nat
    /\ MaxExtractions \in Nat
    /\ MaxFacts \in Nat

ASSUME ReportAssumption

VARIABLES
    status,      \* ReportCase.Status
    review,      \* ReviewStatus of each case file, "none" before it exists
    facts,       \* the extracted facts with their ReviewStatus
    extractions, \* how many parses have led to an extraction
    assembly,    \* the assembly items: who created each, and its fact
    assets,      \* the facts of the subject assets
    copy,        \* per attach: the case's status when it read it, or "none"
    proc,        \* per process request: where it is
    rev,         \* per review request: where it is
    disputed,    \* history: see DecisionsCoverFacts
    doubled,     \* history: see OneExtraction
    sole,        \* history: the review that has the case for itself
    behind       \* history: see ReadyMeansAssembled

history    == <<disputed, doubled, sole, behind>>
reportVars == <<status, review, facts, extractions, assembly, assets,
                copy, proc, rev, history>>

CaseStatus   == {"draft", "processing", "pending_review", "ready"}
Decision     == {"approved", "rejected"}
ReviewStatus == Decision \cup {"pending"}

\* A fact is known by its file, its extraction, and its number in it.
FactId == [file : CaseFiles, extraction : 1 .. MaxExtractions, no : 1 .. MaxFacts]
Fact   == [id : FactId, review : ReviewStatus]

Attached == {f \in CaseFiles : review[f] # "none"}

\* FindFactsByCaseFileID.
FactsOf(f) == {x \in facts : x.id.file = f}

\* What rebuildAssembly is to select: the approved facts of approved files.
ApprovedFacts ==
    {x.id : x \in {y \in facts : y.review = "approved" /\ review[y.id.file] = "approved"}}

\* Where a process request is: the files it has yet to process, and of the one
\* it is at work on the number of facts that it has yet to create.
ProcState ==
    [at : {"idle", "list", "next", "delete", "create", "summary"},
     todo : SUBSET CaseFiles, file : CaseFiles \cup {NoFile},
     extraction : 0 .. MaxExtractions, left : 0 .. MaxFacts]

\* Where a review request is: the file and the decision it is at work on, the
\* facts it has found and not dealt with, one that has yet to become an asset,
\* and the files whose facts have yet to be gathered for the report.
RevState ==
    [at : {"idle", "decide", "find", "update", "list", "gather", "summary"},
     file : CaseFiles \cup {NoFile}, decision : ReviewStatus,
     rows : SUBSET FactId, due : SUBSET FactId, files : SUBSET CaseFiles]

ProcIdle == [at |-> "idle", todo |-> {}, file |-> NoFile, extraction |-> 0, left |-> 0]
RevIdle  == [at |-> "idle", file |-> NoFile, decision |-> "pending",
             rows |-> {}, due |-> {}, files |-> {}]

Init ==
    /\ status = "draft"
    /\ review = [f \in CaseFiles |-> "none"]
    /\ facts = {}
    /\ extractions = 0
    /\ assembly = {} /\ assets = {}
    /\ copy = [f \in CaseFiles |-> "none"]
    /\ proc = [p \in Processings |-> ProcIdle]
    /\ rev = [r \in Reviews |-> RevIdle]
    /\ disputed = {} /\ doubled = {}
    /\ sole = {} /\ behind = TRUE

\* The bound on the requests in flight leaves room for one more.
Room ==
    MaxInFlight > Cardinality({f \in CaseFiles : copy[f] # "none"})
                    + Cardinality({p \in Processings : proc[p].at # "idle"})
                    + Cardinality({r \in Reviews : rev[r].at # "idle"})

-----------------------------------------------------------------------------
(* Who is at work on a file, and what for. *)

Processes(p, f) == proc[p].at \in {"delete", "create"} /\ proc[p].file = f
Decides(r, f)   == rev[r].at \in {"find", "update"} /\ rev[r].file = f

\* The review statuses that the requests at work on f are about to leave.
Wanted(f) ==
    {"pending" : p \in {q \in Processings : Processes(q, f)}}
        \cup {rev[r].decision : r \in {s \in Reviews : Decides(s, f)}}

\* History: a request comes to work on f.  Alone it brings file and facts into
\* line; requests that want different things of f may mix them up.
Contend(f, want) ==
    disputed' = IF Wanted(f) = {} THEN disputed \ {f}
                ELSE IF Wanted(f) \subseteq {want} THEN disputed
                ELSE disputed \cup {f}

-----------------------------------------------------------------------------
\* AttachReportCaseFile up to the query of the file: the case is read, and the
\* file is not attached yet.
AttachRead(f) ==
    /\ copy[f] = "none" /\ review[f] = "none" /\ Room
    /\ \A g \in Attached : FileOf[g] # FileOf[f]
    /\ copy' = [copy EXCEPT ![f] = status]
    /\ UNCHANGED <<status, review, facts, extractions, assembly, assets, proc, rev, history>>

\* The file has gone or has no version.
AttachRefused(f) ==
    /\ copy[f] # "none" /\ review[f] = "none"
    /\ copy' = [copy EXCEPT ![f] = "none"]
    /\ UNCHANGED <<status, review, facts, extractions, assembly, assets, proc, rev, history>>

\* CreateReportCaseFile.
AttachCreate(f) ==
    /\ copy[f] # "none" /\ review[f] = "none"
    /\ review' = [review EXCEPT ![f] = "pending"]
    /\ UNCHANGED <<status, facts, extractions, assembly, assets, copy, proc, rev, history>>

\* refreshCaseSummary saves the whole case as it was read, its status included.
AttachSave(f) ==
    /\ copy[f] # "none" /\ review[f] # "none"
    /\ status' = copy[f]
    /\ behind' = (behind \/ copy[f] # status)
    /\ copy' = [copy EXCEPT ![f] = "none"]
    /\ UNCHANGED <<review, facts, extractions, assembly, assets, proc, rev,
                   disputed, doubled, sole>>

-----------------------------------------------------------------------------
\* Mutant: the case is only touched when the processing has succeeded.
ProcessBeginQuietly(p) ==
    /\ proc[p].at = "idle" /\ Room
    /\ proc' = [proc EXCEPT ![p].at = "list"]
    /\ sole' = {}
    /\ UNCHANGED <<status, review, facts, extractions, assembly, assets, copy, rev,
                   disputed, doubled, behind>>

\* ProcessReportCase: the case is processing, whatever it was.
ProcessBegin(p) ==
    /\ proc[p].at = "idle" /\ Room
    /\ status' = "processing"
    /\ proc' = [proc EXCEPT ![p].at = "list"]
    /\ sole' = {}
    /\ UNCHANGED <<review, facts, extractions, assembly, assets, copy, rev,
                   disputed, doubled, behind>>

\* FindReportCaseFiles: what is attached later is not processed.
ProcessList(p) ==
    /\ proc[p].at = "list"
    /\ proc' = [proc EXCEPT ![p].at = "next", ![p].todo = Attached]
    /\ UNCHANGED <<status, review, facts, extractions, assembly, assets, copy, rev, history>>

\* Mutant: the file keeps the decision on its previous facts.
ProcessMarkKeeping(p, f) ==
    /\ proc[p].at = "next" /\ f \in proc[p].todo
    /\ extractions < MaxExtractions
    /\ extractions' = extractions + 1
    /\ \E n \in 1 .. MaxFacts :
          proc' = [proc EXCEPT ![p] = [at |-> "delete", todo |-> proc[p].todo \ {f}, file |-> f,
                                       extraction |-> extractions + 1, left |-> n]]
    /\ Contend(f, "pending")
    /\ doubled' = IF \E q \in Processings : Processes(q, f)
                  THEN doubled \cup {f} ELSE doubled \ {f}
    /\ UNCHANGED <<status, review, facts, assembly, assets, copy, rev, sole, behind>>

\* processSingleCaseFile once a parse has succeeded: the file is to be reviewed
\* again (UpdateReportCaseFile).
ProcessMark(p, f) ==
    /\ proc[p].at = "next" /\ f \in proc[p].todo
    /\ extractions < MaxExtractions
    /\ review' = [review EXCEPT ![f] = "pending"]
    /\ extractions' = extractions + 1
    /\ \E n \in 1 .. MaxFacts :
          proc' = [proc EXCEPT ![p] = [at |-> "delete", todo |-> proc[p].todo \ {f}, file |-> f,
                                       extraction |-> extractions + 1, left |-> n]]
    /\ Contend(f, "pending")
    /\ doubled' = IF \E q \in Processings : Processes(q, f)
                  THEN doubled \cup {f} ELSE doubled \ {f}
    /\ UNCHANGED <<status, facts, assembly, assets, copy, rev, sole, behind>>

\* DeleteFactsByCaseFileID.
ProcessDelete(p) ==
    /\ proc[p].at = "delete"
    /\ facts' = facts \ FactsOf(proc[p].file)
    /\ proc' = [proc EXCEPT ![p].at = "create"]
    /\ UNCHANGED <<status, review, extractions, assembly, assets, copy, rev, history>>

\* The fact that p is to create.
NextFact(p) ==
    [file |-> proc[p].file, extraction |-> proc[p].extraction, no |-> proc[p].left]

\* CreateExtractionFact, called for one fact after the other.
ProcessCreate(p) ==
    /\ proc[p].at = "create"
    /\ facts' = facts \cup {[id |-> NextFact(p), review |-> "pending"]}
    /\ proc' = [proc EXCEPT ![p] =
                   IF proc[p].left = 1
                   THEN [ProcIdle EXCEPT !.at = "next", !.todo = proc[p].todo]
                   ELSE [proc[p] EXCEPT !.left = proc[p].left - 1]]
    /\ UNCHANGED <<status, review, extractions, assembly, assets, copy, rev, history>>

\* A parse fails: the request is over, and the case stays as it is.
ProcessFail(p) ==
    /\ proc[p].at = "next" /\ proc[p].todo # {}
    /\ proc' = [proc EXCEPT ![p] = ProcIdle]
    /\ UNCHANGED <<status, review, facts, extractions, assembly, assets, copy, rev, history>>

\* Every file is processed: the case is to be reviewed.
ProcessEnd(p) ==
    /\ proc[p].at = "next" /\ proc[p].todo = {}
    /\ status' = "pending_review"
    /\ proc' = [proc EXCEPT ![p].at = "summary"]
    /\ UNCHANGED <<review, facts, extractions, assembly, assets, copy, rev, history>>

\* refreshCaseSummary saves the case once more.
ProcessSummary(p) ==
    /\ proc[p].at = "summary"
    /\ status' = "pending_review"
    /\ proc' = [proc EXCEPT ![p] = ProcIdle]
    /\ UNCHANGED <<review, facts, extractions, assembly, assets, copy, rev, history>>

-----------------------------------------------------------------------------
\* ReviewReportCase.
ReviewBegin(r) ==
    /\ rev[r].at = "idle" /\ Room
    /\ rev' = [rev EXCEPT ![r].at = "decide"]
    /\ sole' = {}
    /\ UNCHANGED <<status, review, facts, extractions, assembly, assets, copy, proc,
                   disputed, doubled, behind>>

\* The next decision: the file is decided (UpdateReportCaseFile).
ReviewMark(r, f, d) ==
    /\ rev[r].at = "decide"
    /\ f \in Attached
    /\ review' = [review EXCEPT ![f] = d]
    /\ rev' = [rev EXCEPT ![r] = [RevIdle EXCEPT !.at = "find", !.file = f, !.decision = d]]
    /\ Contend(f, d)
    /\ behind' = TRUE
    /\ UNCHANGED <<status, facts, extractions, assembly, assets, copy, proc, doubled, sole>>

\* FindFactsByCaseFileID: a copy of the file's facts.
ReviewFind(r) ==
    /\ rev[r].at = "find"
    /\ LET found == {x.id : x \in FactsOf(rev[r].file)} IN
          rev' = [rev EXCEPT ![r] = IF found = {} THEN [RevIdle EXCEPT !.at = "decide"]
                                    ELSE [rev[r] EXCEPT !.at = "update", !.rows = found]]
    /\ UNCHANGED <<status, review, facts, extractions, assembly, assets, copy, proc, history>>

\* Mutant: the update of a fact that is gone creates it.
ReviewFactUpsert(r, x) ==
    /\ rev[r].at = "update" /\ rev[r].due = {}
    /\ facts' = {y \in facts : y.id # x} \cup {[id |-> x, review |-> rev[r].decision]}
    /\ rev' = [rev EXCEPT ![r] =
                  IF rev[r].decision = "approved" /\ x.file \in SubjectFiles
                  THEN [rev[r] EXCEPT !.rows = rev[r].rows \ {x}, !.due = {x}]
                  ELSE IF rev[r].rows = {x} THEN [RevIdle EXCEPT !.at = "decide"]
                  ELSE [rev[r] EXCEPT !.rows = rev[r].rows \ {x}]]
    /\ UNCHANGED <<status, review, extractions, assembly, assets, copy, proc, history>>

\* UpdateExtractionFact for the next of them, which does nothing to a fact that
\* has been deleted since.  What is approved may have to become an asset.
ReviewFact(r, x) ==
    /\ rev[r].at = "update" /\ rev[r].due = {}
    /\ facts' = {IF y.id = x THEN [y EXCEPT !.review = rev[r].decision] ELSE y : y \in facts}
    /\ rev' = [rev EXCEPT ![r] =
                  IF rev[r].decision = "approved" /\ x.file \in SubjectFiles
                  THEN [rev[r] EXCEPT !.rows = rev[r].rows \ {x}, !.due = {x}]
                  ELSE IF rev[r].rows = {x} THEN [RevIdle EXCEPT !.at = "decide"]
                  ELSE [rev[r] EXCEPT !.rows = rev[r].rows \ {x}]]
    /\ UNCHANGED <<status, review, extractions, assembly, assets, copy, proc, history>>

\* CreateSubjectAsset, whether or not the fact still exists.
ReviewAsset(r, x) ==
    /\ rev[r].at = "update"
    /\ assets' = assets \cup {x}
    /\ rev' = [rev EXCEPT ![r] = IF rev[r].rows = {} THEN [RevIdle EXCEPT !.at = "decide"]
                                 ELSE [rev[r] EXCEPT !.due = {}]]
    /\ UNCHANGED <<status, review, facts, extractions, assembly, copy, proc, history>>

\* The next decision names an unknown file or is misspelt: the ones before it
\* stand, and neither the assembly nor the case is brought up to date.
ReviewCutShort(r) ==
    /\ rev[r].at = "decide"
    /\ rev' = [rev EXCEPT ![r] = RevIdle]
    /\ UNCHANGED <<status, review, facts, extractions, assembly, assets, copy, proc, history>>

\* rebuildAssembly after the last decision, if there was any:
\* DeleteAssemblyItemsByCaseID.
ReviewClear(r) ==
    /\ rev[r].at = "decide"
    /\ assembly' = {}
    /\ rev' = [rev EXCEPT ![r].at = "list"]
    /\ sole' = IF (\A p \in Processings : proc[p].at = "idle")
                   /\ (\A s \in Reviews \ {r} : rev[s].at = "idle")
               THEN {r} ELSE {}
    /\ behind' = TRUE
    /\ UNCHANGED <<status, review, facts, extractions, assets, copy, proc, disputed, doubled>>

\* FindReportCaseFiles.
ReviewList(r) ==
    /\ rev[r].at = "list"
    /\ rev' = [rev EXCEPT ![r].at = "gather", ![r].files = {f \in CaseFiles : review[f] = "approved"}]
    /\ UNCHANGED <<status, review, facts, extractions, assembly, assets, copy, proc, history>>

\* FindFactsByCaseFileID for the next of the approved files.
ReviewGather(r, f) ==
    /\ rev[r].at = "gather" /\ rev[r].rows = {}
    /\ f \in rev[r].files
    /\ rev' = [rev EXCEPT ![r].files = @ \ {f},
                          ![r].rows = {x.id : x \in {y \in FactsOf(f) : y.review = "approved"}}]
    /\ UNCHANGED <<status, review, facts, extractions, assembly, assets, copy, proc, history>>

\* CreateAssemblyItem for the next approved fact among them.
ReviewItem(r, x) ==
    /\ rev[r].at = "gather"
    /\ assembly' = assembly \cup {[by |-> r, fact |-> x]}
    /\ rev' = [rev EXCEPT ![r].rows = @ \ {x}]
    /\ UNCHANGED <<status, review, facts, extractions, assets, copy, proc, history>>

\* The report is complete: the case is ready.
ReviewReady(r) ==
    /\ rev[r].at = "gather" /\ rev[r].rows = {} /\ rev[r].files = {}
    /\ status' = "ready"
    /\ rev' = [rev EXCEPT ![r].at = "summary"]
    /\ UNCHANGED <<review, facts, extractions, assembly, assets, copy, proc, history>>

\* refreshCaseSummary saves the case once more.
ReviewSummary(r) ==
    /\ rev[r].at = "summary"
    /\ status' = "ready"
    /\ rev' = [rev EXCEPT ![r] = RevIdle]
    /\ sole' = {}
    /\ behind' = (r \notin sole)
    /\ UNCHANGED <<review, facts, extractions, assembly, assets, copy, proc, disputed, doubled>>

Attach(f) == AttachRead(f) \/ AttachRefused(f) \/ AttachCreate(f) \/ AttachSave(f)

Process(p) ==
    \/ ProcessBegin(p) \/ ProcessList(p)
    \/ \E f \in CaseFiles : ProcessMark(p, f)
    \/ ProcessDelete(p) \/ ProcessCreate(p)
    \/ ProcessFail(p) \/ ProcessEnd(p) \/ ProcessSummary(p)

Review(r) ==
    \/ ReviewBegin(r)
    \/ \E f \in CaseFiles, d \in Decision : ReviewMark(r, f, d)
    \/ ReviewFind(r)
    \/ \E x \in rev[r].rows : ReviewFact(r, x) \/ ReviewItem(r, x)
    \/ \E x \in rev[r].due : ReviewAsset(r, x)
    \/ ReviewCutShort(r) \/ ReviewClear(r) \/ ReviewList(r)
    \/ \E f \in CaseFiles : ReviewGather(r, f)
    \/ ReviewReady(r) \/ ReviewSummary(r)

Next ==
    \/ \E f \in CaseFiles : Attach(f)
    \/ \E p \in Processings : Process(p)
    \/ \E r \in Reviews : Review(r)

Spec == Init /\ [][Next]_reportVars

-----------------------------------------------------------------------------
(* Properties. *)

\* Every variable keeps its type.
TypeOK ==
    /\ status \in CaseStatus
    /\ review \in [CaseFiles -> ReviewStatus \cup {"none"}]
    /\ facts \subseteq Fact
    /\ extractions \in 0 .. MaxExtractions
    /\ assembly \subseteq [by : Reviews, fact : FactId]
    /\ assets \subseteq FactId
    /\ copy \in [CaseFiles -> CaseStatus \cup {"none"}]
    /\ proc \in [Processings -> ProcState]
    /\ rev \in [Reviews -> RevState]
    /\ disputed \subseteq CaseFiles
    /\ doubled \subseteq CaseFiles
    /\ sole \subseteq Reviews
    /\ behind \in BOOLEAN

\* When nobody is at work on a file, the file and all its facts carry the same
\* review status, and those of its facts that are approved and concern the
\* subject are assets: a processing takes a decision back together with the
\* facts it was about, a review decides on the file together with whatever
\* facts it has by then (processSingleCaseFile, ReviewReportCase).  Excepted
\* are files on which requests that wanted different statuses overlapped, until
\* a request has such a file for itself: there is no lock, and the steps of a
\* review and of a processing do leave an approved file with pending facts.
DecisionsCoverFacts ==
    \A x \in facts :
        LET f == x.id.file IN
        Wanted(f) = {} =>
            /\ f \notin disputed => x.review = review[f]
            /\ x.review = "approved" /\ f \in SubjectFiles => x.id \in assets

\* The facts of a file are those of one extraction unless two processings
\* overlapped on it, whatever reviews do meanwhile: an update of a fact that a
\* processing has deleted does not bring it back (UpdateExtractionFact).
OneExtraction ==
    \A f \in CaseFiles \ doubled :
        (\A p \in Processings : ~ Processes(p, f)) =>
            \A x, y \in FactsOf(f) : x.id.extraction = y.id.extraction

\* A ready case shows the facts that are approved now, each of them once,
\* unless since the last rebuild that had the case for itself (from the first
\* deleted item to the last save, no processing and no other review was in
\* flight) a file was decided, another rebuild ran, or an attach saved a status
\* it had read before (refreshCaseSummary).  In particular a processing, also
\* one that fails halfway, never leaves a ready case with some of its facts
\* replaced; overlapping decisions do no harm; and the next undisturbed rebuild
\* puts right whatever went wrong before.
ReadyMeansAssembled ==
    status = "ready" /\ ~ behind =>
        /\ {i.fact : i \in assembly} = ApprovedFacts
        /\ \A i, j \in assembly : i.fact = j.fact => i = j

=============================================================================
