--------------------------- MODULE ReportCaseProofs ---------------------------
(***************************************************************************)
(* ReportCase, for every set of files, processings and reviews, and        *)
(* whatever the bounds.                                                    *)
(***************************************************************************)
EXTENDS ReportCase, TLAPS

-----------------------------------------------------------------------------
(* The invariant. *)

\* A processing is at work on a file that is attached.
ProcShape ==
    \A p \in Processings :
        /\ proc[p].todo \subseteq Attached
        /\ proc[p].at \in {"delete", "create"} =>
              /\ proc[p].file \in Attached
              /\ proc[p].extraction \in 1 .. MaxExtractions
              /\ proc[p].left \in 1 .. MaxFacts

\* A review decides on an attached file, and on facts of that file only.
RevShape ==
    \A r \in Reviews :
        /\ rev[r].at \in {"find", "update"} =>
              rev[r].file \in Attached /\ rev[r].decision \in Decision
        /\ rev[r].at = "update" =>
              \A x \in rev[r].rows \cup rev[r].due : x.file = rev[r].file
        /\ rev[r].at # "update" => rev[r].due = {}
        /\ \A x, y \in rev[r].due : x = y
        /\ rev[r].at \notin {"update", "gather"} => rev[r].rows = {}

\* Facts belong to attached files.
FactsAttached == \A x \in facts : x.id.file \in Attached

\* Somebody who is at work on a file will still deal with a fact of it.
Covered(x) ==
    \/ \E r \in Reviews : /\ Decides(r, x.id.file)
                          /\ rev[r].at = "find" \/ x.id \in rev[r].rows
    \/ \E p \in Processings : proc[p].at = "delete" /\ proc[p].file = x.id.file

\* All who are at work on an undisputed file want the status that it has.
WantedAgrees ==
    \A f \in CaseFiles \ disputed :
        /\ \A p \in Processings : Processes(p, f) => review[f] = "pending"
        /\ \A r \in Reviews : Decides(r, f) => review[f] = rev[r].decision

\* Its facts have that status, or somebody will see to it.
FactsFollow ==
    \A x \in facts :
        x.id.file \notin disputed => x.review = review[x.id.file] \/ Covered(x)

\* An approved fact is an asset, or becomes one in the next step of a review.
AssetsFollow ==
    \A x \in facts :
        x.review = "approved" /\ x.id.file \in SubjectFiles =>
            \/ x.id \in assets
            \/ \E r \in Reviews : Decides(r, x.id.file) /\ x.id \in rev[r].due

\* One processing at most is at work on a file that is not doubled, and what it
\* has deleted is replaced by facts of its own only.
OneAtATime ==
    \A f \in CaseFiles \ doubled :
        /\ \A p, q \in Processings : Processes(p, f) /\ Processes(q, f) => p = q
        /\ \A p \in Processings :
              Processes(p, f) /\ proc[p].at = "create" =>
                  \A x \in FactsOf(f) : x.id.extraction = proc[p].extraction

\* A review that has the case for itself rebuilds the report, and all others
\* are idle.
SoleShape ==
    \A r \in sole :
        /\ rev[r].at \in {"list", "gather", "summary"}
        /\ \A p \in Processings : proc[p].at = "idle"
        /\ \A s \in Reviews \ {r} : rev[s].at = "idle"

Shown == {i.fact : i \in assembly}

\* How far such a review has come.
SoleBuilds ==
    \A r \in sole :
        /\ \A i \in assembly : i.by = r
        /\ rev[r].at = "list" => assembly = {}
        /\ rev[r].at = "gather" =>
              /\ \A f \in rev[r].files : review[f] = "approved"
              /\ Shown \cup rev[r].rows \subseteq ApprovedFacts
              /\ \A x \in ApprovedFacts :
                    x \in Shown \cup rev[r].rows \/ x.file \in rev[r].files
        /\ rev[r].at = "summary" => Shown = ApprovedFacts

\* As long as nothing has put the case behind, no review has got beyond the
\* beginning of its decisions, and nothing is processed while it is ready.
QuietWhenReady ==
    ~ behind =>
        /\ \A r \in Reviews : rev[r].at \in {"idle", "decide"}
        /\ status = "ready" => \A p \in Processings : proc[p].at = "idle"

Shape     == TypeOK /\ ProcShape /\ RevShape /\ FactsAttached
Decisions == WantedAgrees /\ FactsFollow /\ AssetsFollow
Report    == SoleShape /\ SoleBuilds /\ QuietWhenReady /\ ReadyMeansAssembled

IInv == Shape /\ Decisions /\ OneAtATime /\ OneExtraction /\ Report

\* Requests that wait, and processings and reviews between two files.
LEMMA IdleStates ==
  /\ ProcIdle \in ProcState
  /\ RevIdle \in RevState
  /\ RevIdle.rows = {} /\ RevIdle.due = {}
  /\ \A t \in SUBSET CaseFiles :
        LET next == [ProcIdle EXCEPT !.at = "next", !.todo = t]
        IN  next \in ProcState /\ next.at = "next" /\ next.todo = t
  /\ LET decide == [RevIdle EXCEPT !.at = "decide"]
     IN  decide \in RevState /\ decide.at = "decide" /\ decide.rows = {} /\ decide.due = {}
  <1>1. ProcIdle \in ProcState
    BY ReportAssumption DEF ReportAssumption, ProcIdle, ProcState
  <1>2. RevIdle \in RevState /\ RevIdle.rows = {} /\ RevIdle.due = {}
    BY DEF RevIdle, RevState, ReviewStatus
  <1>3. ASSUME NEW t \in SUBSET CaseFiles
        PROVE  LET next == [ProcIdle EXCEPT !.at = "next", !.todo = t]
               IN  next \in ProcState /\ next.at = "next" /\ next.todo = t
    BY <1>1 DEF ProcState
  <1>4. LET decide == [RevIdle EXCEPT !.at = "decide"]
        IN  decide \in RevState /\ decide.at = "decide" /\ decide.rows = {} /\ decide.due = {}
    BY <1>2 DEF RevState
  <1>5. QED
    BY <1>1, <1>2, <1>3, <1>4

LEMMA InitIInv == Init => IInv
  <1> SUFFICES ASSUME Init PROVE IInv
    OBVIOUS
  <1> USE ReportAssumption DEF Init, ReportAssumption
  <1>1. TypeOK
    <2>1. proc \in [Processings -> ProcState] /\ rev \in [Reviews -> RevState]
      BY IdleStates
    <2>2. review \in [CaseFiles -> ReviewStatus \cup {"none"}] /\ copy \in [CaseFiles -> CaseStatus \cup {"none"}]
      OBVIOUS
    <2>3. extractions \in 0 .. MaxExtractions /\ status \in CaseStatus
      BY DEF CaseStatus
    <2>4. facts = {} /\ assembly = {} /\ assets = {} /\ disputed = {} /\ doubled = {} /\ sole = {}
      OBVIOUS
    <2>5. behind \in BOOLEAN
      OBVIOUS
    <2> QED
      BY <2>1, <2>2, <2>3, <2>4, <2>5 DEF TypeOK
  <1>2. ProcShape /\ RevShape /\ FactsAttached
    BY DEF ProcShape, RevShape, FactsAttached, ProcIdle, RevIdle
  <1>3. WantedAgrees /\ FactsFollow /\ AssetsFollow
    BY DEF WantedAgrees, FactsFollow, AssetsFollow, Processes, Decides, ProcIdle, RevIdle
  <1>4. OneAtATime /\ OneExtraction
    BY DEF OneAtATime, OneExtraction, Processes, FactsOf, ProcIdle
  <1>5. SoleShape /\ SoleBuilds /\ QuietWhenReady /\ ReadyMeansAssembled
    BY DEF SoleShape, SoleBuilds, QuietWhenReady, ReadyMeansAssembled
  <1>6. QED
    BY <1>1, <1>2, <1>3, <1>4, <1>5 DEF IInv, Shape, Decisions, Report

-----------------------------------------------------------------------------
(* What the steps do to the facts. *)

\* An update changes the status of the facts with the identity it names, and
\* brings no fact into being.
LEMMA UpdatedFacts ==
  ASSUME TypeOK, NEW r \in Reviews, NEW x, ReviewFact(r, x)
  PROVE  \A y \in facts' : \E z \in facts :
            /\ y.id = z.id
            /\ y.id # x => y = z
            /\ y.id = x => y.review = rev[r].decision
  <1> SUFFICES ASSUME NEW y \in facts'
               PROVE  \E z \in facts : /\ y.id = z.id
                                       /\ y.id # x => y = z
                                       /\ y.id = x => y.review = rev[r].decision
    OBVIOUS
  <1>1. PICK z \in facts : y = IF z.id = x THEN [z EXCEPT !.review = rev[r].decision] ELSE z
    BY DEF ReviewFact
  <1>2. z \in [id : FactId, review : ReviewStatus]
    BY DEF TypeOK, Fact
  <1>3. QED
    BY <1>1, <1>2

\* What a processing creates is a fact of an attached file.
LEMMA NextFactIsFact ==
  ASSUME Shape, NEW p \in Processings, proc[p].at = "create"
  PROVE  NextFact(p) \in FactId
  BY DEF Shape, ProcShape, NextFact, FactId, Attached

-----------------------------------------------------------------------------
(* Types and shapes. *)

LEMMA AttachKeepsShape ==
  ASSUME Shape, NEW f \in CaseFiles, Attach(f)
  PROVE  Shape'
  <1> USE DEF Attach, AttachRead, AttachRefused, AttachCreate, AttachSave, history, Shape
  <1>1. TypeOK'
    BY DEF TypeOK, CaseStatus, ReviewStatus
  <1>2. Attached \subseteq Attached'
    BY DEF TypeOK, Attached
  <1>3. UNCHANGED <<facts, proc, rev>>
    OBVIOUS
  <1>4. ProcShape' /\ RevShape' /\ FactsAttached'
    BY <1>2, <1>3 DEF ProcShape, RevShape, FactsAttached
  <1>5. QED
    BY <1>1, <1>4

LEMMA ProcessKeepsShape ==
  ASSUME Shape, NEW p \in Processings, Process(p)
  PROVE  Shape'
  <1> USE ReportAssumption DEF ReportAssumption, Process, history, Shape
  <1>1. Attached' = Attached
    <2>1. CASE \E f \in CaseFiles : ProcessMark(p, f)
      BY <2>1 DEF ProcessMark, Attached, ProcShape, TypeOK
    <2>2. CASE review' = review
      BY <2>2 DEF Attached
    <2> QED
      BY <2>1, <2>2 DEF ProcessBegin, ProcessList, ProcessDelete, ProcessCreate,
                        ProcessFail, ProcessEnd, ProcessSummary
  <1>2. RevShape'
    <2>1. rev' = rev
      BY DEF ProcessBegin, ProcessList, ProcessMark, ProcessDelete, ProcessCreate,
             ProcessFail, ProcessEnd, ProcessSummary
    <2> QED
      BY <1>1, <2>1 DEF RevShape
  <1>3. CASE ProcessBegin(p) \/ ProcessList(p) \/ ProcessFail(p) \/ ProcessEnd(p)
               \/ ProcessSummary(p)
    <2> USE <1>3 DEF ProcessBegin, ProcessList, ProcessFail, ProcessEnd, ProcessSummary
    <2>1. TypeOK'
      BY DEF TypeOK, CaseStatus, ProcState, ProcIdle, Attached
    <2>2. FactsAttached'
      BY <1>1 DEF FactsAttached
    <2>3. ASSUME ProcessFail(p) \/ ProcessSummary(p) PROVE ProcShape'
      BY <1>1, <2>3 DEF ProcShape, TypeOK, ProcIdle
    <2>4. ASSUME ProcessBegin(p) \/ ProcessEnd(p) PROVE ProcShape'
      BY <1>1, <2>4 DEF ProcShape, TypeOK, ProcState
    <2>5. ASSUME ProcessList(p) PROVE ProcShape'
      BY <1>1, <2>5 DEF ProcShape, TypeOK, ProcState
    <2>6. ProcShape'
      BY <1>3, <2>3, <2>4, <2>5
    <2> QED
      BY <1>2, <2>1, <2>2, <2>6
  <1>4. ASSUME NEW f \in CaseFiles, ProcessMark(p, f)
        PROVE  Shape'
    <2> USE <1>4 DEF ProcessMark
    <2>1. TypeOK'
      <3>1. review' \in [CaseFiles -> ReviewStatus \cup {"none"}]
        BY DEF TypeOK, ReviewStatus
      <3>2. extractions' \in 1 .. MaxExtractions
        BY DEF TypeOK
      <3>3. proc' \in [Processings -> ProcState]
        BY <3>2 DEF TypeOK, ProcState
      <3>4. disputed' \subseteq CaseFiles /\ doubled' \subseteq CaseFiles
        BY DEF TypeOK, Contend
      <3> QED
        BY <3>1, <3>2, <3>3, <3>4 DEF TypeOK
    <2>2. ProcShape'
      BY <1>1 DEF ProcShape, TypeOK
    <2>3. FactsAttached'
      BY <1>1 DEF FactsAttached
    <2> QED
      BY <1>2, <2>1, <2>2, <2>3
  <1>5. CASE ProcessDelete(p)
    <2> USE <1>5 DEF ProcessDelete
    <2>1. TypeOK'
      BY DEF TypeOK, ProcState
    <2>2. ProcShape' /\ FactsAttached'
      BY <1>1 DEF ProcShape, FactsAttached, TypeOK
    <2> QED
      BY <1>2, <2>1, <2>2
  <1>6. CASE ProcessCreate(p)
    <2> USE <1>6 DEF ProcessCreate
    <2> DEFINE new == [id |-> NextFact(p), review |-> "pending"]
    <2>1. new \in Fact
      BY NextFactIsFact DEF Fact, ReviewStatus
    <2>2. proc[p] \in ProcState /\ proc[p].left \in 1 .. MaxFacts
      BY DEF TypeOK, ProcShape
    <2> DEFINE next == [ProcIdle EXCEPT !.at = "next", !.todo = proc[p].todo]
               more == [proc[p] EXCEPT !.left = @ - 1]
    <2>3. ASSUME proc[p].left = 1
          PROVE  TypeOK' /\ ProcShape'
      <3>1. proc' = [proc EXCEPT ![p] = next]
        BY <2>3
      <3>2. next \in ProcState /\ next.at = "next" /\ next.todo = proc[p].todo
        BY <2>2, IdleStates DEF ProcState
      <3> HIDE DEF next
      <3>3. TypeOK'
        BY <2>1, <3>1, <3>2 DEF TypeOK
      <3>4. ProcShape'
        BY <1>1, <3>1, <3>2 DEF ProcShape, TypeOK
      <3> QED
        BY <3>3, <3>4
    <2>4. ASSUME proc[p].left # 1
          PROVE  TypeOK' /\ ProcShape'
      <3>1. proc' = [proc EXCEPT ![p] = more]
        BY <2>4
      <3>2. /\ more \in ProcState
            /\ more.todo = proc[p].todo /\ more.file = proc[p].file
            /\ more.extraction = proc[p].extraction /\ more.left \in 1 .. MaxFacts
        BY <2>2, <2>4 DEF ProcState
      <3> HIDE DEF more
      <3>3. TypeOK'
        BY <2>1, <3>1, <3>2 DEF TypeOK
      <3>4. ProcShape'
        BY <1>1, <3>1, <3>2 DEF ProcShape, TypeOK
      <3> QED
        BY <3>3, <3>4
    <2>5. TypeOK' /\ ProcShape'
      BY <2>3, <2>4
    <2>6. new.id.file \in Attached
      BY DEF NextFact, ProcShape
    <2>7. FactsAttached'
      BY <1>1, <2>6 DEF FactsAttached
    <2> QED
      BY <1>2, <2>5, <2>7
  <1>7. QED
    BY <1>3, <1>4, <1>5, <1>6

LEMMA ReviewKeepsShape ==
  ASSUME Shape, NEW r \in Reviews, Review(r)
  PROVE  Shape'
  <1> USE ReportAssumption DEF ReportAssumption, Review, history, Shape
  <1>0. rev[r] \in RevState
    BY DEF TypeOK
  <1>1. Attached' = Attached
    <2>1. CASE \E f \in CaseFiles, d \in Decision : ReviewMark(r, f, d)
      BY <2>1 DEF ReviewMark, Attached, TypeOK, Decision
    <2>2. CASE review' = review
      BY <2>2 DEF Attached
    <2> QED
      BY <2>1, <2>2 DEF ReviewBegin, ReviewFind, ReviewFact, ReviewItem, ReviewAsset,
            ReviewCutShort, ReviewClear, ReviewList, ReviewGather, ReviewReady, ReviewSummary
  <1>2. ProcShape'
    <2>1. proc' = proc
      BY DEF ReviewBegin, ReviewMark, ReviewFind, ReviewFact, ReviewItem, ReviewAsset,
            ReviewCutShort, ReviewClear, ReviewList, ReviewGather, ReviewReady, ReviewSummary
    <2> QED
      BY <1>1, <2>1 DEF ProcShape
  <1>3. CASE ReviewBegin(r) \/ ReviewCutShort(r) \/ ReviewClear(r) \/ ReviewList(r)
               \/ ReviewReady(r) \/ ReviewSummary(r)
    <2> USE <1>3 DEF ReviewBegin, ReviewCutShort, ReviewClear, ReviewList, ReviewReady,
                     ReviewSummary
    <2>1. TypeOK'
      <3>1. rev' \in [Reviews -> RevState]
        <4>1. CASE ReviewCutShort(r) \/ ReviewSummary(r)
          BY <4>1, IdleStates DEF TypeOK
        <4>2. CASE ReviewBegin(r) \/ ReviewClear(r) \/ ReviewReady(r)
          BY <1>0, <4>2 DEF TypeOK, RevState
        <4>3. CASE ReviewList(r)
          BY <1>0, <4>3 DEF TypeOK, RevState
        <4> QED
          BY <1>3, <4>1, <4>2, <4>3
      <3>2. sole' \subseteq Reviews /\ behind' \in BOOLEAN
        BY DEF TypeOK
      <3>3. status' \in CaseStatus
        BY DEF TypeOK, CaseStatus
      <3> QED
        BY <3>1, <3>2, <3>3 DEF TypeOK
    <2>2. RevShape' /\ FactsAttached'
      BY <1>1 DEF RevShape, FactsAttached, TypeOK, RevState, RevIdle
    <2> QED
      BY <1>2, <2>1, <2>2
  <1>4. ASSUME NEW f \in CaseFiles, NEW d \in Decision, ReviewMark(r, f, d)
        PROVE  Shape'
    <2> USE <1>4 DEF ReviewMark
    <2>1. review' \in [CaseFiles -> ReviewStatus \cup {"none"}]
      BY DEF TypeOK, ReviewStatus
    <2>2. rev' \in [Reviews -> RevState]
      BY DEF TypeOK, RevState, RevIdle, ReviewStatus
    <2>3. disputed' \subseteq CaseFiles
      BY DEF TypeOK, Contend
    <2>4. TypeOK'
      BY <2>1, <2>2, <2>3 DEF TypeOK
    <2>5. FactsAttached'
      BY <1>1 DEF FactsAttached
    <2>6. /\ rev'[r].at = "find" /\ rev'[r].file = f /\ rev'[r].decision = d
          /\ rev'[r].rows = {} /\ rev'[r].due = {}
          /\ \A s \in Reviews \ {r} : rev'[s] = rev[s]
      BY DEF TypeOK, RevIdle
    <2>8. f \in Attached
      OBVIOUS
    <2>7. RevShape'
      BY ONLY <1>1, <2>6, <2>8, Shape, d \in Decision, r \in Reviews DEF Shape, RevShape
    <2> QED
      BY <1>2, <2>4, <2>5, <2>7
  <1>5. CASE ReviewFind(r)
    <2>0. /\ rev[r].at = "find"
          /\ UNCHANGED <<status, review, facts, extractions, assembly, assets, copy, proc, history>>
      BY <1>5 DEF ReviewFind
    <2> DEFINE found == {x.id : x \in FactsOf(rev[r].file)}
    <2>1. found \subseteq FactId /\ \A x \in found : x.file = rev[r].file
      BY DEF TypeOK, Fact, FactsOf
    <2>2. rev' = [rev EXCEPT ![r] = IF found = {} THEN [RevIdle EXCEPT !.at = "decide"]
                                    ELSE [rev[r] EXCEPT !.at = "update", !.rows = found]]
      BY <1>5 DEF ReviewFind
    <2> DEFINE new == IF found = {} THEN [RevIdle EXCEPT !.at = "decide"]
                      ELSE [rev[r] EXCEPT !.at = "update", !.rows = found]
    <2> HIDE DEF found
    <2>3. /\ new \in RevState
          /\ new.at \in {"decide", "update"} /\ new.due = {}
          /\ new.at = "decide" => new.rows = {}
          /\ new.at = "update" => /\ new.file = rev[r].file
                                  /\ new.decision = rev[r].decision
                                  /\ new.rows = found
      BY <1>0, <2>0, <2>1, IdleStates DEF RevState, RevShape
    <2>4. rev' = [rev EXCEPT ![r] = new]
      BY <2>2
    <2> HIDE DEF new
    <2>5. TypeOK'
      BY <2>0, <2>3, <2>4 DEF TypeOK
    <2>7. RevShape'
      BY <1>1, <2>0, <2>1, <2>3, <2>4 DEF TypeOK, RevShape
    <2>6. FactsAttached'
      BY <1>1, <2>0 DEF FactsAttached
    <2> QED
      BY <1>2, <2>5, <2>6, <2>7
  <1>6. ASSUME NEW x \in rev[r].rows, ReviewFact(r, x)
        PROVE  Shape'
    <2> USE <1>6
    <2>1. x \in FactId /\ x.file = rev[r].file
      BY <1>0 DEF ReviewFact, RevShape, RevState
    <2> DEFINE new == IF rev[r].decision = "approved" /\ x.file \in SubjectFiles
                      THEN [rev[r] EXCEPT !.rows = @ \ {x}, !.due = {x}]
                      ELSE IF rev[r].rows = {x} THEN [RevIdle EXCEPT !.at = "decide"]
                      ELSE [rev[r] EXCEPT !.rows = @ \ {x}]
    <2>a. rev' = [rev EXCEPT ![r] = new]
      BY DEF ReviewFact
    <2>b. /\ new \in RevState
          /\ new.at \in {"decide", "update"}
          /\ new.at = "decide" => new.rows = {} /\ new.due = {}
          /\ new.at = "update" => /\ new.file = rev[r].file
                                  /\ new.decision = rev[r].decision
                                  /\ new.rows \cup new.due \subseteq rev[r].rows
                                  /\ \A y, z \in new.due : y = z
      <3>1. rev[r].at = "update" /\ rev[r].due = {}
        BY DEF ReviewFact
      <3>2. CASE rev[r].decision = "approved" /\ x.file \in SubjectFiles
        BY <1>0, <2>1, <3>1, <3>2 DEF RevState
      <3>3. CASE /\ ~ (rev[r].decision = "approved" /\ x.file \in SubjectFiles)
                 /\ rev[r].rows = {x}
        BY <3>3, IdleStates
      <3>4. CASE /\ ~ (rev[r].decision = "approved" /\ x.file \in SubjectFiles)
                 /\ rev[r].rows # {x}
        BY <1>0, <2>1, <3>1, <3>4 DEF RevState
      <3> QED
        BY <3>2, <3>3, <3>4
    <2> HIDE DEF new
    <2>2. rev' \in [Reviews -> RevState]
      BY <2>a, <2>b DEF TypeOK
    <2>3. facts' \subseteq Fact
      <3> SUFFICES ASSUME NEW y \in facts' PROVE y \in Fact
        OBVIOUS
      <3>1. PICK z \in facts : y = IF z.id = x THEN [z EXCEPT !.review = rev[r].decision] ELSE z
        BY DEF ReviewFact
      <3> QED
        BY <1>0, <3>1 DEF TypeOK, Fact, RevState
    <2>4. TypeOK'
      BY <2>2, <2>3 DEF ReviewFact, TypeOK
    <2>5. RevShape'
      <3>1. rev[r].at = "update"
        BY DEF ReviewFact
      <3> QED
        BY <1>1, <2>a, <2>b, <3>1 DEF RevShape, TypeOK
    <2>6. FactsAttached'
      BY <1>1, UpdatedFacts DEF FactsAttached
    <2> QED
      BY <1>2, <2>4, <2>5, <2>6
  <1>7. ASSUME NEW x \in rev[r].due, ReviewAsset(r, x)
        PROVE  Shape'
    <2> USE <1>7 DEF ReviewAsset
    <2>1. TypeOK'
      BY <1>0 DEF TypeOK, RevState, RevIdle, ReviewStatus
    <2>2. RevShape' /\ FactsAttached'
      BY <1>0, <1>1 DEF RevShape, FactsAttached, TypeOK, RevState, RevIdle
    <2> QED
      BY <1>2, <2>1, <2>2
  <1>8. ASSUME NEW f \in CaseFiles, ReviewGather(r, f)
        PROVE  Shape'
    <2> USE <1>8 DEF ReviewGather
    <2>1. {x.id : x \in {y \in FactsOf(f) : y.review = "approved"}} \subseteq FactId
      BY DEF TypeOK, Fact, FactsOf
    <2>2. TypeOK'
      BY <1>0, <2>1 DEF TypeOK, RevState
    <2>3. FactsAttached'
      BY <1>1 DEF FactsAttached
    <2>4. /\ rev[r].at = "gather"
          /\ rev'[r].at = "gather" /\ rev'[r].due = rev[r].due
          /\ \A s \in Reviews \ {r} : rev'[s] = rev[s]
      BY <1>0 DEF TypeOK, RevState
    <2>5. RevShape'
      BY ONLY <1>1, <2>4, Shape, r \in Reviews DEF Shape, RevShape
    <2> QED
      BY <1>2, <2>2, <2>3, <2>5
  <1>9. ASSUME NEW x \in rev[r].rows, ReviewItem(r, x)
        PROVE  Shape'
    <2> USE <1>9 DEF ReviewItem
    <2>1. [by |-> r, fact |-> x] \in [by : Reviews, fact : FactId]
      BY <1>0 DEF RevState
    <2>2. TypeOK'
      BY <1>0, <2>1 DEF TypeOK, RevState
    <2>3. RevShape' /\ FactsAttached'
      BY <1>0, <1>1 DEF RevShape, FactsAttached, TypeOK, RevState
    <2> QED
      BY <1>2, <2>2, <2>3
  <1>10. QED
    BY <1>3, <1>4, <1>5, <1>6, <1>7, <1>8, <1>9

-----------------------------------------------------------------------------
(* Decisions and facts. *)

LEMMA AttachKeepsDecisions ==
  ASSUME Shape, Decisions, NEW f \in CaseFiles, Attach(f)
  PROVE  Decisions'
  <1> USE DEF Decisions
  <1>1. UNCHANGED <<facts, assets, proc, rev, disputed>>
    BY DEF Attach, AttachRead, AttachRefused, AttachCreate, AttachSave, history
  <1>2. \A g \in Attached : review'[g] = review[g]
    BY DEF Attach, AttachRead, AttachRefused, AttachCreate, AttachSave, Attached, Shape, TypeOK
  <1>3. WantedAgrees'
    <2>1. \A g \in CaseFiles, p \in Processings : Processes(p, g) => g \in Attached
      BY DEF Processes, Shape, ProcShape
    <2>2. \A g \in CaseFiles, r \in Reviews : Decides(r, g) => g \in Attached
      BY DEF Decides, Shape, RevShape
    <2> QED
      BY <1>1, <1>2, <2>1, <2>2 DEF WantedAgrees, Processes, Decides
  <1>4. FactsFollow' /\ AssetsFollow'
    BY <1>1, <1>2 DEF Shape, FactsAttached, FactsFollow, AssetsFollow, Covered, Decides
  <1>5. QED
    BY <1>3, <1>4

\* Who comes to an undisputed file finds nobody there, or only others who want
\* the same of it.
LEMMA Contention ==
  ASSUME NEW f \in CaseFiles, NEW want, Contend(f, want)
  PROVE  /\ \A g \in CaseFiles \ {f} : g \in disputed' <=> g \in disputed
         /\ f \notin disputed' =>
               /\ \A p \in Processings : Processes(p, f) => f \notin disputed /\ want = "pending"
               /\ \A r \in Reviews : Decides(r, f) => f \notin disputed /\ want = rev[r].decision
  <1>1. \A p \in Processings : Processes(p, f) => "pending" \in Wanted(f)
    BY DEF Wanted
  <1>2. \A r \in Reviews : Decides(r, f) => rev[r].decision \in Wanted(f)
    BY DEF Wanted
  <1>3. f \notin disputed' => Wanted(f) = {} \/ (f \notin disputed /\ Wanted(f) \subseteq {want})
    BY DEF Contend
  <1>4. \A g \in CaseFiles \ {f} : g \in disputed' <=> g \in disputed
    BY DEF Contend
  <1>5. QED
    BY <1>1, <1>2, <1>3, <1>4

LEMMA ProcessKeepsDecisions ==
  ASSUME Shape, Decisions, NEW p \in Processings, Process(p)
  PROVE  Decisions'
  <1> USE DEF Process, history, Shape, Decisions
  <1>0. proc[p] \in ProcState
    BY DEF TypeOK
  <1>1. UNCHANGED <<rev, assets>>
    BY DEF ProcessBegin, ProcessList, ProcessMark, ProcessDelete, ProcessCreate, ProcessFail,
           ProcessEnd, ProcessSummary
  <1>2. \A r \in Reviews, g \in CaseFiles : Decides(r, g)' <=> Decides(r, g)
    BY <1>1 DEF Decides
  <1>3. CASE ProcessBegin(p) \/ ProcessList(p) \/ ProcessFail(p) \/ ProcessEnd(p)
               \/ ProcessSummary(p)
    <2> USE <1>3 DEF ProcessBegin, ProcessList, ProcessFail, ProcessEnd, ProcessSummary
    <2>1. UNCHANGED <<review, facts, disputed>>
      OBVIOUS
    <2>2. proc[p].at \notin {"delete", "create"} /\ proc'[p].at \notin {"delete", "create"}
      BY <1>0 DEF TypeOK, ProcIdle, ProcState
    <2>3. \A q \in Processings \ {p} : proc'[q] = proc[q]
      BY DEF TypeOK
    <2>4. \A q \in Processings, g \in CaseFiles : Processes(q, g)' <=> Processes(q, g)
      BY <2>2, <2>3 DEF Processes
    <2>5. \A x \in facts : Covered(x) => Covered(x)'
      BY <1>1, <1>2, <2>2, <2>3 DEF Covered, TypeOK, Fact, FactId
    <2>6. WantedAgrees'
      BY <1>1, <1>2, <2>1, <2>4 DEF WantedAgrees
    <2>7. FactsFollow'
      BY <2>1, <2>5 DEF FactsFollow
    <2>8. AssetsFollow'
      BY <1>1, <1>2, <2>1 DEF AssetsFollow, TypeOK, Fact, FactId
    <2> QED
      BY <2>6, <2>7, <2>8
  <1>4. ASSUME NEW f \in CaseFiles, ProcessMark(p, f)
        PROVE  Decisions'
    <2> USE <1>4 DEF ProcessMark
    <2>1. UNCHANGED facts
      OBVIOUS
    <2>2. /\ review'[f] = "pending"
          /\ \A g \in CaseFiles \ {f} : review'[g] = review[g]
      BY DEF TypeOK
    <2>3. /\ proc[p].at = "next"
          /\ proc'[p].at = "delete" /\ proc'[p].file = f
          /\ \A q \in Processings \ {p} : proc'[q] = proc[q]
      BY DEF TypeOK
    <2>4. /\ \A g \in CaseFiles \ {f} : g \in disputed' <=> g \in disputed
          /\ f \notin disputed' => \A r \in Reviews : ~ Decides(r, f) \/ rev[r].decision = "pending"
      BY Contention
    <2>5. WantedAgrees'
      BY <1>1, <1>2, <2>2, <2>3, <2>4 DEF WantedAgrees, Processes
    <2>6. \A x \in facts : x.id.file = f => Covered(x)'
      BY <2>3 DEF Covered
    <2>7. \A x \in facts : Covered(x) => Covered(x)'
      BY <1>1, <1>2, <2>3 DEF Covered, TypeOK, Fact, FactId
    <2>8. FactsFollow'
      BY <2>1, <2>2, <2>4, <2>6, <2>7 DEF FactsFollow, TypeOK, Fact, FactId
    <2>9. AssetsFollow'
      BY <1>1, <1>2, <2>1 DEF AssetsFollow, TypeOK, Fact, FactId
    <2> QED
      BY <2>5, <2>8, <2>9
  <1>5. CASE ProcessDelete(p)
    <2> USE <1>5 DEF ProcessDelete
    <2>1. /\ facts' \subseteq facts
          /\ \A x \in facts' : x.id.file # proc[p].file
          /\ UNCHANGED <<review, disputed>>
      BY DEF FactsOf
    <2>2. /\ proc[p].at = "delete" /\ proc'[p].at = "create" /\ proc'[p].file = proc[p].file
          /\ \A q \in Processings \ {p} : proc'[q] = proc[q]
      BY <1>0 DEF TypeOK, ProcState
    <2>3. \A q \in Processings, g \in CaseFiles : Processes(q, g)' <=> Processes(q, g)
      BY <2>2 DEF Processes
    <2>4. \A x \in facts' : Covered(x) => Covered(x)'
      BY <1>1, <1>2, <2>1, <2>2 DEF Covered, TypeOK, Fact, FactId
    <2>5. WantedAgrees'
      BY <1>1, <1>2, <2>1, <2>3 DEF WantedAgrees
    <2>6. FactsFollow'
      BY <2>1, <2>4 DEF FactsFollow
    <2>7. AssetsFollow'
      BY <1>1, <1>2, <2>1 DEF AssetsFollow, TypeOK, Fact, FactId
    <2> QED
      BY <2>5, <2>6, <2>7
  <1>6. CASE ProcessCreate(p)
    <2> USE <1>6 DEF ProcessCreate
    <2> DEFINE new == [id |-> NextFact(p), review |-> "pending"]
    <2>1. facts' = facts \cup {new} /\ UNCHANGED <<review, disputed>>
      OBVIOUS
    <2>2. /\ proc[p].at = "create"
          /\ proc'[p].at = "create" => proc'[p].file = proc[p].file
          /\ proc'[p].at # "delete"
          /\ \A q \in Processings \ {p} : proc'[q] = proc[q]
      <3>1. proc[p].at = "create"
        OBVIOUS
      <3>2. \A q \in Processings \ {p} : proc'[q] = proc[q]
        BY DEF TypeOK
      <3>3. CASE proc[p].left = 1
        <4>1. proc'[p] = [ProcIdle EXCEPT !.at = "next", !.todo = proc[p].todo]
          BY <3>3 DEF TypeOK
        <4>3. proc[p].todo \in SUBSET CaseFiles
          BY <1>0 DEF ProcState
        <4>2. proc'[p].at = "next"
          BY <4>1, <4>3, IdleStates
        <4> QED
          BY <3>1, <3>2, <4>2
      <3>4. CASE proc[p].left # 1
        <4>1. proc'[p] = [proc[p] EXCEPT !.left = proc[p].left - 1]
          BY <3>4 DEF TypeOK
        <4> QED
          BY <1>0, <3>1, <3>2, <4>1 DEF ProcState
      <3> QED
        BY <3>3, <3>4
    <2>3. \A q \in Processings, g \in CaseFiles : Processes(q, g)' => Processes(q, g)
      BY <2>2 DEF Processes
    <2>4. \A x \in facts : Covered(x) => Covered(x)'
      BY <1>1, <1>2, <2>2 DEF Covered, TypeOK, Fact, FactId
    <2>5. /\ new.review = "pending" /\ new.id.file = proc[p].file
          /\ proc[p].file \in CaseFiles /\ Processes(p, proc[p].file)
      BY <2>2 DEF NextFact, ProcShape, Attached, Processes
    <2> HIDE DEF new
    <2>6. WantedAgrees'
      BY <1>1, <1>2, <2>1, <2>3 DEF WantedAgrees
    <2>7. new.id.file \notin disputed => new.review = review[new.id.file]
      BY <2>5 DEF WantedAgrees
    <2>8. FactsFollow'
      BY <2>1, <2>4, <2>7 DEF FactsFollow
    <2>9. AssetsFollow'
      BY <1>1, <1>2, <2>1, <2>5 DEF AssetsFollow, TypeOK, Fact, FactId
    <2> QED
      BY <2>6, <2>8, <2>9
  <1>7. QED
    BY <1>3, <1>4, <1>5, <1>6

LEMMA ReviewKeepsDecisions ==
  ASSUME Shape, Decisions, NEW r \in Reviews, Review(r)
  PROVE  Decisions'
  <1> USE DEF Review, history, Shape, Decisions
  <1>0. rev[r] \in RevState
    BY DEF TypeOK
  <1>1. UNCHANGED proc
    BY DEF ReviewBegin, ReviewMark, ReviewFind, ReviewFact, ReviewItem, ReviewAsset,
           ReviewCutShort, ReviewClear, ReviewList, ReviewGather, ReviewReady, ReviewSummary
  <1>2. \A p \in Processings, g \in CaseFiles : Processes(p, g)' <=> Processes(p, g)
    BY <1>1 DEF Processes
  <1>3. \A x \in facts : x.id \in FactId /\ x.id.file \in CaseFiles
    BY DEF TypeOK, Fact, FactId
  <1>4. ASSUME \/ ReviewBegin(r) \/ ReviewCutShort(r) \/ ReviewClear(r) \/ ReviewList(r)
               \/ ReviewReady(r) \/ ReviewSummary(r)
               \/ \E f \in CaseFiles : ReviewGather(r, f)
               \/ \E x \in rev[r].rows : ReviewItem(r, x)
        PROVE  Decisions'
    <2> USE <1>4 DEF ReviewBegin, ReviewCutShort, ReviewClear, ReviewList, ReviewReady,
                     ReviewSummary, ReviewGather, ReviewItem
    <2>1. UNCHANGED <<review, facts, disputed, assets>>
      OBVIOUS
    <2>2. rev[r].at \notin {"find", "update"}
      OBVIOUS
    <2>3. rev'[r].at \notin {"find", "update"}
      <3>1. CASE ReviewCutShort(r) \/ ReviewSummary(r)
        BY <3>1 DEF TypeOK, RevIdle
      <3>2. CASE ReviewBegin(r) \/ ReviewClear(r) \/ ReviewReady(r)
        BY <1>0, <3>2 DEF TypeOK, RevState
      <3>3. CASE ReviewList(r)
        BY <1>0, <3>3 DEF TypeOK, RevState
      <3>4. ASSUME NEW f \in CaseFiles, ReviewGather(r, f)
            PROVE  rev'[r].at = "gather"
        BY <1>0, <3>4 DEF TypeOK, RevState
      <3>5. ASSUME NEW x \in rev[r].rows, ReviewItem(r, x)
            PROVE  rev'[r].at = "gather"
        BY <1>0, <3>5 DEF TypeOK, RevState
      <3> QED
        BY <1>4, <3>1, <3>2, <3>3, <3>4, <3>5
    <2>4. \A s \in Reviews \ {r} : rev'[s] = rev[s]
      BY DEF TypeOK
    <2>5. \A s \in Reviews, g \in CaseFiles :
             /\ Decides(s, g)' <=> Decides(s, g)
             /\ Decides(s, g) => rev'[s] = rev[s]
      BY <2>2, <2>3, <2>4 DEF Decides
    <2>6. WantedAgrees'
      BY <1>2, <2>1, <2>5 DEF WantedAgrees
    <2>7. \A x \in facts : Covered(x) => Covered(x)'
      BY <1>1, <1>3, <2>5 DEF Covered
    <2>8. FactsFollow' /\ AssetsFollow'
      BY <1>3, <2>1, <2>5, <2>7 DEF FactsFollow, AssetsFollow
    <2> QED
      BY <2>6, <2>8
  <1>5. ASSUME NEW f \in CaseFiles, NEW d \in Decision, ReviewMark(r, f, d)
        PROVE  Decisions'
    <2> USE <1>5 DEF ReviewMark
    <2>1. UNCHANGED <<facts, assets>>
      OBVIOUS
    <2>2. /\ review'[f] = d
          /\ \A g \in CaseFiles \ {f} : review'[g] = review[g]
      BY DEF TypeOK
    <2>3. /\ rev[r].at = "decide"
          /\ rev'[r].at = "find" /\ rev'[r].file = f /\ rev'[r].decision = d
          /\ \A s \in Reviews \ {r} : rev'[s] = rev[s]
      BY DEF TypeOK, RevIdle
    <2>4. /\ \A g \in CaseFiles \ {f} : g \in disputed' <=> g \in disputed
          /\ f \notin disputed' =>
                /\ \A p \in Processings : Processes(p, f) => d = "pending"
                /\ \A s \in Reviews : Decides(s, f) => d = rev[s].decision
      BY Contention
    <2>5. WantedAgrees'
      <3> SUFFICES ASSUME NEW g \in CaseFiles, g \notin disputed'
                   PROVE  /\ \A p \in Processings : Processes(p, g)' => review'[g] = "pending"
                          /\ \A s \in Reviews : Decides(s, g)' => review'[g] = rev'[s].decision
        BY DEF WantedAgrees
      <3>1. CASE g = f
        BY <1>2, <2>2, <2>3, <2>4, <3>1 DEF Decides
      <3>2. CASE g # f
        <4>1. g \notin disputed /\ review'[g] = review[g]
          BY <2>2, <2>4, <3>2
        <4>2. \A s \in Reviews : Decides(s, g)' => Decides(s, g) /\ rev'[s] = rev[s]
          BY <2>3, <3>2 DEF Decides
        <4> QED
          BY <1>2, <4>1, <4>2 DEF WantedAgrees
      <3> QED
        BY <3>1, <3>2
    <2>6. \A x \in facts : x.id.file = f => Covered(x)'
      BY <2>3 DEF Covered, Decides
    <2>7. \A x \in facts : Covered(x) => Covered(x)'
      BY <1>1, <1>3, <2>3 DEF Covered, Decides
    <2>8. FactsFollow'
      BY <1>3, <2>1, <2>2, <2>4, <2>6, <2>7 DEF FactsFollow
    <2>9. AssetsFollow'
      BY <1>3, <2>1, <2>3 DEF AssetsFollow, Decides
    <2> QED
      BY <2>5, <2>8, <2>9
  <1>6. ASSUME ReviewFind(r)
        PROVE  Decisions'
    <2> DEFINE found == {x.id : x \in FactsOf(rev[r].file)}
    <2>1. /\ rev[r].at = "find"
          /\ UNCHANGED <<review, facts, assets, disputed>>
      BY <1>6 DEF ReviewFind
    <2>2. rev[r].due = {}
      BY <2>1 DEF RevShape
    <2>3. \A s \in Reviews \ {r} : rev'[s] = rev[s]
      BY <1>6 DEF ReviewFind, TypeOK
    <2>4. rev'[r] = IF found = {} THEN [RevIdle EXCEPT !.at = "decide"]
                    ELSE [rev[r] EXCEPT !.at = "update", !.rows = found]
      BY <1>6 DEF ReviewFind, TypeOK
    <2>5. \A x \in facts : x.id.file = rev[r].file => x.id \in found
      BY DEF FactsOf
    <2> HIDE DEF found
    <2>6. CASE found = {}
      <3>1. rev'[r].at = "decide"
        BY <2>4, <2>6, IdleStates
      <3>2. \A x \in facts : x.id.file # rev[r].file
        BY <2>5, <2>6
      <3>3. WantedAgrees'
        BY <1>2, <2>1, <2>3, <3>1 DEF WantedAgrees, Decides
      <3>4. \A x \in facts : Covered(x) => Covered(x)'
        BY <1>1, <2>3, <3>2 DEF Covered, Decides
      <3>5. FactsFollow' /\ AssetsFollow'
        BY <2>1, <2>3, <3>2, <3>4 DEF FactsFollow, AssetsFollow, Decides
      <3> QED
        BY <3>3, <3>5
    <2>7. CASE found # {}
      <3>1. /\ rev'[r].at = "update" /\ rev'[r].rows = found
            /\ rev'[r].file = rev[r].file /\ rev'[r].decision = rev[r].decision
        BY <1>0, <2>4, <2>7 DEF RevState
      <3>2. \A s \in Reviews, g \in CaseFiles :
               /\ Decides(s, g)' <=> Decides(s, g)
               /\ rev'[s].decision = rev[s].decision
        BY <2>1, <2>3, <3>1 DEF Decides
      <3>3. WantedAgrees'
        BY <1>2, <2>1, <3>2 DEF WantedAgrees
      <3>4. \A x \in facts : Covered(x) => Covered(x)'
        BY <1>1, <1>3, <2>3, <2>5, <3>1, <3>2 DEF Covered, Decides
      <3>5. FactsFollow' /\ AssetsFollow'
        BY <1>3, <2>1, <2>2, <2>3, <3>2, <3>4 DEF FactsFollow, AssetsFollow
      <3> QED
        BY <3>3, <3>5
    <2> QED
      BY <2>6, <2>7
  <1>7. ASSUME NEW x \in rev[r].rows, ReviewFact(r, x)
        PROVE  Decisions'
    <2>1. /\ rev[r].at = "update" /\ rev[r].due = {}
          /\ UNCHANGED <<review, assets, disputed>>
      BY <1>7 DEF ReviewFact
    <2>2. rev[r].file \in CaseFiles /\ x.file = rev[r].file /\ Decides(r, rev[r].file)
      BY <2>1 DEF RevShape, Attached, Decides
    <2>3. \A s \in Reviews \ {r} : rev'[s] = rev[s]
      BY <1>7 DEF ReviewFact, TypeOK
    <2>4. /\ rev'[r].at \in {"decide", "update"}
          /\ rev'[r].at = "decide" => rev[r].rows = {x}
          /\ rev'[r].at = "update" => /\ rev'[r].file = rev[r].file
                                     /\ rev'[r].decision = rev[r].decision
                                     /\ rev'[r].rows = rev[r].rows \ {x}
          /\ rev[r].decision = "approved" /\ x.file \in SubjectFiles =>
                rev'[r].at = "update" /\ rev'[r].due = {x}
      <3>1. rev'[r] = IF rev[r].decision = "approved" /\ x.file \in SubjectFiles
                      THEN [rev[r] EXCEPT !.rows = rev[r].rows \ {x}, !.due = {x}]
                      ELSE IF rev[r].rows = {x} THEN [RevIdle EXCEPT !.at = "decide"]
                      ELSE [rev[r] EXCEPT !.rows = rev[r].rows \ {x}]
        BY <1>7 DEF ReviewFact, TypeOK
      <3>2. CASE rev[r].decision = "approved" /\ x.file \in SubjectFiles
        BY <1>0, <2>1, <3>1, <3>2 DEF RevState
      <3>3. CASE /\ ~ (rev[r].decision = "approved" /\ x.file \in SubjectFiles)
                 /\ rev[r].rows = {x}
        BY <3>1, <3>3, IdleStates
      <3>4. CASE /\ ~ (rev[r].decision = "approved" /\ x.file \in SubjectFiles)
                 /\ rev[r].rows # {x}
        BY <1>0, <2>1, <3>1, <3>4 DEF RevState
      <3> QED
        BY <3>2, <3>3, <3>4
    <2>5. \A s \in Reviews, g \in CaseFiles :
             Decides(s, g)' => Decides(s, g) /\ rev'[s].decision = rev[s].decision
      BY <2>1, <2>3, <2>4 DEF Decides
    <2>6. WantedAgrees'
      BY <1>2, <2>1, <2>5 DEF WantedAgrees
    <2>7. \A z \in facts : z.id # x /\ Covered(z) => Covered(z)'
      BY <1>1, <2>1, <2>3, <2>4 DEF Covered, Decides
    <2>8. FactsFollow'
      <3> SUFFICES ASSUME NEW y \in facts', y.id.file \notin disputed
                   PROVE  y.review = review[y.id.file] \/ Covered(y)'
        BY <2>1 DEF FactsFollow
      <3>1. PICK z \in facts : /\ y.id = z.id
                               /\ y.id # x => y = z
                               /\ y.id = x => y.review = rev[r].decision
        BY <1>7, UpdatedFacts
      <3>2. CASE y.id = x
        BY <2>2, <3>1, <3>2 DEF WantedAgrees
      <3>3. CASE y.id # x
        BY <2>7, <3>1, <3>3 DEF FactsFollow
      <3> QED
        BY <3>2, <3>3
    <2>9. AssetsFollow'
      <3> SUFFICES ASSUME NEW y \in facts', y.review = "approved", y.id.file \in SubjectFiles
                   PROVE  \/ y.id \in assets
                          \/ \E s \in Reviews : Decides(s, y.id.file)' /\ y.id \in rev'[s].due
        BY <2>1 DEF AssetsFollow
      <3>1. PICK z \in facts : /\ y.id = z.id
                               /\ y.id # x => y = z
                               /\ y.id = x => y.review = rev[r].decision
        BY <1>7, UpdatedFacts
      <3>2. CASE y.id = x
        BY <2>2, <2>4, <3>1, <3>2 DEF Decides
      <3>3. CASE y.id # x
        BY <2>1, <2>3, <3>1, <3>3 DEF AssetsFollow, Decides
      <3> QED
        BY <3>2, <3>3
    <2> QED
      BY <2>6, <2>8, <2>9
  <1>8. ASSUME NEW x \in rev[r].due, ReviewAsset(r, x)
        PROVE  Decisions'
    <2> USE <1>8 DEF ReviewAsset
    <2>1. rev[r].at = "update" /\ assets' = assets \cup {x} /\ UNCHANGED <<review, facts, disputed>>
      OBVIOUS
    <2>2. \A s \in Reviews \ {r} : rev'[s] = rev[s]
      BY DEF TypeOK
    <2>3. /\ rev'[r].at \in {"decide", "update"}
          /\ rev'[r].at = "decide" => rev[r].rows = {}
          /\ rev'[r].at = "update" => /\ rev'[r].file = rev[r].file
                                     /\ rev'[r].decision = rev[r].decision
                                     /\ rev'[r].rows = rev[r].rows
      <3>1. CASE rev[r].rows = {}
        BY <3>1, IdleStates DEF TypeOK
      <3>2. CASE rev[r].rows # {}
        BY <1>0, <3>2 DEF TypeOK, RevState
      <3> QED
        BY <3>1, <3>2
    <2>4. \A s \in Reviews, g \in CaseFiles :
             Decides(s, g)' => Decides(s, g) /\ rev'[s].decision = rev[s].decision
      BY <2>1, <2>2, <2>3 DEF Decides
    <2>5. WantedAgrees'
      BY <1>2, <2>1, <2>4 DEF WantedAgrees
    <2>6. \A z \in facts : Covered(z) => Covered(z)'
      BY <1>1, <2>1, <2>2, <2>3 DEF Covered, Decides
    <2>7. FactsFollow'
      BY <2>1, <2>6 DEF FactsFollow
    <2>8. AssetsFollow'
      BY <2>1, <2>2 DEF AssetsFollow, Decides, RevShape
    <2> QED
      BY <2>5, <2>7, <2>8
  <1>9. QED
    BY <1>4, <1>5, <1>6, <1>7, <1>8

-----------------------------------------------------------------------------
(* Extractions. *)

\* What a step of anybody but a processing leaves: the files of the facts and
\* their extractions.
LEMMA OthersKeepExtractions ==
  ASSUME Shape, OneAtATime, OneExtraction, UNCHANGED <<proc, doubled>>,
         \A x \in facts' : \E y \in facts : x.id = y.id
  PROVE  OneAtATime' /\ OneExtraction'
  <1>1. \A p \in Processings, f \in CaseFiles : Processes(p, f)' <=> Processes(p, f)
    BY DEF Processes
  <1>2. \A f \in CaseFiles : \A x \in FactsOf(f)' : \E y \in FactsOf(f) : x.id = y.id
    BY DEF FactsOf
  <1>3. QED
    BY <1>1, <1>2 DEF OneAtATime, OneExtraction

LEMMA ProcessKeepsExtractions ==
  ASSUME Shape, OneAtATime, OneExtraction, NEW p \in Processings, Process(p)
  PROVE  OneAtATime' /\ OneExtraction'
  <1> USE DEF Process, history, Shape
  <1>0. proc[p] \in ProcState /\ \A q \in Processings \ {p} : proc'[q] = proc[q]
    BY DEF TypeOK, ProcessBegin, ProcessList, ProcessMark, ProcessDelete, ProcessCreate,
           ProcessFail, ProcessEnd, ProcessSummary
  <1>1. CASE ProcessBegin(p) \/ ProcessList(p) \/ ProcessFail(p) \/ ProcessEnd(p)
               \/ ProcessSummary(p)
    <2> USE <1>1 DEF ProcessBegin, ProcessList, ProcessFail, ProcessEnd, ProcessSummary
    <2>1. UNCHANGED <<facts, doubled>>
      OBVIOUS
    <2>2. proc[p].at \notin {"delete", "create"} /\ proc'[p].at \notin {"delete", "create"}
      BY <1>0 DEF TypeOK, ProcIdle, ProcState
    <2>3. \A q \in Processings, g \in CaseFiles :
             /\ Processes(q, g)' <=> Processes(q, g)
             /\ Processes(q, g) => proc'[q] = proc[q]
      BY <1>0, <2>2 DEF Processes
    <2>4. \A g \in CaseFiles : FactsOf(g)' = FactsOf(g)
      BY <2>1 DEF FactsOf
    <2> QED
      BY <2>1, <2>3, <2>4 DEF OneAtATime, OneExtraction
  <1>2. ASSUME NEW f \in CaseFiles, ProcessMark(p, f)
        PROVE  OneAtATime' /\ OneExtraction'
    <2> USE <1>2 DEF ProcessMark
    <2>1. /\ proc[p].at = "next"
          /\ proc'[p].at = "delete" /\ proc'[p].file = f
      BY DEF TypeOK
    <2>2. /\ \A g \in CaseFiles \ {f} : g \in doubled' <=> g \in doubled
          /\ f \notin doubled' => \A q \in Processings : ~ Processes(q, f)
      OBVIOUS
    <2>3. \A q \in Processings, g \in CaseFiles :
             Processes(q, g)' <=> Processes(q, g) \/ (q = p /\ g = f)
      BY <1>0, <2>1 DEF Processes
    <2>4. \A g \in CaseFiles : FactsOf(g)' = FactsOf(g)
      BY DEF FactsOf
    <2>5. OneAtATime'
      <3> SUFFICES ASSUME NEW g \in CaseFiles, g \notin doubled'
                   PROVE  /\ \A q, s \in Processings : Processes(q, g)' /\ Processes(s, g)' => q = s
                          /\ \A q \in Processings : Processes(q, g)' /\ proc'[q].at = "create" =>
                                \A x \in FactsOf(g)' : x.id.extraction = proc'[q].extraction
        BY DEF OneAtATime
      <3>1. CASE g = f
        BY <2>1, <2>2, <2>3, <3>1
      <3>2. CASE g # f
        BY <1>0, <2>1, <2>2, <2>3, <2>4, <3>2 DEF OneAtATime
      <3> QED
        BY <3>1, <3>2
    <2>6. OneExtraction'
      BY <2>2, <2>3, <2>4 DEF OneExtraction
    <2> QED
      BY <2>5, <2>6
  <1>3. CASE ProcessDelete(p)
    <2> USE <1>3 DEF ProcessDelete
    <2>1. /\ proc[p].at = "delete" /\ proc'[p].at = "create" /\ proc'[p].file = proc[p].file
          /\ doubled' = doubled
      BY <1>0 DEF TypeOK, ProcState
    <2>2. \A q \in Processings, g \in CaseFiles : Processes(q, g)' <=> Processes(q, g)
      BY <1>0, <2>1 DEF Processes
    <2>3. \A g \in CaseFiles : FactsOf(g)' \subseteq FactsOf(g) /\ (g = proc[p].file => FactsOf(g)' = {})
      BY DEF FactsOf
    <2>4. OneAtATime'
      BY <1>0, <2>1, <2>2, <2>3 DEF OneAtATime, Processes
    <2>5. OneExtraction'
      BY <2>1, <2>2, <2>3 DEF OneExtraction
    <2> QED
      BY <2>4, <2>5
  <1>4. CASE ProcessCreate(p)
    <2>0. PICK f \in CaseFiles : f = proc[p].file
      BY <1>4 DEF ProcessCreate, ProcShape, Attached
    <2> DEFINE new == [id |-> NextFact(p), review |-> "pending"]
    <2>1. /\ proc[p].at = "create" /\ f \in CaseFiles /\ Processes(p, f)
          /\ doubled' = doubled /\ facts' = facts \cup {new}
      BY <1>4, <2>0 DEF ProcessCreate, Processes
    <2>2. \/ proc'[p].at = "next"
          \/ /\ proc'[p].at = "create" /\ proc'[p].file = f
             /\ proc'[p].extraction = proc[p].extraction
      <3>1. CASE proc[p].left = 1
        <4>1. proc'[p] = [ProcIdle EXCEPT !.at = "next", !.todo = proc[p].todo]
          BY <1>4, <3>1 DEF ProcessCreate, TypeOK
        <4>2. proc[p].todo \in SUBSET CaseFiles
          BY <1>0 DEF ProcState
        <4> QED
          BY <4>1, <4>2, IdleStates
      <3>2. CASE proc[p].left # 1
        <4>1. proc'[p] = [proc[p] EXCEPT !.left = proc[p].left - 1]
          BY <1>4, <3>2 DEF ProcessCreate, TypeOK
        <4> QED
          BY <1>0, <2>0, <2>1, <4>1 DEF ProcState
      <3> QED
        BY <3>1, <3>2
    <2>3. new.id.file = f /\ new.id.extraction = proc[p].extraction
      BY <2>0 DEF NextFact
    <2>4. \A q \in Processings, g \in CaseFiles : Processes(q, g)' => Processes(q, g)
      BY <1>0, <2>1, <2>2 DEF Processes
    <2>5. \A q \in Processings \ {p}, g \in CaseFiles : Processes(q, g)' <=> Processes(q, g)
      BY <1>0 DEF Processes
    <2> HIDE DEF new
    <2>6. /\ \A g \in CaseFiles \ {f} : FactsOf(g)' = FactsOf(g)
          /\ FactsOf(f)' = FactsOf(f) \cup {new}
      BY <2>1, <2>3 DEF FactsOf
    <2>7. f \notin doubled =>
             /\ \A q \in Processings : Processes(q, f) => q = p
             /\ \A x \in FactsOf(f)' : x.id.extraction = proc[p].extraction
      BY <2>1, <2>3, <2>6 DEF OneAtATime
    <2>8. OneAtATime'
      <3> SUFFICES ASSUME NEW g \in CaseFiles, g \notin doubled
                   PROVE  /\ \A q, s \in Processings : Processes(q, g)' /\ Processes(s, g)' => q = s
                          /\ \A q \in Processings : Processes(q, g)' /\ proc'[q].at = "create" =>
                                \A x \in FactsOf(g)' : x.id.extraction = proc'[q].extraction
        BY <2>1 DEF OneAtATime
      <3>1. CASE g = f
        BY <2>2, <2>4, <2>7, <3>1
      <3>2. CASE g # f
        <4>1. ~ Processes(p, g)
          BY <2>0, <3>2 DEF Processes
        <4> QED
          BY <1>0, <2>4, <2>6, <3>2, <4>1 DEF OneAtATime
      <3> QED
        BY <3>1, <3>2
    <2>9. OneExtraction'
      <3> SUFFICES ASSUME NEW g \in CaseFiles, g \notin doubled,
                          \A q \in Processings : ~ Processes(q, g)'
                   PROVE  \A x, y \in FactsOf(g)' : x.id.extraction = y.id.extraction
        BY <2>1 DEF OneExtraction
      <3>1. CASE g = f
        BY <2>7, <3>1
      <3>2. CASE g # f
        <4>1. ~ Processes(p, g)
          BY <2>0, <3>2 DEF Processes
        <4> QED
          BY <2>5, <2>6, <3>2, <4>1 DEF OneExtraction
      <3> QED
        BY <3>1, <3>2
    <2> QED
      BY <2>8, <2>9
  <1>5. QED
    BY <1>1, <1>2, <1>3, <1>4

-----------------------------------------------------------------------------
(* The report. *)

\* Who rebuilds the report, or is about to decide on facts, has it behind.
LEMMA BuilderIsBehind ==
  ASSUME Report, NEW r \in Reviews, rev[r].at \notin {"idle", "decide"}
  PROVE  behind
  BY DEF Report, QuietWhenReady

LEMMA AttachKeepsReport ==
  ASSUME Shape, Report, NEW f \in CaseFiles, Attach(f)
  PROVE  Report'
  <1> USE DEF Report
  <1>1. UNCHANGED <<facts, assembly, proc, rev, sole>>
    BY DEF Attach, AttachRead, AttachRefused, AttachCreate, AttachSave, history
  <1>2. \A g \in Attached : review'[g] = review[g]
    BY DEF Attach, AttachRead, AttachRefused, AttachCreate, AttachSave, Attached, Shape, TypeOK
  <1>3. ApprovedFacts' = ApprovedFacts
    BY <1>1, <1>2 DEF ApprovedFacts, Shape, FactsAttached
  <1>4. \A g \in CaseFiles : review[g] = "approved" => review'[g] = "approved"
    BY <1>2 DEF Attached
  <1>5. Shown' = Shown
    BY <1>1 DEF Shown
  <1>6. SoleShape'
    BY <1>1 DEF SoleShape
  <1>7. \A r \in sole : rev[r] \in RevState
    BY DEF Shape, TypeOK
  <1>8. SoleBuilds'
    BY <1>1, <1>3, <1>4, <1>5, <1>7 DEF SoleBuilds, RevState
  <1>9. ~ behind' => ~ behind /\ (status' = "ready" => status = "ready")
    BY DEF Attach, AttachRead, AttachRefused, AttachCreate, AttachSave, history, Shape, TypeOK
  <1>10. QuietWhenReady'
    BY <1>1, <1>9 DEF QuietWhenReady
  <1>11. ReadyMeansAssembled'
    BY <1>1, <1>3, <1>9 DEF ReadyMeansAssembled
  <1>12. QED
    BY <1>6, <1>8, <1>10, <1>11

\* A processing ends whatever a review had for itself, and has left the case
\* not ready before it touches a fact.
LEMMA ProcessKeepsReport ==
  ASSUME Shape, Report, NEW p \in Processings, Process(p)
  PROVE  Report'
  <1> USE DEF Process, history, Report
  <1>1. UNCHANGED <<rev, assembly, behind>>
    BY DEF ProcessBegin, ProcessList, ProcessMark, ProcessDelete, ProcessCreate, ProcessFail,
           ProcessEnd, ProcessSummary
  <1>2. sole' = {}
    <2>1. CASE ProcessBegin(p)
      BY <2>1 DEF ProcessBegin
    <2>2. CASE ~ ProcessBegin(p)
      BY <2>2 DEF ProcessList, ProcessMark, ProcessDelete, ProcessCreate, ProcessFail,
                  ProcessEnd, ProcessSummary, SoleShape
    <2> QED
      BY <2>1, <2>2
  <1>3. SoleShape' /\ SoleBuilds'
    BY <1>2 DEF SoleShape, SoleBuilds
  <1>4. ~ behind => status' # "ready"
    <2>1. CASE ProcessBegin(p) \/ ProcessEnd(p) \/ ProcessSummary(p)
      BY <2>1 DEF ProcessBegin, ProcessEnd, ProcessSummary
    <2>2. CASE ~ (ProcessBegin(p) \/ ProcessEnd(p) \/ ProcessSummary(p))
      BY <2>2 DEF ProcessList, ProcessMark, ProcessDelete, ProcessCreate, ProcessFail,
                  QuietWhenReady
    <2> QED
      BY <2>1, <2>2
  <1>5. QuietWhenReady' /\ ReadyMeansAssembled'
    BY <1>1, <1>4 DEF QuietWhenReady, ReadyMeansAssembled
  <1>6. QED
    BY <1>3, <1>5

LEMMA ReviewKeepsReport ==
  ASSUME Shape, Report, NEW r \in Reviews, Review(r)
  PROVE  Report'
  <1> USE DEF Review, history, Shape, Report
  <1>0. rev[r] \in RevState
    BY DEF TypeOK
  <1>1. UNCHANGED proc
    BY DEF ReviewBegin, ReviewMark, ReviewFind, ReviewFact, ReviewItem, ReviewAsset,
           ReviewCutShort, ReviewClear, ReviewList, ReviewGather, ReviewReady, ReviewSummary
  <1>2. \A s \in Reviews \ {r} : rev'[s] = rev[s]
    BY DEF TypeOK, ReviewBegin, ReviewMark, ReviewFind, ReviewFact, ReviewItem, ReviewAsset,
           ReviewCutShort, ReviewClear, ReviewList, ReviewGather, ReviewReady, ReviewSummary
  \* A review that is not idle leaves no other review alone, nor is it alone
  \* before it clears the report.
  <1>3. rev[r].at # "idle" => \A s \in sole : s = r
    BY DEF SoleShape
  <1>4. rev[r].at \in {"decide", "find", "update"} => sole = {}
    BY <1>3 DEF SoleShape
  <1>5. CASE ReviewBegin(r)
    <2>1. /\ UNCHANGED <<status, review, facts, assembly, behind>> /\ sole' = {}
          /\ rev'[r].at = "decide"
      BY <1>0, <1>5 DEF ReviewBegin, TypeOK, RevState
    <2>2. SoleShape' /\ SoleBuilds'
      BY <2>1 DEF SoleShape, SoleBuilds
    <2>3. QuietWhenReady' /\ ReadyMeansAssembled'
      BY <1>1, <1>2, <2>1 DEF QuietWhenReady, ReadyMeansAssembled, ApprovedFacts
    <2> QED
      BY <2>2, <2>3
  <1>6. ASSUME \/ \E f \in CaseFiles, d \in Decision : ReviewMark(r, f, d)
               \/ ReviewFind(r)
               \/ \E x \in rev[r].rows : ReviewFact(r, x)
               \/ \E x \in rev[r].due : ReviewAsset(r, x)
        PROVE  Report'
    <2>1. rev[r].at \in {"decide", "find", "update"} /\ sole' = sole
      BY <1>6 DEF ReviewMark, ReviewFind, ReviewFact, ReviewAsset
    <2>2. behind'
      <3>1. CASE \E f \in CaseFiles, d \in Decision : ReviewMark(r, f, d)
        BY <3>1 DEF ReviewMark
      <3>2. CASE rev[r].at \in {"find", "update"} /\ behind' = behind
        BY <3>2, BuilderIsBehind
      <3> QED
        BY <1>6, <3>1, <3>2 DEF ReviewFind, ReviewFact, ReviewAsset
    <2> QED
      BY <1>4, <2>1, <2>2 DEF SoleShape, SoleBuilds, QuietWhenReady, ReadyMeansAssembled
  <1>7. CASE ReviewCutShort(r)
    <2>1. /\ UNCHANGED <<status, review, facts, assembly, behind, sole>>
          /\ rev[r].at = "decide" /\ rev'[r].at = "idle"
      BY <1>7 DEF ReviewCutShort, TypeOK, RevIdle
    <2>2. SoleShape' /\ SoleBuilds'
      BY <1>4, <2>1 DEF SoleShape, SoleBuilds
    <2>3. QuietWhenReady' /\ ReadyMeansAssembled'
      BY <1>1, <1>2, <2>1 DEF QuietWhenReady, ReadyMeansAssembled, ApprovedFacts
    <2> QED
      BY <2>2, <2>3
  <1>8. CASE ReviewClear(r)
    <2>1. /\ assembly' = {} /\ behind'
          /\ rev'[r].at = "list"
      BY <1>0, <1>8 DEF ReviewClear, TypeOK, RevState
    <2>2. /\ sole' \subseteq {r}
          /\ r \in sole' => /\ \A p \in Processings : proc[p].at = "idle"
                            /\ \A s \in Reviews \ {r} : rev[s].at = "idle"
      BY <1>8 DEF ReviewClear
    <2>3. SoleShape'
      BY <1>1, <1>2, <2>1, <2>2 DEF SoleShape
    <2>4. SoleBuilds'
      BY <2>1, <2>2 DEF SoleBuilds
    <2>5. QuietWhenReady' /\ ReadyMeansAssembled'
      BY <2>1 DEF QuietWhenReady, ReadyMeansAssembled
    <2> QED
      BY <2>3, <2>4, <2>5
  <1>9. ASSUME \/ ReviewList(r)
               \/ \E f \in CaseFiles : ReviewGather(r, f)
               \/ \E x \in rev[r].rows : ReviewItem(r, x)
               \/ ReviewReady(r)
        PROVE  Report'
    <2>1. /\ UNCHANGED <<review, facts, behind, sole>>
          /\ rev[r].at \in {"list", "gather"}
      BY <1>9 DEF ReviewList, ReviewGather, ReviewItem, ReviewReady
    <2>2. behind'
      BY <2>1, BuilderIsBehind
    <2>3. QuietWhenReady' /\ ReadyMeansAssembled'
      BY <2>2 DEF QuietWhenReady, ReadyMeansAssembled
    <2>4. \A s \in sole : s = r
      BY <1>3, <2>1
    <2>5. ApprovedFacts' = ApprovedFacts
      BY <2>1 DEF ApprovedFacts
    <2>6. CASE ReviewList(r)
      <3>1. /\ assembly' = assembly
            /\ rev[r].at = "list" /\ rev[r].rows = {}
            /\ rev'[r].at = "gather" /\ rev'[r].rows = {}
            /\ rev'[r].files = {f \in CaseFiles : review[f] = "approved"}
        BY <1>0, <2>6 DEF ReviewList, TypeOK, RevState, RevShape
      <3>2. \A x \in ApprovedFacts : x.file \in rev'[r].files
        BY <3>1 DEF ApprovedFacts, TypeOK, Fact, FactId
      <3>3. r \in sole => assembly = {} /\ Shown' = {}
        BY <3>1 DEF SoleBuilds, Shown
      <3>4. SoleBuilds'
        BY <2>1, <2>4, <2>5, <3>1, <3>2, <3>3 DEF SoleBuilds
      <3>5. SoleShape'
        BY <1>1, <1>2, <2>1, <2>4, <3>1 DEF SoleShape
      <3> QED
        BY <2>3, <3>4, <3>5
    <2>7. ASSUME NEW f \in CaseFiles, ReviewGather(r, f)
          PROVE  Report'
      <3>1. /\ assembly' = assembly /\ Shown' = Shown
            /\ rev[r].at = "gather" /\ rev[r].rows = {} /\ f \in rev[r].files
            /\ rev'[r].at = "gather" /\ rev'[r].files = rev[r].files \ {f}
            /\ rev'[r].rows = {x.id : x \in {y \in FactsOf(f) : y.review = "approved"}}
        BY <1>0, <2>7 DEF ReviewGather, TypeOK, RevState, Shown
      <3>2. \A x \in ApprovedFacts : x.file = f => x \in rev'[r].rows
        BY <3>1 DEF ApprovedFacts, FactsOf
      <3>3. review[f] = "approved" => rev'[r].rows \subseteq ApprovedFacts
        BY <3>1 DEF ApprovedFacts, FactsOf
      <3>4. SoleBuilds'
        BY <2>1, <2>4, <2>5, <3>1, <3>2, <3>3 DEF SoleBuilds
      <3>5. SoleShape'
        BY <1>1, <1>2, <2>1, <2>4, <3>1 DEF SoleShape
      <3> QED
        BY <2>3, <3>4, <3>5
    <2>8. ASSUME NEW x \in rev[r].rows, ReviewItem(r, x)
          PROVE  Report'
      <3>1. /\ assembly' = assembly \cup {[by |-> r, fact |-> x]}
            /\ rev[r].at = "gather"
            /\ rev'[r].at = "gather" /\ rev'[r].files = rev[r].files
            /\ rev'[r].rows = rev[r].rows \ {x}
        BY <1>0, <2>8 DEF ReviewItem, TypeOK, RevState
      <3>2. Shown' = Shown \cup {x}
        <4>1. ASSUME NEW i \in assembly'
              PROVE  i.fact \in Shown \cup {x}
          <5>1. CASE i \in assembly
            BY <5>1 DEF Shown
          <5>2. CASE i = [by |-> r, fact |-> x]
            BY <5>2
          <5> QED
            BY ONLY <3>1, <4>1, <5>1, <5>2
        <4>2. \A i \in assembly : i \in assembly'
          BY ONLY <3>1
        <4>3. x \in Shown'
          <5>1. [by |-> r, fact |-> x] \in assembly'
            BY ONLY <3>1
          <5>2. [by |-> r, fact |-> x].fact = x
            OBVIOUS
          <5> QED
            BY ONLY <5>1, <5>2 DEF Shown
        <4>4. Shown \subseteq Shown'
          BY ONLY <4>2 DEF Shown
        <4>5. Shown' \subseteq Shown \cup {x}
          BY ONLY <4>1 DEF Shown
        <4> QED
          BY ONLY <4>3, <4>4, <4>5
      <3>3. SoleBuilds'
        BY <2>1, <2>4, <2>5, <3>1, <3>2 DEF SoleBuilds
      <3>4. SoleShape'
        BY <1>1, <1>2, <2>1, <2>4, <3>1 DEF SoleShape
      <3> QED
        BY <2>3, <3>3, <3>4
    <2>9. CASE ReviewReady(r)
      <3>1. /\ assembly' = assembly /\ Shown' = Shown
            /\ rev[r].at = "gather" /\ rev[r].rows = {} /\ rev[r].files = {}
            /\ rev'[r].at = "summary"
        BY <1>0, <2>9 DEF ReviewReady, TypeOK, RevState, Shown
      <3>2. r \in sole => Shown = ApprovedFacts
        BY <3>1 DEF SoleBuilds
      <3>3. SoleBuilds'
        BY <2>1, <2>4, <2>5, <3>1, <3>2 DEF SoleBuilds
      <3>4. SoleShape'
        BY <1>1, <1>2, <2>1, <2>4, <3>1 DEF SoleShape
      <3> QED
        BY <2>3, <3>3, <3>4
    <2> QED
      BY <1>9, <2>6, <2>7, <2>8, <2>9
  <1>10. CASE ReviewSummary(r)
    <2>1. /\ rev[r].at = "summary" /\ rev'[r].at = "idle"
          /\ sole' = {} /\ behind' = (r \notin sole)
          /\ UNCHANGED <<review, facts, assembly>>
      BY <1>10 DEF ReviewSummary, TypeOK, RevIdle
    <2>2. SoleShape' /\ SoleBuilds'
      BY <2>1 DEF SoleShape, SoleBuilds
    <2>3. ~ behind' => r \in sole
      BY <2>1
    <2>4. QuietWhenReady'
      BY <1>1, <1>2, <2>1, <2>3 DEF QuietWhenReady, SoleShape
    <2>5. ReadyMeansAssembled'
      <3> SUFFICES ASSUME ~ behind'
                   PROVE  /\ {i.fact : i \in assembly} = ApprovedFacts
                          /\ \A i, j \in assembly : i.fact = j.fact => i = j
        BY <2>1 DEF ReadyMeansAssembled, ApprovedFacts
      <3>1. Shown = ApprovedFacts /\ \A i \in assembly : i.by = r
        BY <2>1, <2>3 DEF SoleBuilds
      <3>2. assembly \subseteq [by : Reviews, fact : FactId]
        BY DEF TypeOK
      <3> QED
        BY <3>1, <3>2 DEF Shown
    <2> QED
      BY <2>2, <2>4, <2>5
  <1>11. QED
    BY <1>5, <1>6, <1>7, <1>8, <1>9, <1>10

-----------------------------------------------------------------------------
(* The theorems. *)

LEMMA NextKeeps == IInv /\ [Next]_reportVars => IInv'
  <1> SUFFICES ASSUME IInv, [Next]_reportVars PROVE IInv'
    OBVIOUS
  <1> USE DEF IInv
  <1>1. ASSUME NEW f \in CaseFiles, Attach(f)
        PROVE  IInv'
    <2>1. UNCHANGED <<proc, doubled, facts>>
      BY <1>1 DEF Attach, AttachRead, AttachRefused, AttachCreate, AttachSave, history
    <2>2. OneAtATime' /\ OneExtraction'
      BY <2>1, OthersKeepExtractions
    <2> QED
      BY <1>1, <2>2, AttachKeepsShape, AttachKeepsDecisions, AttachKeepsReport
  <1>2. ASSUME NEW p \in Processings, Process(p)
        PROVE  IInv'
    BY <1>2, ProcessKeepsShape, ProcessKeepsDecisions, ProcessKeepsExtractions, ProcessKeepsReport
  <1>3. ASSUME NEW r \in Reviews, Review(r)
        PROVE  IInv'
    <2>1. UNCHANGED <<proc, doubled>>
      BY <1>3 DEF Review, ReviewBegin, ReviewMark, ReviewFind, ReviewFact, ReviewItem,
           ReviewAsset, ReviewCutShort, ReviewClear, ReviewList, ReviewGather, ReviewReady,
           ReviewSummary, history
    <2>2. \A x \in facts' : \E y \in facts : x.id = y.id
      <3>1. ASSUME NEW x \in rev[r].rows, ReviewFact(r, x)
            PROVE  \A y \in facts' : \E z \in facts : y.id = z.id
        BY <3>1, UpdatedFacts DEF Shape
      <3>2. CASE facts' = facts
        BY <3>2
      <3> QED
        BY <1>3, <3>1, <3>2 DEF Review, ReviewBegin, ReviewMark, ReviewFind, ReviewItem,
           ReviewAsset, ReviewCutShort, ReviewClear, ReviewList, ReviewGather, ReviewReady,
           ReviewSummary
    <2>3. OneAtATime' /\ OneExtraction'
      BY <2>1, <2>2, OthersKeepExtractions
    <2> QED
      BY <1>3, <2>3, ReviewKeepsShape, ReviewKeepsDecisions, ReviewKeepsReport
  <1>4. CASE UNCHANGED reportVars
    <2>1. UNCHANGED <<status, review, facts, extractions, assembly, assets, copy, proc, rev,
                      disputed, doubled, sole, behind>>
      BY <1>4 DEF reportVars, history
    <2>2. Shape'
      BY <2>1 DEF Shape, TypeOK, ProcShape, RevShape, FactsAttached, Attached
    <2>3. Decisions'
      BY <2>1 DEF Decisions, WantedAgrees, FactsFollow, AssetsFollow, Covered, Processes, Decides,
                  FactsOf, Wanted
    <2>4. OneAtATime' /\ OneExtraction'
      BY <2>1, OthersKeepExtractions
    <2>5. SoleShape' /\ QuietWhenReady'
      BY <2>1 DEF Report, SoleShape, QuietWhenReady
    <2>6. Shown' = Shown /\ ApprovedFacts' = ApprovedFacts
      BY <2>1 DEF Shown, ApprovedFacts
    <2>7. SoleBuilds'
      BY <2>1, <2>6 DEF Report, SoleBuilds
    <2>8. ReadyMeansAssembled'
      BY <2>1, <2>6 DEF Report, ReadyMeansAssembled, Shown
    <2> QED
      BY <2>2, <2>3, <2>4, <2>5, <2>7, <2>8 DEF Report
  <1>5. QED
    BY <1>1, <1>2, <1>3, <1>4 DEF Next

LEMMA Inductive == Spec => []IInv
  <1>1. IInv /\ [Next]_reportVars => IInv'
    BY NextKeeps
  <1>2. QED
    BY InitIInv, <1>1, PTL DEF Spec

\* Every variable keeps its type, for any number of requests.
THEOREM TypeCorrect == Spec => []TypeOK
  <1>1. IInv => TypeOK
    BY DEF IInv, Shape
  <1>2. QED
    BY Inductive, <1>1, PTL

\* When nobody is at work on a file, its facts have its status and its approved
\* facts are assets, unless requests that wanted different statuses of the file
\* overlapped (ReviewReportCase, processSingleCaseFile).
THEOREM DecisionsHold == Spec => []DecisionsCoverFacts
  <1>1. ASSUME IInv
        PROVE  DecisionsCoverFacts
    <2> SUFFICES ASSUME NEW x \in facts, NEW f \in CaseFiles, f = x.id.file, Wanted(f) = {}
                 PROVE  /\ f \notin disputed => x.review = review[f]
                        /\ x.review = "approved" /\ f \in SubjectFiles => x.id \in assets
      BY <1>1 DEF DecisionsCoverFacts, IInv, Shape, FactsAttached, Attached
    <2>1. /\ \A p \in Processings : ~ Processes(p, f)
          /\ \A r \in Reviews : ~ Decides(r, f)
      BY DEF Wanted
    <2>2. x \in facts /\ x.id.file = f
      OBVIOUS
    <2>3. ~ Covered(x)
      BY <2>1, <2>2 DEF Covered, Processes
    <2> QED
      BY <1>1, <2>1, <2>2, <2>3 DEF IInv, Decisions, FactsFollow, AssetsFollow
  <1>2. QED
    BY Inductive, <1>1, PTL

\* A processing replaces the facts of a file as a whole, whatever reviews do
\* meanwhile, unless another processing is at work on the file.
THEOREM ExtractionsAreWhole == Spec => []OneExtraction
  <1>1. IInv => OneExtraction
    BY DEF IInv
  <1>2. QED
    BY Inductive, <1>1, PTL

\* A ready case shows the approved facts, each of them once, as long as nothing
\* has come between since the last rebuild that had the case for itself.
THEOREM ReadyIsAssembled == Spec => []ReadyMeansAssembled
  <1>1. IInv => ReadyMeansAssembled
    BY DEF IInv, Report
  <1>2. QED
    BY Inductive, <1>1, PTL

=============================================================================
