-------------------------- MODULE WorkflowStartProofs --------------------------
(***************************************************************************)
(* Theorems about WorkflowDefinition and WorkflowStart, for any number of   *)
(* requests and any settings of the breaker.                                *)
(***************************************************************************)
EXTENDS WorkflowStart, SequenceTheorems, FiniteSetTheorems, TLAPS

\* What an edit that has not ended has read still fits the versions, and the
\* number of an update is the next one, unless others came in between.
Fits(r) ==
    /\ edit[r] = "plain" /\ row # Gone => Coherent(seen[r])
    /\ edit[r] = "number" /\ r \notin raced => row # Gone
    /\ edit[r] = "insert" /\ r \notin raced => row # Gone /\ next[r] = Len(versions) + 1
    /\ edit[r] = "refused" => r \in raced

EditInv ==
    /\ EditTypeOK
    /\ ShownDslIsDraft
    /\ \A r \in Edits : Fits(r)

-----------------------------------------------------------------------------

LEMMA EditTypes ==
    ASSUME EditTypeOK
    PROVE  /\ Len(versions) \in Nat /\ DOMAIN versions = 1 .. Len(versions)
           /\ \A v \in 1 .. Len(versions) : versions[v] \in Dsl
           /\ \A r \in Edits : seen[r] \in Workflow /\ next[r] \in Nat
<1>1. versions \in Seq(Dsl) /\ seen \in [Edits -> Workflow] /\ next \in [Edits -> Nat]
  BY DEF EditTypeOK
<1>. QED
  BY <1>1, LenProperties, ElementOfSeq

LEMMA GotoTypes ==
    ASSUME EditTypeOK, NEW r \in Edits, NEW s \in EditStep, EditGoto(r, s)
    PROVE  /\ edit' \in [Edits -> EditStep] /\ edit'[r] = s
           /\ \A q \in Edits \ {r} : edit'[q] = edit[q]
BY DEF EditGoto, EditTypeOK

\* A step of one edit that keeps the versions and whether there is a row.
LEMMA EditFrame ==
    ASSUME EditInv, NEW r \in Edits, NEW s \in EditStep, EditGoto(r, s),
           UNCHANGED versions, row' = Gone <=> row = Gone,
           UNCHANGED raced,
           \A q \in Edits \ {r} : seen'[q] = seen[q] /\ next'[q] = next[q],
           seen' \in [Edits -> Workflow], next' \in [Edits -> Nat],
           row' \in Workflow \cup {Gone}, row' # Gone => Coherent(row'),
           Fits(r)'
    PROVE  EditInv'
<1>1. /\ edit' \in [Edits -> EditStep]
      /\ \A q \in Edits \ {r} : edit'[q] = edit[q]
  BY GotoTypes DEF EditInv
<1>2. EditTypeOK'
  BY <1>1 DEF EditInv, EditTypeOK
<1>3. ShownDslIsDraft'
  BY DEF ShownDslIsDraft, Coherent
<1>4. \A q \in Edits \ {r} : Fits(q)'
  BY <1>1 DEF EditInv, Fits, Coherent
<1>. QED
  BY <1>2, <1>3, <1>4 DEF EditInv

LEMMA ReadKeeps ==
    ASSUME EditInv, NEW r \in Edits, UpdateRead(r) PROVE EditInv'
<1>1. /\ row # Gone /\ seen' = [seen EXCEPT ![r] = row]
      /\ UNCHANGED <<row, versions, next, raced>>
  BY DEF UpdateRead
<1>2. PICK s \in {"number", "plain"} : EditGoto(r, s)
  BY DEF UpdateRead
<1>3. row \in Workflow /\ Coherent(row) /\ seen \in [Edits -> Workflow]
  BY <1>1 DEF EditInv, EditTypeOK, ShownDslIsDraft
<1>4. edit'[r] = s /\ s \in EditStep
  BY <1>2, GotoTypes DEF EditStep, EditInv
<1>5. seen' \in [Edits -> Workflow] /\ seen'[r] = row /\ \A q \in Edits \ {r} : seen'[q] = seen[q]
  BY <1>1, <1>3
<1>6. Fits(r)'
  BY <1>1, <1>2, <1>3, <1>4, <1>5 DEF Fits, Coherent
<1>7. row' \in Workflow \cup {Gone} /\ Coherent(row') /\ next' \in [Edits -> Nat]
  BY <1>1, <1>3 DEF Coherent, EditInv, EditTypeOK
<1>. QED
  BY <1>1, <1>2, <1>4, <1>5, <1>6, <1>7, EditFrame

LEMMA NumberKeeps ==
    ASSUME EditInv, NEW r \in Edits, UpdateNumber(r) PROVE EditInv'
<1>1. /\ edit[r] = "number" /\ EditGoto(r, "insert")
      /\ next' = [next EXCEPT ![r] = Len(versions) + 1]
      /\ UNCHANGED <<row, versions, seen, raced>>
  BY DEF UpdateNumber
<1>2. edit'[r] = "insert" /\ "insert" \in EditStep
  BY <1>1, GotoTypes DEF EditStep, EditInv
<1>3. /\ next' \in [Edits -> Nat] /\ next'[r] = Len(versions) + 1
      /\ \A q \in Edits \ {r} : next'[q] = next[q]
  BY <1>1, EditTypes DEF EditInv, EditTypeOK
<1>4. Fits(r) /\ row \in Workflow \cup {Gone} /\ seen \in [Edits -> Workflow]
      /\ (row # Gone => Coherent(row))
  BY DEF EditInv, EditTypeOK, ShownDslIsDraft
<1>5. Fits(r)'
  BY <1>1, <1>2, <1>3, <1>4 DEF Fits
<1>6. row' # Gone => Coherent(row')
  BY <1>1, <1>4 DEF Coherent
<1>. QED
  BY <1>1, <1>2, <1>3, <1>4, <1>5, <1>6, EditFrame

LEMMA ConflictKeeps ==
    ASSUME EditInv, NEW r \in Edits, UpdateConflict(r) PROVE EditInv'
<1>1. /\ edit[r] = "insert" /\ EditGoto(r, "refused")
      /\ row = Gone \/ next[r] # Len(versions) + 1
      /\ UNCHANGED <<row, versions, seen, next, raced>>
  BY DEF UpdateConflict
<1>2. edit'[r] = "refused" /\ "refused" \in EditStep
  BY <1>1, GotoTypes DEF EditStep, EditInv
<1>3. /\ Fits(r) /\ row \in Workflow \cup {Gone} /\ seen \in [Edits -> Workflow]
      /\ next \in [Edits -> Nat] /\ (row # Gone => Coherent(row))
  BY DEF EditInv, EditTypeOK, ShownDslIsDraft
<1>4. r \in raced
  BY <1>1, <1>3 DEF Fits
<1>5. Fits(r)'
  BY <1>1, <1>2, <1>4 DEF Fits
<1>6. row' # Gone => Coherent(row')
  BY <1>1, <1>3 DEF Coherent
<1>. QED
  BY <1>1, <1>2, <1>3, <1>5, <1>6, EditFrame

LEMMA PlainKeeps ==
    ASSUME EditInv, NEW r \in Edits, UpdatePlain(r) PROVE EditInv'
<1>1. edit[r] = "plain" /\ EditGoto(r, "done") /\ UNCHANGED <<versions, seen, next, raced>>
  BY DEF UpdatePlain
<1>2. edit'[r] = "done" /\ "done" \in EditStep
  BY <1>1, GotoTypes DEF EditStep, EditInv
<1>3. /\ seen \in [Edits -> Workflow] /\ next \in [Edits -> Nat]
      /\ row # Gone => Coherent(seen[r]) /\ Coherent(row) /\ row \in Workflow
      /\ seen[r] \in Workflow
  BY <1>1 DEF EditInv, EditTypeOK, ShownDslIsDraft, Fits
<1>4. PICK l \in Limits :
        row' = IF row = Gone THEN Gone
               ELSE [row EXCEPT !.draft = seen[r].draft, !.dsl = seen[r].dsl, !.limit = l]
  BY DEF UpdatePlain
<1>5. CASE row = Gone
  <2>1. row' = Gone
    BY <1>4, <1>5
  <2>2. Fits(r)'
    BY <1>2 DEF Fits
  <2>. QED
    BY <2>1, <2>2, <1>1, <1>2, <1>3, <1>5, EditFrame
<1>6. CASE row # Gone
  <2>1. row' \in Workflow /\ row'.draft = seen[r].draft /\ row'.dsl = seen[r].dsl
        /\ row'.published = row.published
    BY <1>3, <1>4, <1>6 DEF Workflow
  <2>2. row' # Gone
    BY <2>1, DefinitionAssumption
  <2>3. Coherent(row')
    BY <2>1, <1>1, <1>3, <1>6 DEF Coherent
  <2>4. Fits(r)'
    BY <1>2 DEF Fits
  <2>. QED
    BY <2>1, <2>2, <2>3, <2>4, <1>1, <1>2, <1>3, <1>6, EditFrame
<1>. QED
  BY <1>5, <1>6

LEMMA SetKeeps ==
    ASSUME EditInv, NEW r \in Edits, NEW w \in Workflow, Set(r, w),
           row # Gone => Coherent(w)
    PROVE  EditInv'
<1>1. /\ row # Gone /\ row' = w /\ EditGoto(r, "done")
      /\ UNCHANGED <<versions, seen, next, raced>>
  BY DEF Set
<1>2. edit'[r] = "done" /\ "done" \in EditStep
  BY <1>1, GotoTypes DEF EditStep, EditInv
<1>3. seen \in [Edits -> Workflow] /\ next \in [Edits -> Nat]
  BY DEF EditInv, EditTypeOK
<1>4. row' # Gone /\ Coherent(row')
  BY <1>1, DefinitionAssumption DEF Coherent
<1>5. Fits(r)'
  BY <1>2 DEF Fits
<1>. QED
  BY <1>1, <1>2, <1>3, <1>4, <1>5, EditFrame

LEMMA OperationsKeep ==
    ASSUME EditInv, NEW r \in Edits, Publish(r) \/ Offline(r) \/ Rollback(r)
    PROVE  EditInv'
<1>1. row # Gone
  BY DEF Publish, Offline, Rollback, Set
<1>2. /\ row \in Workflow /\ Coherent(row) /\ row.draft \in Nat
      /\ DOMAIN versions = 1 .. Len(versions) /\ Len(versions) \in Nat
  BY <1>1, EditTypes DEF EditInv, EditTypeOK, ShownDslIsDraft, Workflow
<1>3. CASE Publish(r)
  <2>1. [row EXCEPT !.published = row.draft] \in Workflow
    BY <1>2 DEF Workflow
  <2>2. Coherent([row EXCEPT !.published = row.draft])
    BY <1>2 DEF Coherent, Workflow
  <2>. QED
    BY <1>3, <2>1, <2>2, SetKeeps DEF Publish
<1>4. CASE Offline(r)
  <2>1. [row EXCEPT !.published = 0] \in Workflow
    BY <1>2 DEF Workflow
  <2>2. Coherent([row EXCEPT !.published = 0])
    BY <1>2 DEF Coherent, Workflow
  <2>. QED
    BY <1>4, <2>1, <2>2, SetKeeps DEF Offline
<1>5. CASE Rollback(r)
  <2>1. PICK v \in 1 .. Len(versions) :
          Set(r, [row EXCEPT !.dsl = versions[v], !.draft = v, !.published = v])
    BY <1>5, <1>2 DEF Rollback
  <2>2. versions[v] \in Dsl /\ v \in Nat \ {0}
    BY EditTypes DEF EditInv
  <2>3. [row EXCEPT !.dsl = versions[v], !.draft = v, !.published = v] \in Workflow
    BY <1>2, <2>2 DEF Workflow
  <2>4. Coherent([row EXCEPT !.dsl = versions[v], !.draft = v, !.published = v])
    BY <1>2 DEF Coherent, Workflow
  <2>. QED
    BY <2>1, <2>3, <2>4, SetKeeps
<1>. QED
  BY <1>3, <1>4, <1>5

LEMMA CommitKeeps ==
    ASSUME EditInv, NEW r \in Edits, UpdateCommit(r) PROVE EditInv'
<1>1. /\ edit[r] = "insert" /\ row # Gone /\ next[r] = Len(versions) + 1
      /\ versions' = Append(versions, r) /\ EditGoto(r, "done")
      /\ raced' = raced \cup {q \in Edits : edit[q] = "insert"}
      /\ UNCHANGED <<seen, next>>
  BY DEF UpdateCommit, OutdatesNumbers
<1>2. PICK l \in Limits : row' = [row EXCEPT !.draft = next[r], !.dsl = r, !.limit = l]
  BY DEF UpdateCommit
<1>3. /\ edit' \in [Edits -> EditStep] /\ edit'[r] = "done"
      /\ \A q \in Edits \ {r} : edit'[q] = edit[q]
  BY <1>1, GotoTypes DEF EditInv, EditStep
<1>4. /\ versions \in Seq(Dsl) /\ r \in Dsl /\ row \in Workflow /\ Coherent(row)
      /\ Len(versions) \in Nat /\ DOMAIN versions = 1 .. Len(versions)
  BY <1>1, EditTypes DEF EditInv, EditTypeOK, ShownDslIsDraft, Dsl
<1>5. /\ versions' \in Seq(Dsl) /\ Len(versions') = Len(versions) + 1
      /\ versions'[Len(versions) + 1] = r
      /\ \A v \in 1 .. Len(versions) : versions'[v] = versions[v]
      /\ DOMAIN versions' = 1 .. Len(versions) + 1
  BY <1>1, <1>4, AppendProperties
<1>6. /\ row' \in Workflow /\ row'.draft = Len(versions) + 1 /\ row'.dsl = r
      /\ row'.published = row.published
  <2>1. next[r] \in Nat \ {0} /\ l \in Limits
    BY <1>1, <1>4
  <2>2. row' = [row EXCEPT !.draft = next[r], !.dsl = r, !.limit = l]
    BY <1>2
  <2>. QED
    BY <1>1, <1>4, <2>1, <2>2 DEF Workflow
<1>7. EditTypeOK'
  BY <1>1, <1>3, <1>5, <1>6 DEF EditInv, EditTypeOK
<1>8. ShownDslIsDraft'
  BY <1>4, <1>5, <1>6 DEF ShownDslIsDraft, Coherent
<1>9. ASSUME NEW q \in Edits PROVE Fits(q)'
  <2>1. Fits(q) /\ row' # Gone
    BY <1>6, DefinitionAssumption DEF EditInv
  <2>2. CASE q = r
    BY <1>3, <2>2 DEF Fits
  <2>3. CASE q # r
    <3>1. edit'[q] = edit[q] /\ seen'[q] = seen[q] /\ raced \subseteq raced'
          /\ (edit[q] = "insert" => q \in raced')
      BY <1>1, <1>3, <2>3
    <3>2. edit[q] = "plain" => Coherent(seen[q])'
      BY <1>1, <1>4, <1>5, <2>1 DEF Fits, Coherent
    <3>. QED
      BY <2>1, <3>1, <3>2 DEF Fits
  <2>. QED
    BY <2>2, <2>3
<1>. QED
  BY <1>7, <1>8, <1>9 DEF EditInv

LEMMA DeleteKeeps ==
    ASSUME EditInv, NEW r \in Edits, Delete(r) PROVE EditInv'
<1>1. /\ row' = Gone /\ versions' = << >> /\ EditGoto(r, "done")
      /\ raced' = raced \cup {q \in Edits : edit[q] \in {"number", "insert"}}
      /\ UNCHANGED <<seen, next>>
  BY DEF Delete
<1>2. /\ edit' \in [Edits -> EditStep] /\ edit'[r] = "done"
      /\ \A q \in Edits \ {r} : edit'[q] = edit[q]
  BY <1>1, GotoTypes DEF EditInv, EditStep
<1>3. versions' \in Seq(Dsl)
  BY <1>1
<1>4. EditTypeOK' /\ ShownDslIsDraft'
  BY <1>1, <1>2, <1>3 DEF EditInv, EditTypeOK, ShownDslIsDraft
<1>5. \A q \in Edits : Fits(q)'
  BY <1>1, <1>2 DEF EditInv, Fits
<1>. QED
  BY <1>4, <1>5 DEF EditInv

LEMMA EditKeeps ==
    ASSUME EditInv, NEW r \in Edits, Edit(r) PROVE EditInv'
BY ReadKeeps, NumberKeeps, CommitKeeps, ConflictKeeps, PlainKeeps, OperationsKeep, DeleteKeeps
   DEF Edit

LEMMA EditUnchanged ==
    ASSUME EditInv, UNCHANGED editVars PROVE EditInv'
<1>1. UNCHANGED <<row, versions, edit, seen, next, raced>>
  BY DEF editVars
<1>. QED
  BY <1>1 DEF EditInv, EditTypeOK, ShownDslIsDraft, Fits, Coherent

-----------------------------------------------------------------------------
(* What the editors are promised. *)

LEMMA EditsSettleOnce ==
    ASSUME EditTypeOK, NEW r \in Edits, edit[r] \notin {"done", "refused"},
           NEW s \in {"done", "refused"}, EditGoto(r, s)
    PROVE  H!Settle(r)
<1>1. edit'[r] = s /\ \A q \in Edits \ {r} : edit'[q] = edit[q]
  BY GotoTypes DEF EditStep
<1>2. r \notin Settled /\ Settled' = Settled \cup {r}
  BY <1>1 DEF Settled
<1>. QED
  BY <1>2 DEF H!Settle

\* With a row there is a draft, one of the past.
LEMMA DraftIsOfThePast ==
    ASSUME EditInv, row # Gone
    PROVE  /\ DraftDsl = row.dsl /\ DraftDsl # Gone /\ DraftDsl \in Past
           /\ row.dsl = versions[row.draft]
           /\ row.draft \in Nat \ {0} /\ row.draft \in DOMAIN versions
           /\ row.published \in DOMAIN versions \cup {0}
           /\ row \in Workflow
<1>1. row \in Workflow /\ Coherent(row)
  BY DEF EditInv, EditTypeOK, ShownDslIsDraft
<1>2. row.dsl \in Dsl /\ row.draft \in Nat \ {0}
  BY <1>1 DEF Workflow
<1>. QED
  BY <1>1, <1>2, DefinitionAssumption DEF DraftDsl, Past, Coherent

\* The statements that only read.
LEMMA ReadsAreSilent ==
    ASSUME EditInv, NEW r \in Edits, UpdateRead(r) \/ UpdateNumber(r)
    PROVE  UNCHANGED H!historyVars
<1>1. UNCHANGED <<row, versions>>
  BY DEF UpdateRead, UpdateNumber
<1>2. edit[r] \in {"new", "number"}
  BY DEF UpdateRead, UpdateNumber
<1>3. PICK s \in {"number", "plain", "insert"} : EditGoto(r, s)
  BY DEF UpdateRead, UpdateNumber
<1>4. edit'[r] = s /\ \A q \in Edits \ {r} : edit'[q] = edit[q]
  BY <1>3, GotoTypes DEF EditInv, EditStep
<1>5. Settled' = Settled
  BY <1>2, <1>4 DEF Settled
<1>. QED
  BY <1>1, <1>5 DEF H!historyVars, Past, DraftDsl, PublishedDsl

LEMMA CommitIsRevision ==
    ASSUME EditInv, NEW r \in Edits, UpdateCommit(r) PROVE H!Revise(r)
<1>1. /\ edit[r] = "insert" /\ row # Gone /\ next[r] = Len(versions) + 1
      /\ versions' = Append(versions, r) /\ EditGoto(r, "done")
  BY DEF UpdateCommit
<1>2. PICK l \in Limits : row' = [row EXCEPT !.draft = next[r], !.dsl = r, !.limit = l]
  BY DEF UpdateCommit
<1>3. H!Settle(r)
  BY <1>1, EditsSettleOnce DEF EditInv
<1>4. DraftDsl # Gone /\ row \in Workflow /\ row.published \in DOMAIN versions \cup {0}
  BY <1>1, DraftIsOfThePast
<1>5. /\ versions \in Seq(Dsl) /\ Len(versions) \in Nat /\ r \in Dsl
      /\ DOMAIN versions = 1 .. Len(versions)
  BY EditTypes DEF EditInv, EditTypeOK, Dsl
<1>6. /\ DOMAIN versions' = 1 .. Len(versions) + 1
      /\ versions'[Len(versions) + 1] = r
      /\ \A v \in 1 .. Len(versions) : versions'[v] = versions[v]
  BY <1>1, <1>5, AppendProperties
<1>7. /\ row'.dsl = r /\ row'.published = row.published
      /\ row' # Gone
  <2>1. next[r] \in Nat \ {0}
    BY <1>1, <1>5
  <2>2. row' \in Workflow /\ row'.dsl = r /\ row'.published = row.published
    BY <1>2, <1>4, <1>5, <2>1 DEF Workflow
  <2>. QED
    BY <2>2, DefinitionAssumption
<1>8. Past' = Past \cup {r}
  BY <1>5, <1>6 DEF Past
<1>9. DraftDsl' = r
  BY <1>7 DEF DraftDsl
<1>10. PublishedDsl' = PublishedDsl
  <2>1. row.published # 0 => row.published \in 1 .. Len(versions)
    BY <1>4, <1>5
  <2>. QED
    BY <1>1, <1>6, <1>7, <2>1 DEF PublishedDsl
<1>. QED
  BY <1>3, <1>4, <1>8, <1>9, <1>10 DEF H!Revise

LEMMA ConflictIsRefusal ==
    ASSUME EditInv, NEW r \in Edits, UpdateConflict(r) PROVE H!Refuse(r)
<1>1. edit[r] = "insert" /\ EditGoto(r, "refused") /\ UNCHANGED <<row, versions>>
  BY DEF UpdateConflict
<1>2. H!Settle(r)
  BY <1>1, EditsSettleOnce DEF EditInv
<1>. QED
  BY <1>1, <1>2 DEF H!Refuse, Past, DraftDsl, PublishedDsl

LEMMA PlainIsRename ==
    ASSUME EditInv, NEW r \in Edits, UpdatePlain(r) PROVE H!Rename(r) \/ H!Refuse(r)
<1>1. edit[r] = "plain" /\ EditGoto(r, "done") /\ UNCHANGED versions
  BY DEF UpdatePlain
<1>2. PICK l \in Limits :
        row' = IF row = Gone THEN Gone
               ELSE [row EXCEPT !.draft = seen[r].draft, !.dsl = seen[r].dsl, !.limit = l]
  BY DEF UpdatePlain
<1>3. H!Settle(r)
  BY <1>1, EditsSettleOnce DEF EditInv
<1>4. CASE row = Gone
  BY <1>1, <1>2, <1>3, <1>4 DEF H!Refuse, Past, DraftDsl, PublishedDsl
<1>5. CASE row # Gone
  <2>1. row \in Workflow /\ DraftDsl # Gone
    BY <1>5, DraftIsOfThePast
  <2>2. seen[r] \in Workflow /\ Coherent(seen[r])
    BY <1>1, <1>5, EditTypes DEF EditInv, Fits
  <2>3. row' \in Workflow /\ row'.dsl = seen[r].dsl /\ row'.published = row.published
    BY <1>2, <1>5, <2>1, <2>2 DEF Workflow
  <2>4. row' # Gone
    BY <2>3, DefinitionAssumption
  <2>5. DraftDsl' \in Past
    BY <2>2, <2>3, <2>4 DEF DraftDsl, Past, Coherent
  <2>6. Past' = Past /\ PublishedDsl' = PublishedDsl
    BY <1>1, <1>5, <2>3, <2>4 DEF Past, PublishedDsl
  <2>. QED
    BY <1>3, <2>1, <2>5, <2>6 DEF H!Rename
<1>. QED
  BY <1>4, <1>5

LEMMA PublishIsPublication ==
    ASSUME EditInv, NEW r \in Edits, Publish(r) PROVE H!Publish(r)
<1>1. /\ edit[r] = "new" /\ EditGoto(r, "done") /\ UNCHANGED versions
      /\ row # Gone /\ row' = [row EXCEPT !.published = row.draft]
  BY DEF Publish, Set
<1>2. H!Settle(r)
  BY <1>1, EditsSettleOnce DEF EditInv
<1>3. /\ DraftDsl = row.dsl /\ DraftDsl # Gone /\ row.dsl = versions[row.draft]
      /\ row \in Workflow /\ row.draft \in Nat \ {0}
  BY <1>1, DraftIsOfThePast
<1>4. row' \in Workflow /\ row'.dsl = row.dsl /\ row'.published = row.draft
  BY <1>1, <1>3 DEF Workflow
<1>5. row' # Gone
  BY <1>4, DefinitionAssumption
<1>6. Past' = Past /\ DraftDsl' = DraftDsl /\ PublishedDsl' = DraftDsl
  BY <1>1, <1>3, <1>4, <1>5 DEF Past, DraftDsl, PublishedDsl
<1>. QED
  BY <1>2, <1>3, <1>6 DEF H!Publish

LEMMA OfflineIsOffline ==
    ASSUME EditInv, NEW r \in Edits, Offline(r) PROVE H!Offline(r)
<1>1. /\ edit[r] = "new" /\ EditGoto(r, "done") /\ UNCHANGED versions
      /\ row # Gone /\ row' = [row EXCEPT !.published = 0]
  BY DEF Offline, Set
<1>2. H!Settle(r)
  BY <1>1, EditsSettleOnce DEF EditInv
<1>3. DraftDsl = row.dsl /\ DraftDsl # Gone /\ row \in Workflow
  BY <1>1, DraftIsOfThePast
<1>4. row' \in Workflow /\ row'.dsl = row.dsl /\ row'.published = 0
  BY <1>1, <1>3 DEF Workflow
<1>5. row' # Gone
  BY <1>4, DefinitionAssumption
<1>6. Past' = Past /\ DraftDsl' = DraftDsl /\ PublishedDsl' = Gone
  BY <1>1, <1>3, <1>4, <1>5 DEF Past, DraftDsl, PublishedDsl
<1>. QED
  BY <1>2, <1>3, <1>6 DEF H!Offline

LEMMA RollbackIsRollback ==
    ASSUME EditInv, NEW r \in Edits, Rollback(r) PROVE H!Rollback(r)
<1>1. PICK v \in DOMAIN versions :
        Set(r, [row EXCEPT !.dsl = versions[v], !.draft = v, !.published = v])
  BY DEF Rollback
<1>2. /\ edit[r] = "new" /\ EditGoto(r, "done") /\ UNCHANGED versions /\ row # Gone
      /\ row' = [row EXCEPT !.dsl = versions[v], !.draft = v, !.published = v]
  BY <1>1 DEF Set
<1>3. H!Settle(r)
  BY <1>2, EditsSettleOnce DEF EditInv
<1>4. DraftDsl # Gone /\ row \in Workflow
  BY <1>2, DraftIsOfThePast
<1>5. v \in Nat \ {0} /\ versions[v] \in Dsl
  BY EditTypes DEF EditInv
<1>6. row' \in Workflow /\ row'.dsl = versions[v] /\ row'.published = v
  BY <1>2, <1>4, <1>5 DEF Workflow
<1>7. row' # Gone
  BY <1>6, DefinitionAssumption
<1>8. Past' = Past /\ DraftDsl' = versions[v] /\ PublishedDsl' = versions[v]
  BY <1>2, <1>5, <1>6, <1>7 DEF Past, DraftDsl, PublishedDsl
<1>9. versions[v] \in Past
  BY DEF Past
<1>. QED
  BY <1>3, <1>4, <1>8, <1>9 DEF H!Rollback

LEMMA DeleteIsDeletion ==
    ASSUME EditInv, NEW r \in Edits, Delete(r) PROVE H!Delete(r)
<1>1. /\ edit[r] = "new" /\ EditGoto(r, "done")
      /\ row # Gone /\ row' = Gone /\ versions' = << >>
  BY DEF Delete
<1>2. H!Settle(r) /\ DraftDsl # Gone
  BY <1>1, EditsSettleOnce, DraftIsOfThePast DEF EditInv
<1>3. Past' = {} /\ DraftDsl' = Gone /\ PublishedDsl' = Gone
  BY <1>1 DEF Past, DraftDsl, PublishedDsl
<1>. QED
  BY <1>2, <1>3 DEF H!Delete

LEMMA EditIsHistory ==
    ASSUME EditInv, NEW r \in Edits, Edit(r) PROVE [H!Next]_(H!historyVars)
<1>1. CASE UpdateRead(r) \/ UpdateNumber(r)
  BY <1>1, ReadsAreSilent
<1>2. CASE UpdateCommit(r)
  BY <1>2, CommitIsRevision DEF H!Next
<1>3. CASE UpdateConflict(r)
  BY <1>3, ConflictIsRefusal DEF H!Next
<1>4. CASE UpdatePlain(r)
  BY <1>4, PlainIsRename DEF H!Next
<1>5. CASE Publish(r)
  BY <1>5, PublishIsPublication DEF H!Next
<1>6. CASE Offline(r)
  BY <1>6, OfflineIsOffline DEF H!Next
<1>7. CASE Rollback(r)
  BY <1>7, RollbackIsRollback DEF H!Next
<1>8. CASE Delete(r)
  BY <1>8, DeleteIsDeletion DEF H!Next
<1>. QED
  BY <1>1, <1>2, <1>3, <1>4, <1>5, <1>6, <1>7, <1>8 DEF Edit

LEMMA NoEditIsSilent ==
    ASSUME UNCHANGED editVars PROVE UNCHANGED H!historyVars
BY DEF editVars, H!historyVars, Past, DraftDsl, PublishedDsl, Settled

-----------------------------------------------------------------------------
(* The requests to run it. *)

StartTypeOK ==
    /\ clock \in 0 .. MaxTime
    /\ start \in [Starts -> StartStep]
    /\ limit \in [Starts -> Limits]
    /\ now \in [Starts -> 0 .. MaxTime]
    /\ log \subseteq Starts
    /\ latest \in 0 .. MaxTime
    /\ skewed \in BOOLEAN
    /\ upTo \in [Starts -> SUBSET Starts]

\* The limiter remembers every admitted request that all breakers look back at
\* from the latest time it was told.
Remembers ==
    /\ \A s \in Admitted : start[s] = "done" /\ now[s] <= latest
    /\ \A s \in log : start[s] = "done"
    /\ \A s \in Admitted : upTo[s] \subseteq Admitted
    /\ ~ skewed =>
         \A q \in Admitted :
            (\A l \in Limits : now[q] >= latest - l.window) => q \in log

IInv == EditInv /\ StartTypeOK /\ Remembers /\ AdmissionsAreLimited

LEMMA Numbers ==
    ASSUME StartTypeOK
    PROVE  /\ latest \in Nat /\ \A s \in Starts : now[s] \in Nat /\ limit[s] \in Limits
           /\ \A l \in Limits : l.window \in Nat /\ l.max \in Nat \ {0}
           /\ MaxTime \in Nat
BY StartAssumption, DefinitionAssumption DEF StartTypeOK

\* Before it asks the limiter, nothing depends on what a request has read.
LEMMA BeforeAllow ==
    ASSUME IInv, NEW s \in Starts, start[s] # "done",
           \A q \in Starts \ {s} :
               start'[q] = start[q] /\ now'[q] = now[q] /\ limit'[q] = limit[q],
           UNCHANGED <<log, latest, skewed, upTo>>
    PROVE  Remembers' /\ AdmissionsAreLimited'
<1>1. s \notin Admitted /\ s \notin log /\ Admitted \subseteq Starts /\ log \subseteq Starts
  BY DEF IInv, Remembers, Admitted, StartTypeOK
<1>2. Admitted' = Admitted
  BY DEF Admitted
<1>3. \A q \in Admitted \cup log :
        start'[q] = start[q] /\ now'[q] = now[q] /\ limit'[q] = limit[q]
  BY <1>1
<1>4. Remembers'
  BY <1>2, <1>3 DEF IInv, Remembers
<1>5. ASSUME NEW q \in Admitted
      PROVE  {p \in upTo'[q] : Within(q, p)'} = {p \in upTo[q] : Within(q, p)}
  <2>1. upTo'[q] = upTo[q] /\ upTo[q] \subseteq Admitted
    BY DEF IInv, Remembers
  <2>2. \A p \in Admitted : Within(q, p)' <=> Within(q, p)
    BY <1>3 DEF Within
  <2>. QED
    BY <2>1, <2>2
<1>6. AdmissionsAreLimited'
  BY <1>2, <1>3, <1>5 DEF IInv, AdmissionsAreLimited
<1>. QED
  BY <1>4, <1>6

LEMMA AllowKeeps ==
    ASSUME IInv, NEW s \in Starts, Allow(s)
    PROVE  StartTypeOK' /\ Remembers' /\ AdmissionsAreLimited'
<1>1. /\ start[s] = "allow" /\ UNCHANGED <<clock, limit, now>>
      /\ latest' = (IF now[s] > latest THEN now[s] ELSE latest)
      /\ skewed' = (skewed \/ now[s] < latest)
      /\ start' = [start EXCEPT ![s] = "done"]
  BY DEF Allow, StartGoto
<1>2. /\ StartTypeOK /\ Remembers /\ AdmissionsAreLimited
      /\ s \notin Admitted /\ s \notin log /\ Admitted \subseteq Starts /\ log \subseteq Starts
  BY <1>1 DEF IInv, Remembers, Admitted, StartTypeOK
<1>3. /\ start' \in [Starts -> StartStep] /\ start'[s] = "done"
      /\ \A q \in Starts \ {s} : start'[q] = start[q]
  BY <1>1, <1>2 DEF StartTypeOK, StartStep
<1>4. /\ latest' \in 0 .. MaxTime /\ latest' \in Nat /\ latest' >= latest /\ latest' >= now[s]
      /\ skewed' \in BOOLEAN
      /\ ~ skewed' => ~ skewed /\ latest' = now[s]
  <2>1. /\ now[s] \in 0 .. MaxTime /\ latest \in 0 .. MaxTime
        /\ now[s] \in Nat /\ latest \in Nat /\ skewed \in BOOLEAN
    BY <1>2, Numbers DEF StartTypeOK
  <2>2. /\ latest' \in 0 .. MaxTime /\ latest' \in Nat /\ latest' >= latest /\ latest' >= now[s]
        /\ ~ (now[s] < latest) => latest' = now[s]
    BY <1>1, <2>1
  <2>3. skewed' \in BOOLEAN
    BY <1>1, <2>1, Zenon
  <2>4. ~ skewed' => ~ skewed /\ ~ (now[s] < latest)
    BY <1>1, Zenon
  <2>. QED
    BY <2>2, <2>3, <2>4, Zenon
<1>5. Retained(s) \subseteq log /\ IsFiniteSet(Retained(s)) /\ Cardinality(Retained(s)) \in Nat
  <2>1. Retained(s) \in SUBSET Starts /\ Retained(s) \subseteq log /\ IsFiniteSet(Starts)
    BY <1>2, StartAssumption DEF Retained
  <2>2. IsFiniteSet(Retained(s))
    BY <2>1, FS_Subset
  <2>. QED
    BY <2>1, <2>2, FS_CardinalityType
\* What is remembered from the new latest time is remembered from the old one,
\* and retained by this call.
<1>6. ASSUME ~ skewed', NEW q \in Admitted, \A l \in Limits : now[q] >= latest' - l.window
      PROVE  q \in Retained(s)
  <2>1. /\ now[q] \in Nat /\ now[s] \in Nat /\ latest \in Nat /\ limit[s] \in Limits
        /\ \A l \in Limits : l.window \in Nat
    BY <1>2, Numbers
  <2>2. \A l \in Limits : now[q] >= latest - l.window
    BY <1>4, <1>6, <2>1
  <2>3. q \in log
    BY <1>2, <1>4, <1>6, <2>2 DEF Remembers
  <2>. QED
    BY <1>4, <1>6, <2>1, <2>3 DEF Retained
<1>7. \A q \in Starts : now'[q] = now[q] /\ limit'[q] = limit[q]
  BY <1>1
<1>8. \A q, p \in Starts : Within(q, p)' <=> Within(q, p)
  BY <1>7 DEF Within
<1>9. CASE log' = Retained(s) /\ UNCHANGED upTo
  <2>1. Admitted' = Admitted
    BY <1>9 DEF Admitted
  <2>2. StartTypeOK'
    BY <1>1, <1>2, <1>3, <1>4, <1>5, <1>9 DEF StartTypeOK
  <2>3. Remembers'
    <3>1. \A q \in Admitted : start'[q] = "done" /\ now'[q] <= latest'
      BY <1>2, <1>3, <1>4, <1>7, Numbers DEF Remembers
    <3>2. \A q \in log' : start'[q] = "done"
      BY <1>2, <1>3, <1>5, <1>9 DEF Remembers
    <3>3. ~ skewed' => \A q \in Admitted :
            (\A l \in Limits : now'[q] >= latest' - l.window) => q \in log'
      BY <1>2, <1>6, <1>7, <1>9
    <3>. QED
      BY <1>2, <1>9, <2>1, <3>1, <3>2, <3>3 DEF Remembers
  <2>4. AdmissionsAreLimited'
    <3>1. ASSUME NEW q \in Admitted
          PROVE  {p \in upTo'[q] : Within(q, p)'} = {p \in upTo[q] : Within(q, p)}
      BY <1>2, <1>8, <1>9 DEF StartTypeOK
    <3>. QED
      BY <1>2, <1>4, <1>7, <2>1, <3>1 DEF AdmissionsAreLimited
  <2>. QED
    BY <2>2, <2>3, <2>4
<1>10. CASE /\ Cardinality(Retained(s)) < limit[s].max
            /\ log' = Retained(s) \cup {s}
            /\ upTo' = [upTo EXCEPT ![s] = Admitted \cup {s}]
  <2>1. /\ upTo' \in [Starts -> SUBSET Starts] /\ upTo'[s] = Admitted \cup {s}
        /\ \A q \in Starts \ {s} : upTo'[q] = upTo[q]
    BY <1>2, <1>10 DEF StartTypeOK
  <2>2. Admitted' = Admitted \cup {s}
    BY <2>1 DEF Admitted
  <2>3. StartTypeOK'
    BY <1>1, <1>2, <1>3, <1>4, <1>5, <1>10, <2>1 DEF StartTypeOK
  <2>4. Remembers'
    <3>1. \A q \in Admitted' : start'[q] = "done" /\ now'[q] <= latest'
      BY <1>2, <1>3, <1>4, <1>7, <2>2, Numbers DEF Remembers
    <3>2. \A q \in log' : start'[q] = "done"
      BY <1>2, <1>3, <1>5, <1>10 DEF Remembers
    <3>3. \A q \in Admitted' : upTo'[q] \subseteq Admitted'
      BY <1>2, <2>1, <2>2 DEF Remembers
    <3>4. ~ skewed' => \A q \in Admitted' :
            (\A l \in Limits : now'[q] >= latest' - l.window) => q \in log'
      BY <1>2, <1>6, <1>7, <1>10, <2>2
    <3>. QED
      BY <3>1, <3>2, <3>3, <3>4 DEF Remembers
  <2>5. ASSUME ~ skewed', NEW q \in Admitted'
        PROVE  Cardinality({p \in upTo'[q] : Within(q, p)'}) <= limit'[q].max
    <3>1. CASE q # s
      <4>1. q \in Admitted /\ upTo'[q] = upTo[q] /\ upTo[q] \subseteq Starts
        BY <1>2, <2>1, <2>2, <3>1 DEF StartTypeOK
      <4>2. {p \in upTo'[q] : Within(q, p)'} = {p \in upTo[q] : Within(q, p)}
        BY <1>2, <1>8, <4>1
      <4>. QED
        BY <1>2, <1>4, <1>7, <2>5, <4>1, <4>2 DEF AdmissionsAreLimited
    <3>2. CASE q = s
      <4>. DEFINE near == {p \in upTo'[s] : Within(s, p)'}
      <4>1. near \subseteq Retained(s) \cup {s}
        <5>. SUFFICES ASSUME NEW p \in Admitted, Within(s, p)' PROVE p \in Retained(s)
          BY <2>1
        <5>1. \A l \in Limits : now[p] >= latest' - l.window
          BY <1>2, <1>4, <1>7, <2>5 DEF Within
        <5>. QED
          BY <5>1, <1>6, <2>5
      <4>2. s \notin Retained(s)
        BY <1>2, <1>5
      <4>3. /\ Cardinality(Retained(s) \cup {s}) = Cardinality(Retained(s)) + 1
            /\ IsFiniteSet(Retained(s) \cup {s})
        BY <1>5, <4>2, FS_AddElement
      <4>4. /\ Cardinality(near) <= Cardinality(Retained(s) \cup {s})
            /\ Cardinality(near) \in Nat
        BY <4>1, <4>3, FS_Subset, FS_CardinalityType
      <4>5. limit[s].max \in Nat /\ limit'[s] = limit[s]
        BY <1>2, <1>7, Numbers
      <4>6. Cardinality(near) <= limit'[s].max
        BY <1>5, <1>10, <4>3, <4>4, <4>5
      <4>. QED
        BY <3>2, <4>6
    <3>. QED
      BY <3>1, <3>2
  <2>6. AdmissionsAreLimited'
    BY <2>5 DEF AdmissionsAreLimited
  <2>. QED
    BY <2>3, <2>4, <2>6
<1>. QED
  BY <1>9, <1>10 DEF Allow

LEMMA StartKeeps ==
    ASSUME IInv, NEW s \in Starts,
           ReadWorkflow(s) \/ ReadPublished(s) \/ ReadClock(s) \/ Allow(s)
    PROVE  IInv'
<1>1. EditInv'
  BY EditUnchanged DEF IInv, ReadWorkflow, ReadPublished, ReadClock, Allow
<1>2. StartTypeOK
  BY DEF IInv
<1>3. CASE ReadWorkflow(s)
  <2>1. row.limit \in Limits
    BY <1>3 DEF ReadWorkflow, IInv, EditInv, EditTypeOK, Workflow
  <2>2. StartTypeOK'
    BY <1>2, <1>3, <2>1 DEF ReadWorkflow, StartGoto, StartTypeOK, StartStep
  <2>3. Remembers' /\ AdmissionsAreLimited'
    BY <1>2, <1>3, BeforeAllow DEF ReadWorkflow, StartGoto, StartTypeOK
  <2>. QED
    BY <1>1, <2>2, <2>3 DEF IInv
<1>4. CASE ReadPublished(s)
  <2>1. StartTypeOK'
    BY <1>2, <1>4 DEF ReadPublished, StartGoto, StartTypeOK, StartStep
  <2>2. Remembers' /\ AdmissionsAreLimited'
    BY <1>2, <1>4, BeforeAllow DEF ReadPublished, StartGoto, StartTypeOK
  <2>. QED
    BY <1>1, <2>1, <2>2 DEF IInv
<1>5. CASE ReadClock(s)
  <2>1. StartTypeOK'
    BY <1>2, <1>5 DEF ReadClock, StartGoto, StartTypeOK, StartStep
  <2>2. Remembers' /\ AdmissionsAreLimited'
    BY <1>2, <1>5, BeforeAllow DEF ReadClock, StartGoto, StartTypeOK
  <2>. QED
    BY <1>1, <2>1, <2>2 DEF IInv
<1>6. CASE Allow(s)
  BY <1>1, <1>6, AllowKeeps DEF IInv
<1>. QED
  BY <1>3, <1>4, <1>5, <1>6

\* A step that leaves the requests to run it alone.
LEMMA StartsUnchanged ==
    ASSUME IInv, UNCHANGED <<start, limit, now, log, latest, skewed, upTo>>
    PROVE  Remembers' /\ AdmissionsAreLimited'
<1>1. Admitted' = Admitted
  BY DEF Admitted
<1>2. \A q, p \in Starts : Within(q, p)' <=> Within(q, p)
  BY DEF Within
<1>3. Remembers'
  BY <1>1 DEF IInv, Remembers
<1>4. ASSUME NEW q \in Admitted
      PROVE  {p \in upTo'[q] : Within(q, p)'} = {p \in upTo[q] : Within(q, p)}
  BY <1>2 DEF Admitted, IInv, StartTypeOK
<1>5. AdmissionsAreLimited'
  BY <1>1, <1>4 DEF IInv, AdmissionsAreLimited
<1>. QED
  BY <1>3, <1>5

LEMMA InitIInv == Init => IInv
<1>. SUFFICES ASSUME Init PROVE IInv
  OBVIOUS
<1>1. PICK l \in Limits : row = [draft |-> 1, published |-> 0, dsl |-> FirstDsl, limit |-> l]
  BY DEF Init, EditInit
<1>2. row \in Workflow /\ row.draft = 1 /\ row.published = 0 /\ row.dsl = FirstDsl
      /\ row.limit \in Limits
  BY <1>1 DEF Workflow, Dsl
<1>3. /\ versions = <<FirstDsl>> /\ edit = [r \in Edits |-> "new"]
      /\ seen = [r \in Edits |-> row] /\ next = [r \in Edits |-> 0] /\ raced = {}
  BY DEF Init, EditInit
<1>4. versions \in Seq(Dsl)
  BY <1>3 DEF Dsl
<1>5. EditTypeOK
  BY <1>2, <1>3, <1>4 DEF EditTypeOK, EditStep
<1>6. ShownDslIsDraft
  BY <1>2, <1>3 DEF ShownDslIsDraft, Coherent
<1>7. \A r \in Edits : Fits(r)
  BY <1>3 DEF Fits
<1>8. 0 \in 0 .. MaxTime
  BY StartAssumption
<1>9. StartTypeOK
  BY <1>2, <1>8 DEF Init, StartTypeOK, StartStep
<1>10. Admitted = {} /\ log = {}
  BY DEF Init, Admitted
<1>11. Remembers /\ AdmissionsAreLimited
  BY <1>10 DEF Remembers, AdmissionsAreLimited
<1>. QED
  BY <1>5, <1>6, <1>7, <1>9, <1>11 DEF IInv, EditInv

LEMMA StepIInv == IInv /\ [Next]_vars => IInv'
<1>. SUFFICES ASSUME IInv, [Next]_vars PROVE IInv'
  OBVIOUS
<1>1. ASSUME NEW r \in Edits, Edit(r), UNCHANGED startVars PROVE IInv'
  <2>1. StartTypeOK' /\ UNCHANGED <<start, limit, now, log, latest, skewed, upTo>>
    BY <1>1 DEF startVars, IInv, StartTypeOK
  <2>. QED
    BY <1>1, <2>1, EditKeeps, StartsUnchanged DEF IInv
<1>2. ASSUME NEW s \in Starts,
             ReadWorkflow(s) \/ ReadPublished(s) \/ ReadClock(s) \/ Allow(s)
      PROVE  IInv'
  BY <1>2, StartKeeps
<1>3. CASE Tick
  <2>1. StartTypeOK' /\ UNCHANGED <<start, limit, now, log, latest, skewed, upTo>>
    BY <1>3, StartAssumption DEF Tick, IInv, StartTypeOK
  <2>. QED
    BY <1>3, <2>1, EditUnchanged, StartsUnchanged DEF Tick, IInv
<1>4. CASE UNCHANGED vars
  <2>1. StartTypeOK' /\ UNCHANGED <<start, limit, now, log, latest, skewed, upTo>>
    BY <1>4 DEF vars, startVars, IInv, StartTypeOK
  <2>. QED
    BY <1>4, <2>1, EditUnchanged, StartsUnchanged DEF vars, IInv
<1>. QED
  BY <1>1, <1>2, <1>3, <1>4 DEF Next

LEMMA Invariance == Spec => []IInv
BY InitIInv, StepIInv, PTL DEF Spec

\* Every variable keeps its type.
THEOREM TypeCorrect == Spec => []TypeOK
<1>1. IInv => TypeOK
  BY DEF IInv, EditInv, StartTypeOK, TypeOK
<1>. QED
  BY <1>1, Invariance, PTL

\* Overlapping updates, edits, rollbacks and publications never part the DSL that
\* is shown from the draft's, nor leave a pointer to a version that is not there.
THEOREM DraftIsShown == Spec => []ShownDslIsDraft
<1>1. IInv => ShownDslIsDraft
  BY DEF IInv, EditInv
<1>. QED
  BY <1>1, Invariance, PTL

\* An update with a DSL is refused only because of one that came in between.
THEOREM RefusalsAreRaces == Spec => []OnlyRacesAreRefused
<1>1. IInv => OnlyRacesAreRefused
  BY DEF IInv, EditInv, Fits, OnlyRacesAreRefused
<1>. QED
  BY <1>1, Invariance, PTL

\* As long as the clock is read in the order of the lock, no request is let
\* through beyond its maximum, however the breaker is edited.
THEOREM LimiterHolds == Spec => []AdmissionsAreLimited
<1>1. IInv => AdmissionsAreLimited
  BY DEF IInv
<1>. QED
  BY <1>1, Invariance, PTL

\* The workflow, its versions and the statements that change them are, to its
\* editors and users, a history in which each request takes effect at once:
\* UpdateCommit is where an update does.
THEOREM DefinitionImplementsHistory == Spec => ImplementsHistory
<1>1. Init => H!Init
  <2>. SUFFICES ASSUME Init PROVE H!Init
    OBVIOUS
  <2>1. PICK l \in Limits :
          row = [draft |-> 1, published |-> 0, dsl |-> FirstDsl, limit |-> l]
    BY DEF Init, EditInit
  <2>2. row.published = 0 /\ row.dsl = FirstDsl /\ row # Gone
    <3>1. row \in Workflow
      BY <2>1 DEF Workflow, Dsl
    <3>. QED
      BY <2>1, <3>1, DefinitionAssumption
  <2>3. versions = <<FirstDsl>> /\ edit = [r \in Edits |-> "new"]
    BY DEF Init, EditInit
  <2>4. Past = {FirstDsl}
    BY <2>3 DEF Past
  <2>5. DraftDsl = FirstDsl /\ PublishedDsl = Gone
    BY <2>2 DEF DraftDsl, PublishedDsl
  <2>6. Settled = {}
    BY <2>3 DEF Settled
  <2>. QED
    BY <2>4, <2>5, <2>6 DEF H!Init
<1>2. IInv /\ [Next]_vars => [H!Next]_(H!historyVars)
  <2>. SUFFICES ASSUME IInv, [Next]_vars PROVE [H!Next]_(H!historyVars)
    OBVIOUS
  <2>1. CASE \E r \in Edits : Edit(r)
    BY <2>1, EditIsHistory DEF IInv
  <2>2. CASE UNCHANGED editVars
    BY <2>2, NoEditIsSilent
  <2>. QED
    BY <2>1, <2>2 DEF Next, vars, ReadWorkflow, ReadPublished, ReadClock, Allow, Tick
<1>. QED
  BY <1>1, <1>2, Invariance, PTL DEF Spec, H!Spec, ImplementsHistory

=============================================================================
