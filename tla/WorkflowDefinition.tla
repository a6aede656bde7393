-------------------------- MODULE WorkflowDefinition --------------------------
(***************************************************************************)
(* A workflow as its editors change it: its row, with the pointers to the   *)
(* draft and to the published version and a copy of the draft's DSL, and    *)
(* its versions (repository/postgres_workflow_repository.go).               *)
(*                                                                         *)
(* An update reads the row and the highest version outside of the           *)
(* transaction that writes, so that other requests come in between.  The    *)
(* transaction is one step: its INSERT shows with its commit, and one that  *)
(* would collide waits for it.  The other operations are one step as well:  *)
(* what they read before their single UPDATE is the row's existence, or a   *)
(* version, which never changes.  A statement that fails changes nothing    *)
(* and is left out, as are names and descriptions.                          *)
(***************************************************************************)
EXTENDS Integers, Sequences

CONSTANTS
    Edits,       \* requests to change the workflow; each brings a DSL of its own
    FirstDsl,    \* the DSL it was created with
    Limits,      \* what its breaker may be set to
    Gone         \* no row, no definition

Dsl == Edits \cup {FirstDsl}

Workflow == [draft : Nat \ {0}, published : Nat, dsl : Dsl, limit : Limits]

ASSUME DefinitionAssumption ==
    /\ FirstDsl \notin Edits
    /\ Limits \subseteq [window : Nat \ {0}, max : Nat \ {0}]
    /\ Gone \notin Workflow \cup Dsl

VARIABLES
    row,         \* the workflow's row
    versions,    \* its versions, from the first
    edit,        \* where each request to change it is
    seen,        \* the row it has read
    next,        \* the number it has given its version
    raced        \* history: others changed what these had read

editVars == <<row, versions, edit, seen, next, raced>>

EditStep == {"new", "number", "insert", "plain", "done", "refused"}

\* What Create leaves behind.
EditInit ==
    /\ \E l \in Limits : row = [draft |-> 1, published |-> 0, dsl |-> FirstDsl, limit |-> l]
    /\ versions = <<FirstDsl>>
    /\ edit = [r \in Edits |-> "new"]
    /\ seen = [r \in Edits |-> row]
    /\ next = [r \in Edits |-> 0]
    /\ raced = {}

EditGoto(r, s) == edit' = [edit EXCEPT ![r] = s]

-----------------------------------------------------------------------------
(* Update. *)

\* FindByID; the request brings a DSL or not.  (Without a row it is a 404.)
UpdateRead(r) ==
    /\ edit[r] = "new"
    /\ row # Gone
    /\ seen' = [seen EXCEPT ![r] = row]
    /\ \E s \in {"number", "plain"} : EditGoto(r, s)
    /\ UNCHANGED <<row, versions, next, raced>>

\* Mutant: the version after the draft.
UpdateNumberFromDraft(r) ==
    /\ edit[r] = "number"
    /\ next' = [next EXCEPT ![r] = seen[r].draft + 1]
    /\ EditGoto(r, "insert")
    /\ UNCHANGED <<row, versions, seen, raced>>

\* SELECT COALESCE(MAX(version_no), 0), and one more.
UpdateNumber(r) ==
    /\ edit[r] = "number"
    /\ next' = [next EXCEPT ![r] = Len(versions) + 1]
    /\ EditGoto(r, "insert")
    /\ UNCHANGED <<row, versions, seen, raced>>

\* The numbers that other updates have counted are outdated.
OutdatesNumbers == raced' = raced \cup {r \in Edits : edit[r] = "insert"}

\* The new version becomes the draft.
UpdateCommit(r) ==
    /\ edit[r] = "insert"
    /\ row # Gone /\ next[r] = Len(versions) + 1
    /\ versions' = Append(versions, r)
    /\ \E l \in Limits :
          row' = [row EXCEPT !.draft = next[r], !.dsl = r, !.limit = l]
    /\ EditGoto(r, "done")
    /\ OutdatesNumbers
    /\ UNCHANGED <<seen, next>>

\* The number has been taken, or the workflow is gone.
UpdateConflict(r) ==
    /\ edit[r] = "insert"
    /\ row = Gone \/ next[r] # Len(versions) + 1
    /\ EditGoto(r, "refused")
    /\ UNCHANGED <<row, versions, seen, next, raced>>

\* Mutant: it writes the published version back as well.
UpdatePlainWhole(r) ==
    /\ edit[r] = "plain"
    /\ \E l \in Limits : row' = IF row = Gone THEN Gone ELSE [seen[r] EXCEPT !.limit = l]
    /\ EditGoto(r, "done")
    /\ UNCHANGED <<versions, seen, next, raced>>

\* Mutant: it leaves the draft's number alone and writes its DSL.
UpdatePlainDslOnly(r) ==
    /\ edit[r] = "plain"
    /\ \E l \in Limits :
          row' = IF row = Gone THEN Gone
                 ELSE [row EXCEPT !.dsl = seen[r].dsl, !.limit = l]
    /\ EditGoto(r, "done")
    /\ UNCHANGED <<versions, seen, next, raced>>

\* Without a DSL the draft and its DSL are written back as they were read.
UpdatePlain(r) ==
    /\ edit[r] = "plain"
    /\ \E l \in Limits :
          row' = IF row = Gone THEN Gone
                 ELSE [row EXCEPT !.draft = seen[r].draft, !.dsl = seen[r].dsl, !.limit = l]
    /\ EditGoto(r, "done")
    /\ UNCHANGED <<versions, seen, next, raced>>

-----------------------------------------------------------------------------
(* The other operations. *)

\* One UPDATE of the row.
Set(r, new) ==
    /\ edit[r] = "new"
    /\ row # Gone
    /\ row' = new
    /\ EditGoto(r, "done")
    /\ UNCHANGED <<versions, seen, next, raced>>

Publish(r) == Set(r, [row EXCEPT !.published = row.draft])

Offline(r) == Set(r, [row EXCEPT !.published = 0])

\* To any version; it becomes the draft and the published one.
Rollback(r) ==
    \E v \in DOMAIN versions :
        Set(r, [row EXCEPT !.dsl = versions[v], !.draft = v, !.published = v])

\* The versions go with the row.
Delete(r) ==
    /\ edit[r] = "new"
    /\ row # Gone
    /\ row' = Gone
    /\ versions' = << >>
    /\ EditGoto(r, "done")
    /\ raced' = raced \cup {q \in Edits : edit[q] \in {"number", "insert"}}
    /\ UNCHANGED <<seen, next>>

Edit(r) ==
    \/ UpdateRead(r) \/ UpdateNumber(r) \/ UpdateCommit(r) \/ UpdateConflict(r)
    \/ UpdatePlain(r)
    \/ Publish(r) \/ Offline(r) \/ Rollback(r) \/ Delete(r)

-----------------------------------------------------------------------------
(* Properties. *)

\* Every variable keeps its type.
EditTypeOK ==
    /\ row \in Workflow \cup {Gone}
    /\ versions \in Seq(Dsl)
    /\ edit \in [Edits -> EditStep]
    /\ seen \in [Edits -> Workflow]
    /\ next \in [Edits -> Nat]
    /\ raced \subseteq Edits

\* w's pointers name versions, and its DSL is that of its draft.
Coherent(w) ==
    /\ w.draft \in DOMAIN versions
    /\ w.published \in DOMAIN versions \cup {0}
    /\ w.dsl = versions[w.draft]

\* The DSL an editor is shown is the one that Publish publishes, whatever
\* updates, rollbacks and edits of the name overlap: an edit that overwrites
\* the row with what it read takes the draft and its DSL back together.
ShownDslIsDraft == row # Gone => Coherent(row)

\* An update that brings a DSL is refused only if another one, or a deletion,
\* came between what it read and its transaction; a rollback before it, which
\* leaves the draft behind the highest version, does not matter.
OnlyRacesAreRefused == \A r \in Edits : edit[r] = "refused" => r \in raced

\* What all of this comes to for the workflow's editors and users.
Past == {versions[v] : v \in DOMAIN versions}
DraftDsl == IF row = Gone THEN Gone ELSE row.dsl
PublishedDsl ==
    IF row = Gone THEN Gone ELSE IF row.published = 0 THEN Gone ELSE versions[row.published]
Settled == {r \in Edits : edit[r] \in {"done", "refused"}}

H == INSTANCE WorkflowHistory WITH
        past <- Past, draft <- DraftDsl, published <- PublishedDsl,
        settled <- Settled, None <- Gone

\* The numbers of the versions, which several requests count, read and write back
\* in statements of their own, add up to what editors are promised: each request
\* takes effect at one instant or is refused, what Publish publishes is the
\* definition that is shown, and no edit of the draft, however late it writes
\* what it has read, changes what users run.
ImplementsHistory == H!Spec

=============================================================================
