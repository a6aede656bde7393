----------------------------- MODULE WorkflowHistory -----------------------------
(***************************************************************************)
(* What the editors of a workflow are promised, with no version numbers,   *)
(* no statements and no transactions between them: each request takes      *)
(* effect once and whole, or is refused; whatever is shown or published is *)
(* a definition of its past; and what users run changes only when somebody *)
(* publishes, takes it offline, rolls it back or deletes it.               *)
(***************************************************************************)

CONSTANTS
    Edits,       \* requests, each with the definition it may bring
    FirstDsl,    \* the definition the workflow was created with
    None         \* no definition

VARIABLES
    past,        \* the definitions it has had
    draft,       \* the one its editors see
    published,   \* the one its users run
    settled      \* the requests that have been answered

historyVars == <<past, draft, published, settled>>

Init ==
    /\ past = {FirstDsl}
    /\ draft = FirstDsl
    /\ published = None
    /\ settled = {}

Settle(r) ==
    /\ r \notin settled
    /\ settled' = settled \cup {r}

\* The request's own definition becomes the draft.
Revise(r) ==
    /\ Settle(r)
    /\ draft # None
    /\ past' = past \cup {r}
    /\ draft' = r
    /\ UNCHANGED published

\* An edit of the name only: a draft that was seen before may come back.
Rename(r) ==
    /\ Settle(r)
    /\ draft # None
    /\ draft' \in past
    /\ UNCHANGED <<past, published>>

Publish(r) ==
    /\ Settle(r)
    /\ draft # None
    /\ published' = draft
    /\ UNCHANGED <<past, draft>>

Offline(r) ==
    /\ Settle(r)
    /\ draft # None
    /\ published' = None
    /\ UNCHANGED <<past, draft>>

Rollback(r) ==
    /\ Settle(r)
    /\ draft # None
    /\ \E d \in past : draft' = d /\ published' = d
    /\ UNCHANGED past

Delete(r) ==
    /\ Settle(r)
    /\ draft # None
    /\ past' = {} /\ draft' = None /\ published' = None

Refuse(r) ==
    /\ Settle(r)
    /\ UNCHANGED <<past, draft, published>>

Next ==
    \E r \in Edits :
        \/ Revise(r) \/ Rename(r) \/ Publish(r) \/ Offline(r)
        \/ Rollback(r) \/ Delete(r) \/ Refuse(r)

Spec == Init /\ [][Next]_historyVars

==================================================================================
