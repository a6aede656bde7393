---------------------------- MODULE WorkflowStart ----------------------------
(***************************************************************************)
(* The requests of one user to run a workflow, while others edit it: the    *)
(* start of WorkflowExecutionHandler.Start and the limiter it asks          *)
(* (service/workflow_execution_rate_limiter.go).  The limiter's map has one *)
(* log for each user and workflow, and the logs have nothing in common.     *)
(*                                                                         *)
(* A request reads the row, then the published DSL, then the clock, and     *)
(* only then takes the limiter's lock: its breaker may be outdated by then, *)
(* and readings may come out of order.                                      *)
(***************************************************************************)
EXTENDS WorkflowDefinition, FiniteSets

CONSTANTS
    Starts,      \* requests to run the workflow
    MaxTime      \* bound: ticks of the clock

ASSUME StartAssumption ==
    /\ IsFiniteSet(Starts)
    /\ MaxTime \in Nat

VARIABLES
    clock,
    start,       \* where each request to run it is
    limit,       \* the breaker it has read
    now,         \* the time it has read
    log,         \* the limiter's log: the requests whose times are in it
    latest,      \* history: the latest time the limiter was told
    skewed,      \* history: it was told an earlier time after a later one
    upTo         \* history: for each admitted request, those up to it

startVars == <<clock, start, limit, now, log, latest, skewed, upTo>>
vars == <<editVars, startVars>>

StartStep == {"new", "published", "clock", "allow", "done"}

Init ==
    /\ EditInit
    /\ clock = 0
    /\ start = [s \in Starts |-> "new"]
    /\ limit = [s \in Starts |-> row.limit]
    /\ now = [s \in Starts |-> 0]
    /\ log = {}
    /\ latest = 0
    /\ skewed = FALSE
    /\ upTo = [s \in Starts |-> {}]

StartGoto(s, t) == start' = [start EXCEPT ![s] = t]

-----------------------------------------------------------------------------
\* GetByID, for the breaker.
ReadWorkflow(s) ==
    /\ start[s] = "new"
    /\ row # Gone
    /\ limit' = [limit EXCEPT ![s] = row.limit]
    /\ StartGoto(s, "published")
    /\ UNCHANGED <<editVars, clock, now, log, latest, skewed, upTo>>

\* GetPublishedDSLByID: a workflow that is not published is refused.  So is a
\* request whose input, or whose user's configuration, is not complete.
ReadPublished(s) ==
    /\ start[s] = "published"
    /\ \/ row # Gone /\ row.published > 0 /\ StartGoto(s, "clock")
       \/ StartGoto(s, "done")
    /\ UNCHANGED <<editVars, clock, limit, now, log, latest, skewed, upTo>>

ReadClock(s) ==
    /\ start[s] = "clock"
    /\ now' = [now EXCEPT ![s] = clock]
    /\ StartGoto(s, "allow")
    /\ UNCHANGED <<editVars, clock, limit, log, latest, skewed, upTo>>

\* Mutant: what is exactly one window old is forgotten.
RetainedStrictly(s) == {q \in log : now[q] > now[s] - limit[s].window}

\* What the log keeps.
Retained(s) == {q \in log : now[q] >= now[s] - limit[s].window}

Admitted == {s \in Starts : upTo[s] # {}}

\* Under the lock.
Allow(s) ==
    /\ start[s] = "allow"
    /\ \/ /\ Cardinality(Retained(s)) >= limit[s].max
          /\ log' = Retained(s)
          /\ UNCHANGED upTo
       \/ /\ Cardinality(Retained(s)) < limit[s].max
          /\ log' = Retained(s) \cup {s}
          /\ upTo' = [upTo EXCEPT ![s] = Admitted \cup {s}]
    /\ latest' = IF now[s] > latest THEN now[s] ELSE latest
    /\ skewed' = (skewed \/ now[s] < latest)
    /\ StartGoto(s, "done")
    /\ UNCHANGED <<editVars, clock, limit, now>>

Tick ==
    /\ clock < MaxTime
    /\ clock' = clock + 1
    /\ UNCHANGED <<editVars, start, limit, now, log, latest, skewed, upTo>>

Next ==
    \/ \E r \in Edits : Edit(r) /\ UNCHANGED startVars
    \/ \E s \in Starts : ReadWorkflow(s) \/ ReadPublished(s) \/ ReadClock(s) \/ Allow(s)
    \/ Tick

Spec == Init /\ [][Next]_vars

-----------------------------------------------------------------------------
(* Properties. *)

\* Every variable keeps its type.
TypeOK ==
    /\ EditTypeOK
    /\ clock \in 0 .. MaxTime
    /\ start \in [Starts -> StartStep]
    /\ limit \in [Starts -> Limits]
    /\ now \in [Starts -> 0 .. MaxTime]
    /\ log \subseteq Starts
    /\ latest \in 0 .. MaxTime
    /\ skewed \in BOOLEAN
    /\ upTo \in [Starts -> SUBSET Starts]

\* Whatever the breaker is set to, it looks back from s at q.
Within(s, q) == \A l \in Limits : now[q] >= now[s] - l.window

\* A request is let through only if, with it, no more have been than its maximum
\* allows, however the breaker was edited in between; a narrower breaker may make
\* the limiter forget, so this counts the requests that every breaker looks back
\* at.  It needs the clock to be read in the order in which the lock is taken.
AdmissionsAreLimited ==
    ~ skewed =>
        \A s \in Admitted : Cardinality({q \in upTo[s] : Within(s, q)}) <= limit[s].max

=============================================================================
