---------------------------- MODULE ExecutionJobs ----------------------------
(***************************************************************************)
(* One job on an execution backend (execution/jobs.py): JobSession starts  *)
(* it and pages its events through a JobObserver.  The backend is external *)
(* and unreliable: replies are lost, events are delivered again, those of  *)
(* an earlier generation late, history is compacted, the job itself may be *)
(* started over by its owner.  The host saves the cursor between two calls *)
(* and may die.                                                            *)
(***************************************************************************)
EXTENDS Integers, FiniteSets, FiniteSetsExt

CONSTANTS
    MaxGeneration,  \* bound: how often the backend starts the job over
    MaxSequence,    \* bound: events of a generation
    max_pages,      \* the limit of observe_to_terminal
    MaxCrashes      \* bound: how often the host dies

\* What the constants have to be.
JobsAssumption ==
    /\ MaxGeneration \in Nat \ {0} /\ MaxSequence \in Nat
    /\ max_pages \in Nat \ {0} /\ MaxCrashes \in Nat

Event == (1 .. MaxGeneration) \X (0 .. MaxSequence)   \* identity_key
NoState == "none"

VARIABLES
    job,        \* the backend's job: generation, events, compacted ones, whether it ended
    pc,         \* of the host
    handle,     \* generation of the host's handle
    cursor,     \* last_sequence
    observer,   \* JobObserver: seen events, needs_snapshot, complete; and pages read
    saved,      \* history of the host: the last cursor it saved, with the handle
    shown,      \* history: how often on_event got an event, and what earlier processes got
    result,     \* what observe_to_terminal returned
    crashes

vars == <<job, pc, handle, cursor, observer, saved, shown, result, crashes>>

NewObserver == [seen |-> {}, needs_snapshot |-> FALSE, complete |-> FALSE, pages |-> 0]
Unseen == [e \in Event |-> 0]
NoResult == [generation |-> 0, state |-> NoState]
initial_cursor == -1

Init ==
    /\ job = [generation |-> 0, last |-> -1, compacted |-> -1, ended |-> FALSE]
    /\ pc = "new"
    /\ handle = 0
    /\ cursor = initial_cursor
    /\ observer = NewObserver
    /\ saved = initial_cursor
    /\ shown = [now |-> Unseen, before |-> {}]
    /\ result = NoResult
    /\ crashes = 0

(***************************************************************************)
(* The backend.                                                            *)
(***************************************************************************)
Produce(ends) ==
    /\ job.generation > 0 /\ ~job.ended /\ job.last < MaxSequence
    /\ job' = [job EXCEPT !.last = @ + 1, !.ended = ends]
    /\ UNCHANGED <<pc, handle, cursor, observer, saved, shown, result, crashes>>

Compact ==
    /\ job.compacted < job.last
    /\ job' = [job EXCEPT !.compacted = @ + 1]
    /\ UNCHANGED <<pc, handle, cursor, observer, saved, shown, result, crashes>>

StartOver ==
    /\ job.generation \in 1 .. MaxGeneration - 1
    /\ job' = [generation |-> job.generation + 1, last |-> -1, compacted |-> -1, ended |-> FALSE]
    /\ UNCHANGED <<pc, handle, cursor, observer, saved, shown, result, crashes>>

(***************************************************************************)
(* JobSession.start.                                                       *)
(***************************************************************************)
\* start_job: the job starts or not, and its reply arrives or not.
start(starts, replies) ==
    /\ pc = "new"
    /\ replies => starts
    /\ job' = IF starts THEN [job EXCEPT !.generation = 1] ELSE job
    /\ handle' = IF replies THEN 1 ELSE handle
    /\ pc' = IF replies THEN "observe" ELSE "lookup"
    /\ UNCHANGED <<cursor, observer, saved, shown, result, crashes>>

\* lookup_job by the idempotency key: found, or the dispatch is indeterminate.
lookup_job(found) ==
    /\ pc = "lookup"
    /\ found => job.generation > 0
    /\ handle' = IF found THEN job.generation ELSE handle
    /\ pc' = IF found THEN "observe" ELSE "indeterminate"
    /\ UNCHANGED <<job, cursor, observer, saved, shown, result, crashes>>

(***************************************************************************)
(* JobSession.observe_to_terminal.                                         *)
(***************************************************************************)
fence_stale(generation) == generation # handle

Terminal(event) == event[1] = job.generation /\ job.ended /\ event[2] = job.last

\* The events of a page that ingest returns.
Fresh(events) == {e \in events : ~fence_stale(e[1]) /\ e \notin observer.seen}

\* on_event is called with each of them.
Handed(events) == [e \in Event |-> shown.now[e] + (IF e \in Fresh(events) THEN 1 ELSE 0)]

\* Mutant: a page behind a gap is taken like any other.
IngestNoGap(events, next, gap, complete) ==
    /\ observer' = [observer EXCEPT !.seen = @ \cup Fresh(events),
                                    !.complete = @ \/ complete,
                                    !.pages = Min({@ + 1, max_pages})]
    /\ shown' = [shown EXCEPT !.now = Handed(events)]
    /\ cursor' = next

\* JobObserver.ingest, and on_event for every event it returns.
ingest(events, next, gap, complete) ==
    /\ observer' = [observer EXCEPT !.seen = @ \cup Fresh(events),
                                    !.needs_snapshot = @ \/ gap,
                                    !.complete = @ \/ complete
                                                 \/ \E e \in Fresh(events) : Terminal(e),
                                    !.pages = Min({@ + 1, max_pages})]
    /\ shown' = [shown EXCEPT !.now = Handed(events)]
    /\ cursor' = next

\* Mutant: an empty page is asked for again, for as long as it is empty.
KeepsAsking(events) ==
    /\ ~observer'.needs_snapshot /\ ~observer'.complete
    /\ events = {} \/ observer.pages + 1 < max_pages

\* Whether the loop reads another page.
ReadsOn(events) ==
    /\ ~observer'.needs_snapshot /\ ~observer'.complete
    /\ events # {} /\ observer.pages + 1 < max_pages

\* observe: what follows the cursor, some of what came before it and some late events of an
\* earlier generation.  A cursor of an earlier generation gets the present one's events.
observe ==
    /\ pc = "observe"
    /\ \E from \in -1 .. cursor, to \in -1 .. job.last, late \in SUBSET Event :
          /\ to >= Min({cursor, job.last})
          /\ late \subseteq {e \in Event : e[1] < job.generation} /\ Cardinality(late) <= 1
          /\ LET events == late \cup {<<job.generation, s>> : s \in
                                  {n \in 0 .. MaxSequence : from < n /\ n <= to /\ n > job.compacted}}
             IN /\ ingest(events, Max({cursor, to}), job.compacted > cursor, job.ended /\ to = job.last)
                /\ pc' = IF ReadsOn(events) THEN "observe" ELSE "snapshot"
    /\ UNCHANGED <<job, handle, saved, result, crashes>>

\* The transport fails while a page is read.
ObserveLost ==
    /\ pc = "observe"
    /\ pc' = "snapshot"
    /\ UNCHANGED <<job, handle, cursor, observer, saved, shown, result, crashes>>

\* snapshot, and resolve_terminal of a new observer: whatever its generation, it is returned.
resolve_terminal ==
    /\ pc = "snapshot"
    /\ result' = [generation |-> job.generation,
                  state |-> IF job.ended THEN "completed" ELSE "running"]
    /\ pc' = "returned"
    /\ UNCHANGED <<job, handle, cursor, observer, saved, shown, crashes>>

(***************************************************************************)
(* The host.                                                               *)
(***************************************************************************)
\* persist_job_recovery with the position reached.
persist_job_recovery ==
    /\ pc = "observe" /\ saved # cursor
    /\ saved' = cursor
    /\ UNCHANGED <<job, pc, handle, cursor, observer, shown, result, crashes>>

\* The host dies while it observes; a new one restores the handle and the cursor, and has
\* an observer that has seen nothing.
restore_job_recovery ==
    /\ pc \in {"observe", "snapshot"} /\ crashes < MaxCrashes
    /\ crashes' = crashes + 1
    /\ pc' = "observe"
    /\ cursor' = saved
    /\ observer' = NewObserver
    /\ shown' = [now |-> Unseen, before |-> shown.before \cup {e \in Event : shown.now[e] > 0}]
    /\ UNCHANGED <<job, handle, saved, result>>

Next ==
    \/ \E starts, replies \in BOOLEAN : start(starts, replies)
    \/ \E found \in BOOLEAN : lookup_job(found)
    \/ observe \/ ObserveLost \/ resolve_terminal
    \/ persist_job_recovery \/ restore_job_recovery
    \/ \E ends \in BOOLEAN : Produce(ends)
    \/ Compact \/ StartOver

\* A call of the backend returns, so the host goes on; no transport has to fail for that.
Spec == Init /\ [][Next]_vars
FairSpec == Spec /\ WF_vars(observe) /\ WF_vars(resolve_terminal)

-----------------------------------------------------------------------------
\* "Fresh, in-generation, non-duplicate events are handed to on_event": however pages overlap
\* and however late others arrive, a process is shown an event once, and only events of the
\* generation it holds the handle of.
ShownOnce ==
    \A e \in Event : shown.now[e] <= 1 /\ (shown.now[e] > 0 => ~fence_stale(e[1]))

\* "a compaction gap falls back to the terminal snapshot": up to the cursor every event of
\* the handle's generation was shown, now or to an earlier process, or the loop knows that it
\* has a gap, or the job was started over.
NothingIsMissed ==
    pc = "observe" /\ handle = job.generation =>
        \A s \in 0 .. cursor : <<handle, s>> \in shown.before \/ shown.now[<<handle, s>>] > 0

\* The observation ends: a quiet job, an endless one, a lost transport and a host that dies
\* all lead to an answer.
ObservationEnds == (pc = "observe") ~> (pc = "returned")

\* "A snapshot from a stale generation is fenced (ignored, prior terminal kept)": the answer
\* is one of the handle's generation.
StaleTerminalIsFenced == pc = "returned" => result.generation = handle

\* "Observe ... to terminal": the answer is that of a job that has ended.
ReturnsATerminal ==
    pc = "returned" /\ result.generation = handle => result.state = "completed"
=============================================================================
