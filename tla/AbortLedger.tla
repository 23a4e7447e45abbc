----------------------------- MODULE AbortLedger -----------------------------
(***************************************************************************)
(* The durable abort ledger of runtime/control/abort_store.py and the      *)
(* runner that closes a run's row (runtime/runner.py,                      *)
(* _finalize_abort_lifecycle).  Hosts in any process request a stop while  *)
(* the run is driven, paused, being finalized or over; the runner writes   *)
(* the row with several store calls and may crash between them.  The two   *)
(* implementations of the ledger are driven by the same calls, side by     *)
(* side: the row of the lock-guarded dict and the row of the SQL table     *)
(* (SQLite and PostgreSQL run the same statements).                        *)
(***************************************************************************)
EXTENDS Naturals

CONSTANTS
    Workers,   \* processes that drive the run
    Reasons,   \* reasons of stop requests and handle aborts
    NoReason   \* reason is None

\* What the constants have to be.
ReasonAssumption == NoReason \notin Reasons

VARIABLES
    rows,     \* the run's row in each implementation
    phase,    \* where each process is
    outcome,  \* the terminal output its drive returned
    handle,   \* the reason its process-local handle was aborted with
    early     \* history: a row was on the ledger when its drive returned

vars == <<rows, phase, outcome, handle, early>>

Impl == {"memory", "sql"}
AbortLifecycleState == {"requested", "observed", "cancelled", "completed_before_cancel"}
Terminal == {"cancelled", "completed_before_cancel"}
AbortRecord ==
    [state : AbortLifecycleState \cup {"absent"}, observed : BOOLEAN,
     reason : Reasons \cup {NoReason}]
NoRow == [state |-> "absent", observed |-> FALSE, reason |-> NoReason]

\* running: in _drive_steps; begin: in _finalize_abort_lifecycle; observe, cancel, request
\* and complete name the store call that comes next.
Phase == {"idle", "running", "begin", "observe", "cancel", "request", "complete", "over",
          "gone"}

Init ==
    /\ rows = [i \in Impl |-> NoRow]
    /\ phase = [w \in Workers |-> "idle"]
    /\ outcome = [w \in Workers |-> "none"]
    /\ handle = [w \in Workers |-> NoReason]
    /\ early = [w \in Workers |-> FALSE]

Exists == rows["memory"].state # "absent"

(***************************************************************************)
(* The store's calls, as functions on the row of one implementation.       *)
(***************************************************************************)
\* request_abort: an existing row is left as it is.
request_abort(i, r) ==
    IF Exists THEN rows[i]
    ELSE [state |-> "requested", observed |-> FALSE, reason |-> r]

\* mark_observed: a terminal state stays.  The dict returns a terminal row untouched and
\* lets the new reason win, the upsert sets observed on every row and keeps the old reason.
mark_observed(i, r) ==
    LET old == rows[i]
        terminal == old.state \in Terminal
    IN IF i = "memory"
       THEN IF terminal THEN old
            ELSE [state |-> "observed", observed |-> TRUE,
                  reason |-> IF r # NoReason THEN r ELSE old.reason]
       ELSE [state |-> IF terminal THEN old.state ELSE "observed", observed |-> TRUE,
             reason |-> IF old.reason # NoReason THEN old.reason ELSE r]

\* resolve: no row, no outcome; a terminal row stays.
resolve(i, cancelled) ==
    IF rows[i].state \in Terminal \cup {"absent"} THEN rows[i]
    ELSE [rows[i] EXCEPT !.state = IF cancelled THEN "cancelled" ELSE "completed_before_cancel",
                         !.observed = @ \/ cancelled]

Requested(r) == rows' = [i \in Impl |-> request_abort(i, r)]
Observed(r) == rows' = [i \in Impl |-> mark_observed(i, r)]
Resolved(cancelled) == rows' = [i \in Impl |-> resolve(i, cancelled)]

(***************************************************************************)
(* Hosts.                                                                  *)
(***************************************************************************)
\* A durable stop request, from any process and at any time.
HostRequest(r) ==
    /\ Requested(r)
    /\ UNCHANGED <<phase, outcome, handle, early>>

\* The stop button of a driving process: RunAbortHandle.abort keeps the first reason.
HandleAbort(w, r) ==
    /\ phase[w] \in {"running", "begin"}
    /\ handle[w] = NoReason
    /\ handle' = [handle EXCEPT ![w] = r]
    /\ UNCHANGED <<rows, phase, outcome, early>>

(***************************************************************************)
(* The runner.                                                             *)
(***************************************************************************)
Go(w, p) == phase' = [phase EXCEPT ![w] = p]

\* A process starts the run, or resumes it from a checkpoint while the process that drove
\* it before is paused, dead, or only believed to be dead.
Drive(w) ==
    /\ phase[w] = "idle"
    /\ \A v \in Workers : outcome[v] = "none"
    /\ Go(w, "running")
    /\ UNCHANGED <<rows, outcome, handle, early>>

\* The process parks the run and returns: a paused output is not finalized.
Pause(w) ==
    /\ phase[w] = "running"
    /\ Go(w, "gone")
    /\ UNCHANGED <<rows, outcome, handle, early>>

\* _drive_steps returns a terminal output: cancelled only if the handle was seen aborted.
DriveEnds(w, cancelled) ==
    /\ phase[w] = "running"
    /\ cancelled => handle[w] # NoReason
    /\ outcome' = [outcome EXCEPT ![w] = IF cancelled THEN "cancelled" ELSE "completed"]
    /\ Go(w, "begin")
    /\ early' = [early EXCEPT ![w] = Exists]
    /\ UNCHANGED <<rows, handle>>

\* Mutant: a durable request counts as a cancellation.
FinalizeBelievesRequest(w) ==
    /\ phase[w] = "begin"
    /\ Go(w, IF outcome[w] = "cancelled" \/ Exists THEN "observe" ELSE "over")
    /\ UNCHANGED <<rows, outcome, handle, early>>

\* _finalize_abort_lifecycle up to its first write: it looks for an abort in play.
_finalize_abort_lifecycle(w) ==
    /\ phase[w] = "begin"
    /\ Go(w, CASE outcome[w] = "cancelled" -> "observe"
               [] outcome[w] # "cancelled" /\ Exists -> "complete"
               [] outcome[w] # "cancelled" /\ ~Exists /\ handle[w] # NoReason -> "request"
               [] OTHER -> "over")
    /\ UNCHANGED <<rows, outcome, handle, early>>

FinalizeObserves(w) ==
    /\ phase[w] = "observe"
    /\ Observed(handle[w])
    /\ Go(w, "cancel")
    /\ UNCHANGED <<outcome, handle, early>>

FinalizeRequests(w) ==
    /\ phase[w] = "request"
    /\ Requested(handle[w])
    /\ Go(w, "complete")
    /\ UNCHANGED <<outcome, handle, early>>

FinalizeResolves(w) ==
    /\ phase[w] \in {"cancel", "complete"}
    /\ Resolved(phase[w] = "cancel")
    /\ Go(w, "over")
    /\ UNCHANGED <<outcome, handle, early>>

\* The process dies; a finalization it was in is not taken up again by anybody.
Crash(w) ==
    /\ phase[w] \notin {"idle", "gone", "over"}
    /\ Go(w, "gone")
    /\ UNCHANGED <<rows, outcome, handle, early>>

Finalize(w) ==
    \/ _finalize_abort_lifecycle(w)
    \/ FinalizeObserves(w)
    \/ FinalizeRequests(w)
    \/ FinalizeResolves(w)

Next ==
    \/ \E r \in Reasons \cup {NoReason} : HostRequest(r)
    \/ \E w \in Workers :
          \/ \E r \in Reasons : HandleAbort(w, r)
          \/ Drive(w)
          \/ Pause(w)
          \/ \E cancelled \in BOOLEAN : DriveEnds(w, cancelled)
          \/ Finalize(w)
          \/ Crash(w)

\* A driven run ends and its finalization runs to its end, unless the process dies.
Fairness ==
    \A w \in Workers : /\ WF_vars(\E cancelled \in BOOLEAN : DriveEnds(w, cancelled))
                       /\ WF_vars(Finalize(w))

Spec == Init /\ [][Next]_vars
FairSpec == Spec /\ Fairness

-----------------------------------------------------------------------------
\* AbortRecord in both implementations, and the runner's place.
TypeOK ==
    /\ rows \in [Impl -> AbortRecord]
    /\ phase \in [Workers -> Phase]
    /\ outcome \in [Workers -> {"none", "cancelled", "completed"}]
    /\ handle \in [Workers -> Reasons \cup {NoReason}]
    /\ early \in [Workers -> BOOLEAN]

\* A host that asks the ledger gets the same state from either implementation, after
\* every sequence of calls.
StatesAgree == rows["memory"].state = rows["sql"].state

\* "Records the truthful terminal outcome": the row claims an observed abort only if a
\* drive ended by one, and a completion only if a drive completed, however requests,
\* overtaken processes and crashes interleave.
OutcomeIsTruthful ==
    \A i \in Impl :
        /\ rows[i].state \in {"observed", "cancelled"} =>
              rows[i].observed /\ \E w \in Workers : outcome[w] = "cancelled"
        /\ rows[i].state = "completed_before_cancel" =>
              \E w \in Workers : outcome[w] = "completed"

\* A stop request that was on the ledger when a drive returned is answered by the time
\* that process is done with the run.
EarlyRequestIsAnswered ==
    \A w \in Workers : phase[w] = "over" /\ early[w] =>
        \A i \in Impl : rows[i].state \in Terminal

\* A terminal row is never moved, by a late request, a late observation or the
\* finalization of an overtaken process.
TerminalIsFinal ==
    [][\A i \in Impl : rows[i].state \in Terminal => rows'[i].state = rows[i].state]_vars

\* "Two implementations share one contract": the same calls leave the same record.
RecordsAgree == rows["memory"] = rows["sql"]

\* "... whether the run had already completed before the stop landed. This ledger makes
\* that lifecycle real and queryable": once the run is over, the row of a stop request
\* tells what became of it.
RequestIsAnswered ==
    \A i \in Impl :
        (rows[i].state = "requested" /\ \E w \in Workers : phase[w] = "over")
            ~> rows[i].state \in Terminal
=============================================================================
