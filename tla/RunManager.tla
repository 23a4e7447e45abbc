----------------------------- MODULE RunManager -----------------------------
(***************************************************************************)
(* The asynchronous runs of the HTTP server (server/runs.py): a table of   *)
(* records, a drive task for each run, clients that approve, stop, poll    *)
(* and stream, and the durable lifecycle records written along.            *)
(* Everything is on one event loop: a step is what happens between two     *)
(* awaits.  The agent is external: a call returns an output or raises.     *)
(***************************************************************************)
EXTENDS Naturals, Sequences, FiniteSets, SequencesExt

CONSTANTS
    Runs,       \* run ids, numbered in the order of creation
    Clients,    \* consumers of event streams
    NoRun,      \* a client that has not subscribed
    MaxRuns,    \* max_runs
    MaxParks    \* bound: how often a run pauses

\* What the constants have to be.
ManagerAssumption ==
    /\ Runs \subseteq Nat /\ IsFiniteSet(Runs) /\ NoRun \notin Runs
    /\ MaxRuns \in Nat \ {0} /\ MaxParks \in Nat

VARIABLES
    records,    \* the record of every run
    tasks,      \* where the run's drive task is
    table,      \* _runs: ids the manager still knows
    streams,    \* the queue of every subscriber and what its client has seen
    durable,    \* the run, lease and approval rows of the durable writer
    parks,      \* history: how often a run has parked
    decisions,  \* history: approvals and cancels accepted for a parked run
    stopped     \* history: runs whose stop was accepted

vars == <<records, tasks, table, streams, durable, parks, decisions, stopped>>

_TERMINAL == {"completed", "failed", "cancelled"}
Action == {"approve", "reject", "cancel"}
Event == {"started", "requires_action"} \cup _TERMINAL
End == "end"   \* the sentinel None of a stream

\* approval: no future, one that is awaited, or the action it was resolved with.
RunRecord ==
    [status : {"absent", "queued", "running", "requires_action"} \cup _TERMINAL,
     aborted : BOOLEAN, approval : {"none", "waiting"} \cup Action,
     error : {"none", "error", "paused"}, events : BoundedSeq(Event, MaxParks + 2)]

\* run and resume: inside the agent's call, with or without the record's abort handle.
Task == {"none", "created", "run", "parked", "resume", "resume_cancel", "ended"}

Init ==
    /\ records = [r \in Runs |-> [status |-> "absent", aborted |-> FALSE,
                                  approval |-> "none", error |-> "none",
                                  events |-> <<>>]]
    /\ tasks = [r \in Runs |-> "none"]
    /\ table = {}
    /\ streams = [c \in Clients |-> [run |-> NoRun, queue |-> <<>>, seen |-> <<>>]]
    /\ durable = [r \in Runs |-> [status |-> "absent", lease |-> "none", approval |-> "none"]]
    /\ parks = [r \in Runs |-> 0]
    /\ decisions = [r \in Runs |-> 0]
    /\ stopped = {}

Ended(r) == records[r].status \in _TERMINAL

(***************************************************************************)
(* _emit and the durable writer.                                           *)
(***************************************************************************)
\* Every subscriber gets the event, and the sentinel behind a terminal one.
Fed(r, event) ==
    [c \in Clients |->
        IF streams[c].run = r
        THEN [streams[c] EXCEPT !.queue =
                 @ \o (IF event \in _TERMINAL THEN <<event, End>> ELSE <<event>>)]
        ELSE streams[c]]

\* _durable_emit: the row's status follows the event, a terminal one releases the lease.
_durable_emit(r, event) ==
    [durable[r] EXCEPT !.status = event,
                       !.lease = IF event \in _TERMINAL THEN "released" ELSE @]

\* The record with a new status, the event appended and passed on, and the durable rows.
_emit(r, rec, event, row) ==
    /\ records' = [records EXCEPT ![r] = [rec EXCEPT !.events = Append(@, event)]]
    /\ streams' = Fed(r, event)
    /\ durable' = [durable EXCEPT ![r] = row]

(***************************************************************************)
(* Requests of clients.                                                    *)
(***************************************************************************)
\* Mutant: the oldest runs go, whatever they are doing.
EvictOldest(known, r) ==
    {q \in known : Cardinality({p \in known : p > q}) < MaxRuns}

\* _evict: past the cap the oldest terminal runs go, as many as are too many.
_evict(known, r) ==
    LET over == IF Cardinality(known) > MaxRuns THEN Cardinality(known) - MaxRuns ELSE 0
        terminal == {q \in known : q # r /\ Ended(q)}
    IN known \ {q \in terminal : Cardinality({p \in terminal : p < q}) < over}

\* POST /v1/runs.
start(r) ==
    /\ records[r].status = "absent"
    /\ \A q \in Runs : q < r => records[q].status # "absent"
    /\ records' = [records EXCEPT ![r].status = "queued"]
    /\ table' = _evict(table \cup {r}, r)
    /\ tasks' = [tasks EXCEPT ![r] = "created"]
    /\ durable' = [durable EXCEPT ![r].status = "queued", ![r].lease = "active"]
    /\ UNCHANGED <<streams, parks, decisions, stopped>>

\* POST /v1/runs/{id}/approval: accepted once, while the run is parked.
approve(r, action) ==
    /\ r \in table
    /\ records[r].status = "requires_action"
    /\ records[r].approval = "waiting"
    /\ decisions' = [decisions EXCEPT ![r] = @ + 1]
    /\ records' = [records EXCEPT ![r].approval = action]
    /\ durable' = [durable EXCEPT ![r].approval = action]
    /\ UNCHANGED <<tasks, table, streams, parks, stopped>>

\* Mutant: a parked approval is left to its client.
StopOnlyFlags(r) ==
    /\ r \in table
    /\ ~Ended(r)
    /\ records' = [records EXCEPT ![r].aborted = TRUE]
    /\ stopped' = stopped \cup {r}
    /\ UNCHANGED <<tasks, table, streams, durable, parks, decisions>>

\* POST /v1/runs/{id}/stop: the handle is aborted and an open approval answered with CANCEL.
stop(r) ==
    /\ r \in table
    /\ ~Ended(r)
    /\ records' = [records EXCEPT ![r].aborted = TRUE,
                                  ![r].approval = IF @ = "waiting" THEN "cancel" ELSE @]
    /\ decisions' = [decisions EXCEPT ![r] = IF records[r].approval = "waiting" THEN @ + 1
                                             ELSE @]
    /\ stopped' = stopped \cup {r}
    /\ UNCHANGED <<tasks, table, streams, durable, parks>>

\* GET /v1/runs/{id}/events: the history, and the end of a run that has one already.
stream_events(c, r) ==
    /\ streams[c].run = NoRun
    /\ r \in table
    /\ streams' = [streams EXCEPT
                      ![c].run = r,
                      ![c].queue = records[r].events \o (IF Ended(r) THEN <<End>> ELSE <<>>)]
    /\ UNCHANGED <<records, tasks, table, durable, parks, decisions, stopped>>

\* The stream yields the next event to its client.
YieldEvent(c) ==
    /\ streams[c].queue # <<>>
    /\ streams' = [streams EXCEPT ![c].queue = Tail(@),
                                  ![c].seen = Append(@, Head(streams[c].queue))]
    /\ UNCHANGED <<records, tasks, table, durable, parks, decisions, stopped>>

(***************************************************************************)
(* The drive task.                                                         *)
(***************************************************************************)
\* The task's first step, up to agent.run(abort_handle=record.abort).
_drive(r) ==
    /\ tasks[r] = "created"
    /\ tasks' = [tasks EXCEPT ![r] = "run"]
    /\ _emit(r, [records[r] EXCEPT !.status = "running"], "started", _durable_emit(r, "started"))
    /\ UNCHANGED <<table, parks, decisions, stopped>>

InAgent(r) == tasks[r] \in {"run", "resume", "resume_cancel"}

\* What the agent may answer: a call with the handle may be cancelled once it is aborted,
\* a resume with CANCEL ends the run.
Outputs(r) ==
    CASE tasks[r] = "run" -> {"completed", "failed", "paused"}
                                \cup (IF records[r].aborted THEN {"cancelled"} ELSE {})
      [] tasks[r] = "resume" -> {"completed", "failed", "paused"}
      [] tasks[r] = "resume_cancel" -> {"cancelled", "failed"}

\* _await_approval: the run parks with a new future.
_await_approval(r) ==
    /\ InAgent(r)
    /\ "paused" \in Outputs(r)
    /\ ~records[r].aborted
    /\ parks[r] < MaxParks
    /\ parks' = [parks EXCEPT ![r] = @ + 1]
    /\ tasks' = [tasks EXCEPT ![r] = "parked"]
    /\ _emit(r, [records[r] EXCEPT !.status = "requires_action", !.approval = "waiting"],
             "requires_action",
             [_durable_emit(r, "requires_action") EXCEPT !.approval = "pending"])
    /\ UNCHANGED <<table, decisions, stopped>>

\* The future is resolved: agent.resume, without the record's abort handle.
ResumeDecided(r) ==
    /\ tasks[r] = "parked"
    /\ records[r].approval \in Action
    /\ tasks' = [tasks EXCEPT ![r] = IF records[r].approval = "cancel" THEN "resume_cancel"
                                     ELSE "resume"]
    /\ records' = [records EXCEPT ![r].approval = "none", ![r].status = "running"]
    /\ UNCHANGED <<table, streams, durable, parks, decisions, stopped>>

\* _finalize, or the except clause: every output but these two is reported as a failure, a
\* pause that nobody will wait for included.
_finalize(r, output) ==
    /\ InAgent(r)
    /\ output \in Outputs(r)
    /\ output = "paused" => records[r].aborted
    /\ tasks' = [tasks EXCEPT ![r] = "ended"]
    /\ LET status == IF output \in {"completed", "cancelled"} THEN output ELSE "failed"
       IN _emit(r, [records[r] EXCEPT !.status = status,
                                      !.error = CASE output = "paused" -> "paused"
                                                  [] output = "failed" -> "error"
                                                  [] OTHER -> "none"],
                status, _durable_emit(r, status))
    /\ UNCHANGED <<table, parks, decisions, stopped>>

AgentReturns(r) ==
    _await_approval(r) \/ \E output \in _TERMINAL \cup {"paused"} : _finalize(r, output)

Next ==
    \/ \E r \in Runs :
          \/ start(r) \/ stop(r) \/ _drive(r) \/ AgentReturns(r) \/ ResumeDecided(r)
          \/ \E action \in Action : approve(r, action)
          \/ \E c \in Clients : stream_events(c, r)
    \/ \E c \in Clients : YieldEvent(c)

\* The loop runs every task that is ready, and the agent's calls return.
Fairness ==
    /\ \A r \in Runs : WF_vars(_drive(r)) /\ WF_vars(ResumeDecided(r)) /\ WF_vars(AgentReturns(r))
    /\ \A c \in Clients : WF_vars(YieldEvent(c))

Spec == Init /\ [][Next]_vars
FairSpec == Spec /\ Fairness

-----------------------------------------------------------------------------
\* Records, tasks, streams and durable rows.
TypeOK ==
    /\ \A r \in Runs : records[r] \in RunRecord
    /\ tasks \in [Runs -> Task]
    /\ table \subseteq Runs
    /\ \A c \in Clients : /\ streams[c].run \in Runs \cup {NoRun}
                          /\ ToSet(streams[c].queue) \subseteq Event \cup {End}
    /\ durable \in [Runs -> [status : {"absent", "queued"} \cup Event,
                             lease : {"none", "active", "released"},
                             approval : {"none", "pending"} \cup Action]]
    /\ stopped \subseteq Runs

\* Whenever a client subscribes, before the run starts, between two events or after the
\* end, what it has seen and what waits for it are the run's events in order, once each,
\* closed by the end of the stream exactly when the run is over.
StreamIsComplete ==
    \A c \in Clients : streams[c].run # NoRun =>
        streams[c].seen \o streams[c].queue =
            records[streams[c].run].events \o (IF Ended(streams[c].run) THEN <<End>> ELSE <<>>)

\* A run that is not over stays in the table, where approvals and stops can find it, and so
\* does its lease; a run that is over has released it.
LiveRunIsKept ==
    \A r \in Runs : records[r].status # "absent" =>
        /\ ~Ended(r) => r \in table
        /\ Ended(r) = (durable[r].lease = "released")

\* A parked run takes one decision: an approval and a stop, or two approvals, that come
\* before the drive task has run are not both accepted.
OneDecisionPerPark ==
    \A r \in Runs : decisions[r] <= parks[r] /\ parks[r] <= decisions[r] + 1

\* "Unblock a parked approval so the drive loop can observe the cancel": a run that is
\* stopped while it is parked comes to its end.
StopUnparks == \A r \in Runs : (r \in stopped /\ tasks[r] = "parked") ~> Ended(r)

\* "SSE of lifecycle events, terminated by [DONE]": the stream of a run that is over ends.
StreamEnds ==
    \A c \in Clients, r \in Runs :
        (streams[c].run = r /\ Ended(r)) ~> (streams[c].seen # <<>> /\ Last(streams[c].seen) = End)

\* "POST /v1/runs/{id}/stop cancels a run": while a stopped run is in the agent, the call
\* is one whose answer can be that it was cancelled.
StopReachesTheDriver == \A r \in stopped : InAgent(r) => "cancelled" \in Outputs(r)

\* The same sentence: a run that pauses while it is being stopped is not reported as a
\* failure whose error is "paused".
StopIsNotAFailure == \A r \in Runs : records[r].error # "paused"
=============================================================================
