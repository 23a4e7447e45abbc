---------------------------- MODULE JobScheduler ----------------------------
(***************************************************************************)
(* The durable scheduler (scheduler/runner.py) over a job store            *)
(* (scheduler/store.py) that hosts and the cron tools                      *)
(* (tools/builtin/automation.py) edit at any time, a job's own command     *)
(* included.  A tick computes the due jobs without an await; then each of  *)
(* them runs, bounded by a hard interrupt, and the copy read at the start  *)
(* of the tick is advanced and written back.  The process may crash and    *)
(* start again on the same store.                                          *)
(***************************************************************************)
EXTENDS Naturals, FiniteSets, FiniteSetsExt

CONSTANTS
    Jobs,         \* job names, numbered in the order of list()
    Intervals,    \* schedules: seconds between two runs; 0 is one that raises ScheduleError
    MaxFailures,  \* max_consecutive_failures
    MaxTime,      \* bound: how far the clock runs
    MaxEdits,     \* bound: edits by hosts
    MaxCrashes    \* bound: crashes

\* What the constants have to be.
SchedulerAssumption ==
    /\ Jobs \subseteq Nat /\ IsFiniteSet(Jobs) /\ Intervals \subseteq Nat /\ Intervals # {}
    /\ {MaxFailures, MaxTime} \subseteq Nat \ {0}
    /\ {MaxEdits, MaxCrashes} \subseteq Nat

VARIABLES
    store,    \* the row of every job
    now,      \* the clock
    moment,   \* the time the current tick works with
    queue,    \* jobs of the current tick not done yet; the first of them is running
    copy,     \* the rows that store.due returned to the tick
    edits,    \* edits by hosts so far
    crashes,  \* crashes so far
    deleted,  \* history: jobs that a host deleted and nobody added again
    streak    \* history: failed runs since a success or a host's last word on the job

vars == <<store, now, moment, queue, copy, edits, crashes, deleted, streak>>

None == 0
Never == MaxTime + 1
Status == {"none", "ok", "error", "timeout", "disabled"}
ScheduledJob ==
    [present : BOOLEAN, schedule : Intervals, enabled : BOOLEAN,
     next_run_at : None..Never, last_run_at : None..MaxTime, last_status : Status,
     consecutive_failures : Nat]
NewJob(s) ==
    [present |-> TRUE, schedule |-> s, enabled |-> TRUE, next_run_at |-> None,
     last_run_at |-> None, last_status |-> "none", consecutive_failures |-> 0]
NoJob == [NewJob(CHOOSE s \in Intervals : TRUE) EXCEPT !.present = FALSE, !.enabled = FALSE]

Init ==
    /\ store = [j \in Jobs |-> NoJob]
    /\ now = 1
    /\ moment = 1
    /\ queue = {}
    /\ copy = [j \in Jobs |-> NoJob]
    /\ edits = 0
    /\ crashes = 0
    /\ deleted = {}
    /\ streak = [j \in Jobs |-> 0]

(***************************************************************************)
(* Hosts and the cron tools.  Each edit is one store call.                 *)
(***************************************************************************)
Edit(j, row) ==
    /\ edits < MaxEdits
    /\ edits' = edits + 1
    /\ store' = [store EXCEPT ![j] = row]
    /\ streak' = [streak EXCEPT ![j] = 0]
    /\ UNCHANGED <<now, moment, queue, copy, crashes>>

\* cron_create_tool: JobExistsError if the name is taken.
add(j, s) ==
    /\ ~store[j].present
    /\ Edit(j, NewJob(s))
    /\ deleted' = deleted \ {j}

\* cron_delete_tool.
delete(j) ==
    /\ store[j].present
    /\ Edit(j, NoJob)
    /\ deleted' = deleted \cup {j}

\* A host switches a job on or off, or gives it another schedule.
SetEnabled(j, on) ==
    /\ store[j].present
    /\ Edit(j, [store[j] EXCEPT !.enabled = on])
    /\ UNCHANGED deleted

Reschedule(j, s) ==
    /\ store[j].present
    /\ \E next \in {None, store[j].next_run_at} :
          Edit(j, [store[j] EXCEPT !.schedule = s, !.next_run_at = next])
    /\ UNCHANGED deleted

(***************************************************************************)
(* The scheduler.                                                          *)
(***************************************************************************)
\* next_after: strictly later; what lies past the clock's bound never comes.
next_after(s, t) == IF t + s > MaxTime THEN Never ELSE t + s

\* ensure_scheduled: an enabled job without a time gets one, one that raises is disabled.
ensure_scheduled(job) ==
    IF ~job.present \/ ~job.enabled \/ job.next_run_at # None THEN job
    ELSE IF job.schedule = 0 THEN [job EXCEPT !.enabled = FALSE, !.last_status = "disabled"]
    ELSE [job EXCEPT !.next_run_at = next_after(job.schedule, now)]

_is_due(job, t) == job.present /\ job.enabled /\ job.next_run_at # None /\ job.next_run_at <= t

tick ==
    /\ queue = {}
    /\ moment' = now
    /\ store' = [j \in Jobs |-> ensure_scheduled(store[j])]
    /\ queue' = {j \in Jobs : _is_due(store'[j], now)}
    /\ copy' = [j \in Jobs |-> IF j \in queue' THEN store'[j] ELSE NoJob]
    /\ UNCHANGED <<now, edits, crashes, deleted, streak>>

Running == Min(queue)

Failures(job, status) == IF status = "ok" THEN 0 ELSE job.consecutive_failures + 1

\* The row after a run: its counters, its next time after a given one, and switched off
\* after too many failures or when the schedule raises.
Advanced(job, status, failures, after) ==
    LET ran == [job EXCEPT !.last_run_at = moment, !.last_status = status,
                           !.consecutive_failures = failures]
    IN IF status # "ok" /\ failures >= MaxFailures
       THEN [ran EXCEPT !.enabled = FALSE, !.next_run_at = None]
       ELSE IF job.schedule = 0
       THEN [ran EXCEPT !.enabled = FALSE, !.next_run_at = None, !.last_status = "disabled"]
       ELSE [ran EXCEPT !.next_run_at = next_after(job.schedule, after)]

\* Mutant: a timeout is not counted as a failure.
AdvanceForgivesTimeouts(job, status) ==
    Advanced(job, status, IF status = "timeout" THEN job.consecutive_failures
                          ELSE Failures(job, status), moment)

\* _advance works on the copy of the tick and from the tick's moment.
_advance(job, status) == Advanced(job, status, Failures(job, status), moment)

\* _run_one: the row is written back as it was read, whatever hosts made of it meanwhile.
_run_one(status) ==
    /\ queue # {}
    /\ store' = [store EXCEPT ![Running] = _advance(copy[Running], status)]
    /\ queue' = queue \ {Running}
    /\ streak' = [streak EXCEPT ![Running] = IF status = "ok" THEN 0 ELSE @ + 1]
    /\ UNCHANGED <<now, moment, copy, edits, crashes, deleted>>

JobReturns == \E status \in {"ok", "error"} : _run_one(status)

\* Mutant: a job is awaited for as long as it takes.
NoInterrupt == FALSE

\* wait_for: a job that does not return is interrupted.
HardInterrupt == _run_one("timeout")

\* The process dies in the middle of a tick and is started again.
Crash ==
    /\ crashes < MaxCrashes
    /\ queue # {}
    /\ queue' = {}
    /\ crashes' = crashes + 1
    /\ UNCHANGED <<store, now, moment, copy, edits, deleted, streak>>

TimePasses ==
    /\ now < MaxTime
    /\ now' = now + 1
    /\ UNCHANGED <<store, moment, queue, copy, edits, crashes, deleted, streak>>

Next ==
    \/ \E j \in Jobs :
          \/ \E s \in Intervals : add(j, s) \/ Reschedule(j, s)
          \/ \E on \in BOOLEAN : SetEnabled(j, on)
          \/ delete(j)
    \/ tick \/ JobReturns \/ HardInterrupt \/ Crash \/ TimePasses

\* run_forever ticks again after its poll interval, and wait_for's timer fires.
Fairness == WF_vars(tick) /\ WF_vars(HardInterrupt)

Spec == Init /\ [][Next]_vars
FairSpec == Spec /\ Fairness

-----------------------------------------------------------------------------
\* ScheduledJob in the store and in the tick's copies.
TypeOK ==
    /\ store \in [Jobs -> ScheduledJob]
    /\ copy \in [Jobs -> ScheduledJob]
    /\ now \in 1..MaxTime /\ moment \in 1..now
    /\ queue \subseteq Jobs
    /\ edits \in 0..MaxEdits /\ crashes \in 0..MaxCrashes
    /\ deleted \subseteq Jobs
    /\ streak \in [Jobs -> Nat]

\* "A job that missed many windows fires once, then its next run is computed from now":
\* what is stored as the next time is later than the run it follows, through host edits,
\* late ticks and crashes.
NoBackfill ==
    \A j \in Jobs :
        store[j].next_run_at # None /\ store[j].last_run_at # None =>
            store[j].next_run_at > store[j].last_run_at

\* "After max_consecutive_failures the job is disabled so it cannot spin": no job fails
\* more often in a row than that unless a host has spoken in between.
CannotSpin == \A j \in Jobs : streak[j] <= MaxFailures

\* "A runaway job cannot block the loop": a due job gets its run, whatever the jobs before
\* it do, or a host takes it off.
DueJobRuns ==
    \A j \in Jobs :
        _is_due(store[j], now) ~> (~_is_due(store[j], now) \/ (queue # {} /\ Running = j))

\* "Delete a job; return whether a row was removed": a job a host deleted is gone until
\* somebody adds it again.
DeletedStaysDeleted == \A j \in deleted : ~store[j].present

\* "After max_consecutive_failures=5 a job auto-disables (status `disabled`)".
AutoDisableIsReported ==
    \A j \in Jobs : store[j].consecutive_failures >= MaxFailures /\ ~store[j].enabled =>
        store[j].last_status = "disabled"
=============================================================================
