----------------------------- MODULE BatchRunner -----------------------------
(***************************************************************************)
(* Batches of prompts (batch/runner.py) over an append-only JSONL store    *)
(* (batch/store.py): every item is run several times, a bounded number of  *)
(* them at once, under a cap on the cost, with retries; the process may    *)
(* die, between two records or inside one, and the batch be resumed.       *)
(***************************************************************************)
EXTENDS Naturals, Sequences, FiniteSets, SequencesExt

CONSTANTS
    Items,
    repeats,        \* runs of each item
    concurrency,    \* slots of the semaphore
    retries,        \* retries of a query that raised
    max_total_cost, \* max_total_cost_usd
    Costs,          \* what a query may cost
    MaxCrashes,     \* bound: how often the process dies
    Torn, Spoiled   \* an unfinished last line; a line with an unfinished one in front

\* What the constants have to be.
BatchAssumption ==
    /\ IsFiniteSet(Items) /\ repeats \in Nat \ {0} /\ concurrency \in Nat \ {0}
    /\ retries \in Nat /\ max_total_cost \in Nat /\ Costs \subseteq Nat /\ MaxCrashes \in Nat

VARIABLES
    phase,      \* of the batch: down, running or finished
    task,       \* every run: absent, waiting, query, backoff or done
    attempt,    \* retries a run has used
    spent,      \* estimated spend of this process
    lines,      \* the lines of the file
    skipped,    \* items this process found recorded
    crashes

vars == <<phase, task, attempt, spent, lines, skipped, crashes>>

Tasks == Items \X (0 .. repeats - 1)
Trajectory(t, status) == [item_id |-> t[1], run_index |-> t[2], status |-> status]
Readable == ToSet(lines) \ {Torn, Spoiled}

Init ==
    /\ phase = "down"
    /\ task = [t \in Tasks |-> "absent"]
    /\ attempt = [t \in Tasks |-> 0]
    /\ spent = 0
    /\ lines = <<>>
    /\ skipped = {}
    /\ crashes = 0

(***************************************************************************)
(* The store.                                                              *)
(***************************************************************************)
\* One line more; behind an unfinished line the two become one that nobody can read.
Appended(line) ==
    IF lines # <<>> /\ Last(lines) = Torn
    THEN Append(Front(lines), IF line = Torn THEN Torn ELSE Spoiled)
    ELSE Append(lines, line)

\* Mutant: the first line that cannot be read ends the scan.
IdsUpToATornLine ==
    LET bad == {n \in 1 .. Len(lines) : lines[n] \in {Torn, Spoiled}}
    IN {lines[n].item_id : n \in {m \in 1 .. Len(lines) : \A b \in bad : m < b}}

\* The ids of the lines that can be read.
item_ids == {trajectory.item_id : trajectory \in Readable}

(***************************************************************************)
(* BatchRunner.run.                                                        *)
(***************************************************************************)
\* A process starts the batch, or resumes it: all runs of an item that has a line are skipped.
run ==
    /\ phase = "down"
    /\ phase' = "running"
    /\ skipped' = item_ids
    /\ task' = [t \in Tasks |-> IF t[1] \in item_ids THEN "absent" ELSE "waiting"]
    /\ attempt' = [t \in Tasks |-> 0]
    /\ spent' = 0
    /\ UNCHANGED <<lines, crashes>>

InFlight == {t \in Tasks : task[t] \in {"query", "backoff"}}

\* The run's trajectory is appended and its slot is free.
Recorded(t, status) ==
    /\ task' = [task EXCEPT ![t] = "done"]
    /\ lines' = Appended(Trajectory(t, status))

\* _run_one, once it has a slot: recorded as skipped when the cap is reached, or queried.
_run_one(t) ==
    /\ phase = "running" /\ task[t] = "waiting"
    /\ Cardinality(InFlight) < concurrency
    /\ \/ /\ spent >= max_total_cost
          /\ Recorded(t, "skipped_budget")
       \/ /\ spent < max_total_cost
          /\ task' = [task EXCEPT ![t] = "query"]
          /\ UNCHANGED lines
    /\ UNCHANGED <<phase, attempt, spent, skipped, crashes>>

\* The query returns, with what it cost.
QueryReturns(t, cost) ==
    /\ task[t] = "query"
    /\ spent' = spent + cost
    /\ Recorded(t, "completed")
    /\ UNCHANGED <<phase, attempt, skipped, crashes>>

\* Mutant: a transient error is retried for as long as it lasts.
RaisesForEver(t, transient) ==
    /\ task[t] = "query"
    /\ \/ /\ transient
          /\ task' = [task EXCEPT ![t] = "backoff"]
          /\ UNCHANGED <<attempt, lines>>
       \/ /\ ~transient
          /\ Recorded(t, "failed")
          /\ UNCHANGED attempt
    /\ UNCHANGED <<phase, spent, skipped, crashes>>

\* The query raises: a transient error is retried after a pause, a bounded number of times.
QueryRaises(t, transient) ==
    /\ task[t] = "query"
    /\ \/ /\ transient /\ attempt[t] < retries
          /\ task' = [task EXCEPT ![t] = "backoff"]
          /\ attempt' = [attempt EXCEPT ![t] = @ + 1]
          /\ UNCHANGED lines
       \/ /\ ~transient \/ attempt[t] >= retries
          /\ Recorded(t, "failed")
          /\ UNCHANGED attempt
    /\ UNCHANGED <<phase, spent, skipped, crashes>>

\* The pause is over; the run kept its slot.
Retry(t) ==
    /\ task[t] = "backoff"
    /\ task' = [task EXCEPT ![t] = "query"]
    /\ UNCHANGED <<phase, attempt, spent, lines, skipped, crashes>>

\* gather has every trajectory: the report is returned.
Report ==
    /\ phase = "running"
    /\ \A t \in Tasks : task[t] \in {"absent", "done"}
    /\ phase' = "finished"
    /\ UNCHANGED <<task, attempt, spent, lines, skipped, crashes>>

\* The process dies between two steps, or while a run that ends writes its line.
Crash ==
    /\ phase = "running" /\ crashes < MaxCrashes
    /\ crashes' = crashes + 1
    /\ phase' = "down"
    /\ task' = [t \in Tasks |-> "absent"]
    /\ \/ UNCHANGED lines
       \/ InFlight # {} /\ lines' = Appended(Torn)
    /\ UNCHANGED <<attempt, spent, skipped>>

QueryEnds(t) ==
    (\E cost \in Costs : QueryReturns(t, cost)) \/ (\E b \in BOOLEAN : QueryRaises(t, b))

\* The loop runs what is ready, queries end, and a batch that died is resumed: nothing but
\* that the process goes on, in whatever order.
Progress == run \/ Report \/ \E t \in Tasks : _run_one(t) \/ QueryEnds(t) \/ Retry(t)

Next == Progress \/ Crash

Fairness == WF_vars(Progress)

Spec == Init /\ [][Next]_vars
FairSpec == Spec /\ Fairness

-----------------------------------------------------------------------------
\* "actual spend may exceed it by up to one wave of runs": the runs in flight when the cap is
\* reached are the only ones that can add to it.
SpendIsBounded ==
    \A most \in Costs :
        max_total_cost > 0 /\ (\A c \in Costs : c <= most) =>
            spent < max_total_cost + concurrency * most

\* A run is recorded once, across crashes and resumes, whatever lines cannot be read.
RecordedOnce ==
    \A n, m \in 1 .. Len(lines) :
        n # m /\ lines[n] \in Readable /\ lines[m] \in Readable =>
            <<lines[n].item_id, lines[n].run_index>> # <<lines[m].item_id, lines[m].run_index>>

\* A batch comes to its report although queries fail and the process dies: the slots a
\* retrying run keeps are given back.
BatchEnds == <>(phase = "finished")

\* "a re-run skips finished items": an item that is skipped has all its runs.
SkipsFinishedItems ==
    \A i \in skipped, n \in 0 .. repeats - 1 :
        \E trajectory \in Readable : /\ trajectory.item_id = i /\ trajectory.run_index = n
                                     /\ trajectory.status # "skipped_budget"

\* "Each line is one trajectory": no line is spoiled by what a crash left in front of it.
EachLineIsOne == Spoiled \notin ToSet(lines)
=============================================================================
