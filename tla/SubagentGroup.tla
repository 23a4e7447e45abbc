---------------------------- MODULE SubagentGroup ----------------------------
(***************************************************************************)
(* A group of child agents (subagents/executor.py, join.py, control.py,    *)
(* store.py): the parent runs it and waits, or starts it in the background *)
(* and goes on.  Children run behind a semaphore on the parent's event     *)
(* loop, so a step is what happens between two awaits; meanwhile the       *)
(* parent's tools stop a child, send it a message or the run is aborted.   *)
(* A step of the parent that is repeated runs the group again, under the   *)
(* idempotency keys of its tasks.                                          *)
(***************************************************************************)
EXTENDS Naturals, FiniteSets

CONSTANTS
    Tasks,          \* 1 .. n, in the order of the group
    max_parallel,   \* of the group
    max_child_runs, \* of the runtime
    MaxMessages,    \* bound: messages sent to a child
    MaxExecutions   \* bound: how often the group is run

\* What the constants have to be.
GroupAssumption ==
    /\ IsFiniteSet(Tasks) /\ Tasks \subseteq Nat \ {0} /\ max_parallel \in Nat
    /\ max_child_runs \in Nat /\ MaxMessages \in Nat /\ MaxExecutions \in Nat

VARIABLES
    group,      \* the group's row, its mode, its policy, and how its execution ended
    row,        \* the child's row: its status, messages, and whether it was stopped
    task,       \* none, waiting, running, done or raised
    aborted,    \* the parent's abort handle
    spawned,    \* history: how often a child was run
    sent        \* history: messages accepted for a child

vars == <<group, row, task, aborted, spawned, sent>>

Policy == {"wait_all", "wait_any", "k_of_n", "best_effort_until_deadline", "race", "manual"}
_TERMINAL_STATUSES == {"completed", "failed", "cancelled", "timed_out"}
Pending == [status |-> "running", messages |-> 0, stopped |-> FALSE]

\* _effective_max_parallel and _select_schedulable_tasks, without budgets.
_effective_max_parallel == IF max_parallel < max_child_runs THEN max_parallel ELSE max_child_runs
_select_schedulable_tasks ==
    IF _effective_max_parallel = 0 THEN {}
    ELSE {t \in Tasks : Cardinality({u \in Tasks : u < t}) < max_child_runs}

Init ==
    /\ group = [status |-> "absent", mode |-> "sync", policy |-> "wait_all", end |-> "none",
                runs |-> 0]
    /\ row = [t \in Tasks |-> [Pending EXCEPT !.status = "absent"]]
    /\ task = [t \in Tasks |-> "none"]
    /\ aborted = FALSE
    /\ spawned = [t \in Tasks |-> 0]
    /\ sent = [t \in Tasks |-> 0]

Statuses == [t \in _select_schedulable_tasks |-> row[t].status]

(***************************************************************************)
(* join.py.                                                                *)
(***************************************************************************)
With(statuses, set) == {t \in DOMAIN statuses : statuses[t] \in set}

\* evaluate_join_policy at the end of a group, where the deadline counts as reached.
evaluate_join_policy(policy, statuses) ==
    LET n == Cardinality(DOMAIN statuses)
        k == IF n > 1 THEN 2 ELSE 1
        completed == Cardinality(With(statuses, {"completed"}))
    IN \/ policy = "wait_all" /\ n > 0 /\ Cardinality(With(statuses, _TERMINAL_STATUSES)) = n
       \/ policy \in {"wait_any", "race"} /\ completed >= 1
       \/ policy = "k_of_n" /\ completed >= k
       \/ policy = "best_effort_until_deadline"

(***************************************************************************)
(* executor.py.                                                            *)
(***************************************************************************)
\* execute_subagent_group_sync, or _background, whose children have their rows at once; a
\* background group is joined when its rows are terminal, whatever its policy ("manual" here).
execute_subagent_group(mode, policy) ==
    /\ group.runs < MaxExecutions
    /\ mode = "background" => policy = "manual"
    /\ group.status = "absent" \/ (group.end # "none" /\ policy = group.policy /\ mode = group.mode)
    /\ \A t \in Tasks : task[t] \in {"none", "done", "raised"}
    /\ group' = [status |-> "running", mode |-> mode, policy |-> policy,
                 end |-> IF mode = "background" THEN "returned" ELSE "none", runs |-> group.runs + 1]
    /\ task' = [t \in Tasks |-> IF t \in _select_schedulable_tasks THEN "waiting" ELSE "none"]
    /\ row' = [t \in Tasks |-> IF mode = "background" /\ t \in _select_schedulable_tasks
                               THEN Pending ELSE row[t]]
    /\ sent' = IF mode = "background" THEN [t \in Tasks |-> 0] ELSE sent
    /\ UNCHANGED <<aborted, spawned>>

\* Mutant: a group of one mode or the other is complete when its first child is.
GroupCompletesEarly(rows) == \E t \in _select_schedulable_tasks : rows[t].status \in _TERMINAL_STATUSES

\* _maybe_complete_background_group: all rows of the group are terminal.
_maybe_complete_background_group(rows) ==
    \A t \in _select_schedulable_tasks : rows[t].status \in _TERMINAL_STATUSES

\* The child's row is written, and a background group looks whether it was the last.
Upsert(t, status) ==
    LET rows == [row EXCEPT ![t] = [Pending EXCEPT !.status = status]]
    IN /\ row' = rows
       /\ group' = IF group.mode = "background" /\ _maybe_complete_background_group(rows)
                   THEN [group EXCEPT !.status = "completed"] ELSE group

\* A slot is free: the child runs, or is cancelled when the parent was aborted before.
StartChild(t) ==
    /\ task[t] = "waiting"
    /\ Cardinality({u \in Tasks : task[u] = "running"}) < _effective_max_parallel
    /\ sent' = IF group.mode = "sync" THEN [sent EXCEPT ![t] = 0] ELSE sent
    /\ \/ /\ aborted
          /\ task' = [task EXCEPT ![t] = "done"]
          /\ Upsert(t, "cancelled")
          /\ UNCHANGED spawned
       \/ /\ ~aborted
          /\ task' = [task EXCEPT ![t] = "running"]
          /\ row' = IF group.mode = "sync" THEN [row EXCEPT ![t] = Pending] ELSE row
          /\ spawned' = [spawned EXCEPT ![t] = @ + 1]
          /\ UNCHANGED group
    /\ UNCHANGED aborted

\* The child returns; its row is made from the row it was started with.
ChildReturns(t, status) ==
    /\ task[t] = "running"
    /\ status = "cancelled" => aborted
    /\ task' = [task EXCEPT ![t] = "done"]
    /\ Upsert(t, status)
    /\ UNCHANGED <<aborted, spawned, sent>>

\* Mutant: the task of a background child dies with the child.
RaisesUncaught(t) ==
    /\ task[t] = "running"
    /\ task' = [task EXCEPT ![t] = "raised"]
    /\ UNCHANGED <<group, row, aborted, spawned, sent>>

\* The child raises: in the background its row fails, a waiting parent keeps the exception.
ChildRaises(t) ==
    /\ task[t] = "running"
    /\ \/ /\ group.mode = "background"
          /\ task' = [task EXCEPT ![t] = "done"]
          /\ Upsert(t, "failed")
       \/ /\ group.mode = "sync"
          /\ task' = [task EXCEPT ![t] = "raised"]
          /\ UNCHANGED <<group, row>>
    /\ UNCHANGED <<aborted, spawned, sent>>

\* gather is over: an exception is raised again, or the group is joined by its policy from
\* what the children returned.
JoinGroup ==
    /\ group.mode = "sync" /\ group.status # "absent" /\ group.end = "none"
    /\ \A t \in _select_schedulable_tasks : task[t] \in {"done", "raised"}
    /\ group' = IF \E t \in Tasks : task[t] = "raised"
                THEN [group EXCEPT !.end = "raised"]
                ELSE [group EXCEPT !.end = "returned",
                                   !.status = IF evaluate_join_policy(group.policy, Statuses)
                                              THEN "completed" ELSE "running"]
    /\ UNCHANGED <<row, task, aborted, spawned, sent>>

(***************************************************************************)
(* control.py: tools of the parent, which is free while a group runs in    *)
(* the background.                                                         *)
(***************************************************************************)
\* The child's row is marked cancelled, whatever the child does.
stop_subagent_run(t) ==
    /\ group.mode = "background" /\ row[t].status # "absent" /\ ~row[t].stopped
    /\ row' = [row EXCEPT ![t].status = "cancelled", ![t].stopped = TRUE]
    /\ UNCHANGED <<group, task, aborted, spawned, sent>>

\* A message is added to the child's row.
append_subagent_continuation(t) ==
    /\ group.mode = "background" /\ row[t].status # "absent" /\ sent[t] < MaxMessages
    /\ row' = [row EXCEPT ![t].messages = @ + 1]
    /\ sent' = [sent EXCEPT ![t] = @ + 1]
    /\ UNCHANGED <<group, task, aborted, spawned>>

AbortParent ==
    /\ ~aborted /\ group.status # "absent"
    /\ aborted' = TRUE
    /\ UNCHANGED <<group, row, task, spawned, sent>>

ChildEnds(t) ==
    ChildRaises(t) \/ \E status \in _TERMINAL_STATUSES : ChildReturns(t, status)

\* The loop runs what is ready, and children end: their steps, tools and time are bounded.
Progress == JoinGroup \/ \E t \in Tasks : StartChild(t) \/ ChildEnds(t)

Next ==
    \/ \E mode \in {"sync", "background"}, policy \in Policy : execute_subagent_group(mode, policy)
    \/ \E t \in Tasks : stop_subagent_run(t) \/ append_subagent_continuation(t)
    \/ Progress \/ AbortParent

Fairness == WF_vars(Progress)

Spec == Init /\ [][Next]_vars
FairSpec == Spec /\ Fairness

-----------------------------------------------------------------------------
\* A group that is completed stays settled while stops and repeats go on: no row of it is
\* still running, and with a policy that needs results they are there.
CompletedIsSettled ==
    group.status = "completed" =>
        /\ With(Statuses, _TERMINAL_STATUSES) = DOMAIN Statuses
        /\ group.mode = "sync" /\ group.policy \in {"wait_any", "race", "k_of_n"} =>
               With(Statuses, {"completed"}) # {}

\* Every group comes to an end: the parent that waits is answered, and a background group
\* with children is completed, although they raise, are stopped or aborted.
GroupEnds ==
    (group.status = "running") ~>
        (group.status = "completed" \/ (group.mode = "sync" /\ group.end # "none")
            \/ _select_schedulable_tasks = {})

\* stop_subagent_run, "Mark one child run as cancelled": the mark is not taken back by the
\* child.
StoppedStaysStopped ==
    [][\A t \in Tasks : row[t].stopped /\ group'.runs = group.runs => row'[t].status = "cancelled"]_vars

\* append_subagent_continuation, "Append a parent-to-child continuation message to a child
\* row": a message that was accepted is in the row.
MessagesAreKept == \A t \in Tasks : row[t].messages >= sent[t]

\* "subagent_group_joined ... subagent_group_failed - when join_state is not done": an
\* execution of the group ends in one of the two.
GroupReportsItsEnd == group.end # "raised"

\* InMemorySubagentStore, "idempotent child spawn": the child of an idempotency key is run
\* once.
SpawnIsIdempotent == \A t \in Tasks : spawned[t] <= 1
=============================================================================
