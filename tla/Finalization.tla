---------------------------- MODULE Finalization ----------------------------
(***************************************************************************)
(* How a run ends (lifecycle/steps.py _execute_finalize, tool_stage        *)
(* _finalize_tool_stage_transition, lifecycle_hooks.py, journal.py).       *)
(* Between a model's text and the run's output stand some dozen gates that *)
(* may send the run back to the model, each with a budget of its own in    *)
(* the run's metadata, the host's finalize hooks, and the step limit with  *)
(* its grace.  The process may die between two effects and the run is then *)
(* taken up from its checkpoint, with the caller's input.                  *)
(***************************************************************************)
EXTENDS Naturals, Sequences, FiniteSetsExt

CONSTANTS
    None,
    Texts,           \* the texts a model may answer with
    Hooks,           \* finalize hooks, as registered: [priority, limit, disable, closed]
    Budget,          \* gate -> how often it may send the run back (_MAX_...)
    max_tool_calls, max_steps,
    budget_grace_enabled,
    Contract,        \* node contract: [use, tools, early] are in force
    Research,        \* a research contract is in force
    Evidence,        \* a policy profile requires evidence
    Plans,           \* planning states the run may start in
    Effects,         \* what a tool call may change
    quality_gate,    \* the optional judge of a tool stage is configured
    MaxCrashes

Gates == {"empty", "refusal", "empty_calls", "open_todos", "verify", "recovery", "quality",
          "plan_refinement", "plan_mode", "repair", "nudge", "tool_use", "rubric"}

_GRACE_EXTRA_LLM_STEPS == 2

FinalizationAssumption ==
    /\ Texts \subseteq {"empty", "refusal", "unfinished", "short", "long"}
    /\ \A i \in DOMAIN Hooks : Hooks[i] \in [priority : Nat, limit : Nat, disable : BOOLEAN, closed : BOOLEAN]
    /\ Budget \in [Gates -> Nat]
    /\ {max_tool_calls, max_steps} \subseteq Nat \ {0}
    /\ Contract \in [use : BOOLEAN, tools : BOOLEAN, early : BOOLEAN]
    /\ Plans \subseteq {"off", "mode", "refine"}
    /\ Effects \subseteq {"works", "other", "opens_todos", "closes_todos", "enters_plan", "leaves_plan"}

VARIABLES
    at,       \* the step, and inside finalize: judging, completing, committing
    meta,     \* context.metadata, with the last response
    tools,    \* the tool policy of run_input offers tools
    events,   \* assistant messages in the event log: how many, and the first of the long ones
    saved,    \* the latest checkpoint
    judged,   \* what the finalize hooks said last, and of what
    told,     \* answers given to on_run_completed
    leaked,   \* a tool ran in a revision that excludes them
    outcome,
    crashes

vars == <<at, meta, tools, events, saved, judged, told, leaked, outcome, crashes>>

FirstResponse == [text |-> "empty", calls |-> FALSE, planned |-> FALSE, suppressed |-> FALSE, n |-> 0]

Init ==
    /\ at = "llm_call" /\ tools = TRUE /\ events = [n |-> 0, long |-> 0] /\ crashes = 0
    /\ \E p \in Plans :
         meta = [count |-> [g \in Gates |-> 0], llm_steps |-> 0, calls |-> 0, used |-> FALSE,
                 worked |-> FALSE, todos |-> "none", plan |-> p, force |-> FALSE, choice |-> "auto",
                 granted |-> None, synthesis |-> FALSE, early |-> FALSE, strong |-> FALSE,
                 violation |-> "none", response |-> FirstResponse]
    /\ saved = [at |-> at, meta |-> meta]
    /\ judged = [answer |-> None, draft |-> 0, rejecting |-> {}, winner |-> 0, count |-> 0]
    /\ told = <<>> /\ leaked = FALSE
    /\ outcome = [status |-> "running", event |-> None, output |-> None]

-----------------------------------------------------------------------------
\* The step limit, looked at before every step.

Exhausted == meta.llm_steps >= max_steps
InGrace == meta.granted # None /\ meta.llm_steps - meta.granted <= _GRACE_EXTRA_LLM_STEPS

_terminal_from_limits == Exhausted => InGrace

\* The terminal answer: the one an early finalize stashed, else the text of the last response.
_sanitize_terminal_answer ==
    IF meta.early THEN "evidence"
    ELSE IF meta.response.text = "empty" THEN None ELSE meta.response.n

\* _build_output replaces an empty or much shorter answer of a run without tool calls by
\* the longest text in the event log.
recover_degenerate_terminal_answer(answer) ==
    IF ~meta.used /\ events.long # 0 /\ meta.response.text # "long" THEN events.long ELSE answer

\* A terminal output: _build_output, the checkpoint when there is one, and the end.
_finish_terminal(status, event) ==
    /\ outcome' = [status |-> status, event |-> event,
                   output |-> recover_degenerate_terminal_answer(_sanitize_terminal_answer)]
    /\ at' = "done"

AtStep == at \in {"llm_call", "tool_stage", "finalize"}

\* The first exhaustion opens the window for a forced final answer.
GrantGrace ==
    /\ AtStep /\ Exhausted /\ meta.granted = None /\ budget_grace_enabled
    /\ meta' = [meta EXCEPT !.granted = meta.llm_steps, !.force = TRUE, !.choice = "none"]
    /\ UNCHANGED <<at, tools, events, saved, judged, told, leaked, outcome, crashes>>

LimitEnds ==
    /\ AtStep /\ Exhausted /\ ~InGrace
    /\ meta.granted # None \/ ~budget_grace_enabled
    /\ _finish_terminal("max_steps", None)
    /\ UNCHANGED <<meta, tools, events, saved, judged, told, leaked, crashes>>

-----------------------------------------------------------------------------
\* A model call.  Calls that a forced final response ships although it was asked for none
\* are taken out; a plan gate's tool_choice lets them through.
execute_llm_call_step ==
    /\ at = "llm_call" /\ _terminal_from_limits
    /\ \E text \in Texts, calls \in BOOLEAN, ships \in BOOLEAN :
         /\ ships => calls
         /\ LET suppressed == ships /\ meta.force /\ (meta.choice = "none" \/ ~tools)
                response == [text |-> text, calls |-> calls, planned |-> ships /\ ~suppressed,
                             suppressed |-> suppressed, n |-> events.n + 1]
            IN  meta' = [meta EXCEPT !.llm_steps = @ + 1, !.response = response]
         /\ events' = [n |-> events.n + 1,
                       long |-> IF events.long = 0 /\ text = "long" THEN events.n + 1 ELSE events.long]
    /\ at' = "tool_stage" /\ saved' = [at |-> at', meta |-> meta']
    /\ UNCHANGED <<tools, judged, told, leaked, outcome, crashes>>

-----------------------------------------------------------------------------
\* The tool stage: what a call changes, whether the next answer is forced, and the gates
\* a response without calls has to pass before it is taken for final.

\* The budget clamp: one call a response is enough for the gates.
ToolRuns == meta.response.planned /\ meta.calls < max_tool_calls

AfterCall(effect) ==
    [meta EXCEPT !.calls = IF effect \in {"opens_todos", "closes_todos"} THEN @ ELSE @ + 1,
                 !.used = TRUE,
                 !.worked = @ \/ effect = "works",
                 !.todos = CASE effect = "opens_todos" -> "open"
                             [] effect = "closes_todos" -> "done"
                             [] OTHER -> @,
                 !.plan = CASE effect = "enters_plan" -> "mode"
                            [] effect = "leaves_plan" -> "off"
                            [] OTHER -> @,
                 !.count["empty_calls"] = 0]

\* The budgets, or one of the heuristics over the tool results.
_force_final_reason(m, heuristic) ==
    \/ m.calls >= max_tool_calls
    \/ m.llm_steps >= Max({1, max_steps - 1})
    \/ (heuristic /\ m.used)

_refresh_force_final_controls(m, heuristic) ==
    LET force == _force_final_reason(m, heuristic)
    IN  [m EXCEPT !.force = force, !.choice = IF force THEN "none" ELSE "auto"]

\* The gates in the order in which they are asked; the first one that objects and has not
\* used its budget holds the answer back.
StageGates == <<"empty", "refusal", "empty_calls", "open_todos", "verify">>

Objects(g, m) ==
    LET r == m.response
    IN  CASE g = "empty" -> r.text = "empty" /\ ~m.used
          [] g = "refusal" -> r.text = "refusal"
          [] g = "empty_calls" -> /\ r.calls /\ ~ToolRuns /\ ~r.suppressed
                                  /\ r.text \in {"empty", "refusal"}
          [] g = "open_todos" -> ~Research /\ m.todos = "open"
          [] g = "verify" -> ~Research /\ m.todos = "done"

Holding(m) == {i \in DOMAIN StageGates : /\ Objects(StageGates[i], m)
                                         /\ m.count[StageGates[i]] < Budget[StageGates[i]]}

Counted(m, g) == [m EXCEPT !.count[g] = @ + 1]

\* The optional judges: each question counts, whatever the answer, and none is asked about
\* a forced answer; the second one neither about an early answer or one of the strong model.
_maybe_recovery_gate(m) ==
    quality_gate /\ ~m.force /\ m.count["recovery"] < Budget["recovery"]

_maybe_quality_gate(m) ==
    quality_gate /\ ~m.early /\ ~m.force /\ ~m.strong /\ m.count["quality"] < Budget["quality"]

\* The next step and the metadata the judges leave; signal: something failed in this turn.
Judges(m, signal, repair, verdict) ==
    LET asked == signal /\ _maybe_recovery_gate(m)
        r == IF asked THEN Counted(m, "recovery") ELSE m
        counted == Counted(r, "quality")
    IN  IF asked /\ repair THEN <<"llm_call", r>>
        ELSE IF ~_maybe_quality_gate(r) \/ verdict = "accept"
             THEN <<"finalize", IF _maybe_quality_gate(r) THEN counted ELSE r>>
             ELSE <<"llm_call", [counted EXCEPT !.strong = verdict = "escalate_strong"]>>

_maybe_finalize_from_tool_evidence(m, now) == ToolRuns /\ (now \/ (Contract.early /\ m.worked))

\* Before the next call the need for a forced answer is looked at once more (the streak of
\* failures and the no-progress policy are brought up to date in between).
_maybe_force_final_answer(next, heuristic) ==
    IF next[1] = "llm_call" THEN <<next[1], _refresh_force_final_controls(next[2], heuristic)>> ELSE next

_finalize_tool_stage_transition(m, now, judges) ==
    LET early == _maybe_finalize_from_tool_evidence(m, now)
        e == [m EXCEPT !.early = @ \/ early]
    IN  IF ToolRuns /\ ~early THEN <<"llm_call", m>>
        ELSE IF Holding(e) # {}
             THEN <<"llm_call", Counted(e, StageGates[Min(Holding(e))])>>
             ELSE Judges(e, judges.signal, judges.repair, judges.verdict)

Answers == IF quality_gate
           THEN [signal : BOOLEAN, repair : BOOLEAN, verdict : {"accept", "continue", "escalate_strong"}]
           ELSE [signal : {FALSE}, repair : {FALSE}, verdict : {"accept"}]

execute_tool_stage_step ==
    /\ at = "tool_stage" /\ _terminal_from_limits
    /\ \E effect \in IF ToolRuns /\ tools THEN Effects ELSE {"other"}, heuristic, again \in BOOLEAN,
          now \in IF Contract.early THEN BOOLEAN ELSE {FALSE}, judges \in Answers :
         LET m == _refresh_force_final_controls(IF ToolRuns THEN AfterCall(effect) ELSE meta, heuristic)
             next == _maybe_force_final_answer(_finalize_tool_stage_transition(m, now, judges), again)
         IN  at' = next[1] /\ meta' = next[2]
    /\ leaked' = (leaked \/ (ToolRuns /\ tools /\ meta.synthesis))
    /\ saved' = [at |-> at', meta |-> meta']
    /\ UNCHANGED <<tools, events, judged, told, outcome, crashes>>

-----------------------------------------------------------------------------
\* The finalize step.  A gate sends the run back: its budget is charged, the answer and a
\* nudge are appended to the transcript, and the checkpoint is saved.
_resume_after_finalize(m, g) ==
    /\ meta' = Counted(m, g) /\ at' = "llm_call"
    /\ saved' = [at |-> at', meta |-> meta']
    /\ UNCHANGED outcome

_fail_finalize_revision_gate(m) ==
    /\ _finish_terminal("guardrail_blocked", None)
    /\ meta' = m /\ saved' = [at |-> at', meta |-> meta']

\* A run that is to leave a plan may not finish with prose, and fails when it insists.
PlanGates ==
    \E g \in {"plan_refinement", "plan_mode"} :
       /\ at = "finalize" /\ _terminal_from_limits
       /\ meta.plan = IF g = "plan_refinement" THEN "refine" ELSE "mode"
       /\ IF meta.count[g] >= Budget[g] THEN _fail_finalize_revision_gate(meta)
          ELSE _resume_after_finalize([meta EXCEPT !.choice = "exit"], g)
       /\ UNCHANGED <<tools, events, judged, told, leaked, crashes>>

\* A research contract that is not satisfied asks for a repair, with a tool or (when only its
\* todos are open) as a final answer, unless the same was asked before; a text that promises
\* more is taken at its word.
_maybe_build_continuation_transition(ready, same) ==
    LET repairs == meta.count["repair"]
    IN  IF Research /\ ~ready
        THEN IF repairs >= Budget["repair"] \/ (repairs >= 1 /\ same) THEN "none" ELSE "repair"
        ELSE IF meta.response.text = "unfinished" /\ meta.count["nudge"] < Budget["nudge"]
             THEN "nudge" ELSE "none"

ToolUsePending == Contract.use /\ ~meta.used
RequiredPending == Contract.tools /\ ~meta.worked
reprompt_budget_remaining == meta.count["tool_use"] < Budget["tool_use"]

\* The gate that sends a finalizing run back before the hooks see the answer.
Reprompt(ready, same) ==
    LET continuation == _maybe_build_continuation_transition(ready, same)
    IN  IF meta.synthesis THEN "none"
        ELSE IF continuation # "none" THEN continuation
        ELSE IF (ToolUsePending \/ RequiredPending) /\ reprompt_budget_remaining
             THEN "tool_use" ELSE "none"

Stamped ==
    IF meta.synthesis \/ ~(ToolUsePending \/ RequiredPending) THEN meta
    ELSE [meta EXCEPT !.violation = IF RequiredPending THEN "missing_required_tools" ELSE "no_tool_use"]

Reprompts ==
    /\ at = "finalize" /\ _terminal_from_limits /\ meta.plan = "off"
    /\ \E ready, same, force \in BOOLEAN :
         LET g == Reprompt(ready, same)
             m == IF g = "repair"
                  THEN [meta EXCEPT !.force = force, !.choice = IF force THEN "none" ELSE "tool"] ELSE meta
         IN  g # "none" /\ _resume_after_finalize(m, g)
    /\ UNCHANGED <<tools, events, judged, told, leaked, crashes>>

\* No gate objects: the required evidence is looked for, and the hooks are asked.
_maybe_finalize_required_evidence ==
    /\ at = "finalize" /\ _terminal_from_limits /\ meta.plan = "off"
    /\ \E ready \in BOOLEAN, same \in BOOLEAN : Reprompt(ready, same) = "none"
    /\ meta' = Stamped
    /\ IF Evidence /\ ~meta.worked
       THEN _finish_terminal("guardrail_blocked", None) /\ saved' = [at |-> at', meta |-> meta']
       ELSE at' = "judging" /\ UNCHANGED <<saved, outcome>>
    /\ UNCHANGED <<tools, events, judged, told, leaked, crashes>>

-----------------------------------------------------------------------------
\* The finalize hooks.  Each is asked; one that raises or takes too long has no objection.
\* Of several objections the one of the highest priority is heard, the first among equals.
Winner(requests) ==
    IF requests = {} THEN 0
    ELSE LET top == Max({Hooks[i].priority : i \in requests})
         IN  Min({i \in requests : Hooks[i].priority = top})

revision_limit(w) == Min({Budget["rubric"], Hooks[w].limit})

\* Mutant: a closed gate that has had its revision is satisfied with any answer.
ClosedOnlyAtFirst(w) == Hooks[w].closed /\ meta.count["rubric"] = 0

FailsClosed(w) == Hooks[w].closed

Revises(w) ==
    /\ meta.count["rubric"] < revision_limit(w)
    /\ tools' = (tools /\ ~Hooks[w].disable)
    /\ _resume_after_finalize([meta EXCEPT !.synthesis = Hooks[w].disable], "rubric")

dispatch_finalize ==
    /\ at = "judging"
    /\ \E requests \in SUBSET (DOMAIN Hooks) :
         LET w == Winner(requests)
         IN  /\ judged' = [answer |-> _sanitize_terminal_answer, draft |-> meta.response.n,
                           rejecting |-> requests, winner |-> w, count |-> meta.count["rubric"]]
             /\ \/ w # 0 /\ Revises(w)
                \/ /\ w # 0 /\ meta.count["rubric"] >= revision_limit(w) /\ FailsClosed(w)
                   /\ _fail_finalize_revision_gate([meta EXCEPT !.synthesis = FALSE]) /\ UNCHANGED tools
                \/ /\ w # 0 => meta.count["rubric"] >= revision_limit(w) /\ ~FailsClosed(w)
                   /\ at' = "completing" /\ meta' = [meta EXCEPT !.synthesis = FALSE]
                   /\ UNCHANGED <<tools, saved, outcome>>
    /\ UNCHANGED <<events, told, leaked, crashes>>

\* The observers are told, then the event is written and the terminal checkpoint saved.
dispatch_run_completed ==
    /\ at = "completing" /\ at' = "committing"
    /\ told' = Append(told, _sanitize_terminal_answer)
    /\ UNCHANGED <<meta, tools, events, saved, judged, leaked, outcome, crashes>>

Completes ==
    /\ at = "committing"
    /\ _finish_terminal("completed", _sanitize_terminal_answer)
    /\ saved' = [at |-> at', meta |-> meta]
    /\ UNCHANGED <<meta, tools, events, judged, told, leaked, crashes>>

\* The process dies; the run is taken up from its checkpoint with the caller's input.
Crash ==
    /\ at # "done" /\ crashes < MaxCrashes /\ crashes' = crashes + 1
    /\ at' = saved.at /\ meta' = saved.meta /\ tools' = TRUE
    /\ UNCHANGED <<events, saved, judged, told, leaked, outcome>>

Step ==
    \/ GrantGrace \/ LimitEnds
    \/ execute_llm_call_step \/ execute_tool_stage_step
    \/ PlanGates \/ Reprompts \/ _maybe_finalize_required_evidence
    \/ dispatch_finalize \/ dispatch_run_completed \/ Completes

Next == Step \/ Crash

Spec == Init /\ [][Next]_vars /\ WF_vars(Step)

-----------------------------------------------------------------------------
\* A run makes no more model calls than its limit and the grace allow, whatever the gates
\* ask for and however often it is taken up again.
CallsAreBounded ==
    meta.llm_steps <= max_steps + IF budget_grace_enabled THEN _GRACE_EXTRA_LLM_STEPS + 1 ELSE 0

\* A run completes with the answer the hooks judged last, which the observers were told;
\* and if the hook that was heard objected, it is one that accepts in the end, and the run
\* had used its revisions.  No run completes inside a plan.
EndsAsJudged ==
    outcome.status = "completed" =>
        /\ outcome.event = judged.answer /\ told[Len(told)] = judged.answer
        /\ judged.winner # 0 => /\ ~Hooks[judged.winner].closed
                                /\ judged.count >= revision_limit(judged.winner)
        /\ meta.plan = "off"

\* While the process lives, observers are told once and no tool runs in a revision that
\* excludes them.
ToldOnce == crashes = 0 => Len(told) <= 1 /\ ~leaked

\* A run that is driven ends.
Ends == <>(at = "done")

\* What the documentation says and the code does not do (README, section 9).

\* on_run_completed is given "the answer the user actually received".
OutputIsTheJudged == outcome.status = "completed" => outcome.output = outcome.event

\* fail_closed fails the run "instead of accepting an answer the gate still rejects".
ClosedGateHolds ==
    outcome.status = "completed" => \A i \in judged.rejecting : ~Hooks[i].closed

\* The answer of a synthesis-only revision "must return to that gate directly".
ReturnsToItsGate == [][at = "tool_stage" /\ meta.synthesis /\ ~ToolRuns => at' # "llm_call"]_vars

\* An early finalize needs "no extra LLM continuation".
EarlySkipsTheModel == [][at = "finalize" /\ meta.early => meta'.count["nudge"] = meta.count["nudge"]]_vars

\* A hook's request is one "to revise instead of finishing": the answer judged after it is
\* not the one it rejected.
RevisionIsRead ==
    [][judged.draft # 0 /\ judged'.draft # judged.draft => judged'.answer # judged.answer]_vars

\* A no_tool_use violation means the run "finalized with zero tool calls".
ViolationIsCurrent ==
    outcome.status = "completed" /\ meta.violation = "no_tool_use" => ~meta.used

\* The grace is "bounded by _GRACE_EXTRA_LLM_STEPS additional LLM steps".
GraceIsBounded ==
    meta.granted # None => meta.llm_steps - meta.granted <= _GRACE_EXTRA_LLM_STEPS

\* The reprompt for a missing call is not for calls "the provider DID ship".
ShippedCallsAreNotMissing ==
    [][meta.response.planned => meta'.count["empty_calls"] <= meta.count["empty_calls"]]_vars

\* on_run_completed "fires exactly once", and a synthesis-only revision has no tools, also
\* when the run is taken up by another process.
OnceForAll == Len(told) <= 1 /\ ~leaked
=============================================================================
