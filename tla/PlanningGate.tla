---------------------------- MODULE PlanningGate ----------------------------
(***************************************************************************)
(* The planning gate of tool execution: force planning in the mode        *)
(* strategy_required_before_execution (tools/policy/evaluator.py), the    *)
(* one-shot strategy grant (tools/context.py), plan approval and plan      *)
(* refinement (runtime/single_agent/planning/state.py,                     *)
(* tool_stage/planning.py, lifecycle/resume.py).                           *)
(*                                                                         *)
(* A run is a sequence of turns of the model, each a list of planned tool  *)
(* calls.  A gated call is denied until the model declares                 *)
(* continue_without_plan or the operator approves a plan proposed with     *)
(* exit_plan_mode_v2.  Adjacent concurrency-safe calls run as tasks of one *)
(* batch (both planning tools are concurrency-safe); a task has its own    *)
(* copy of the context, so a ledger it creates is seen by no one else.     *)
(***************************************************************************)
EXTENDS Naturals, Sequences, FiniteSets

CONSTANTS Args,            \* arguments of the gated tool: one fingerprint each
          BatchedArgs,     \* those of a concurrency-safe gated tool
          Plans,           \* plan contents, told apart by their content_hash
          HostAllowed,     \* the host's allowed_tools
          HostReusesPolicy,\* the host passes one policy object to every run
          MaxCalls, MaxTurns, MaxResumes, MaxRuns   \* bounds

CONSTANTS None

Declare == "continue_without_plan"
Exit    == "exit_plan_mode_v2"
Gated   == "gated"
Plain   == "plain"           \* a tool force planning does not gate
Tools   == {Declare, Exit, Gated, Plain}

Calls == [tool : {Gated}, arg : Args] \cup [tool : {Exit}, arg : Plans]
            \cup [tool : {Declare, Plain}, arg : {None}]

\* The dicts that may be absent.
Ledger     == [first : Calls, armed : BOOLEAN, consumed : BOOLEAN]
Refinement == [content_hash : Plans, previous_allowed_tools : {HostAllowed}]

\* What the constants have to be: what is absent is neither a plan nor a dict.
PlanningGateAssumption ==
    /\ BatchedArgs \subseteq Args
    /\ HostReusesPolicy \in BOOLEAN
    /\ MaxCalls \in Nat \ {0} /\ MaxTurns \in Nat
    /\ MaxResumes \in Nat /\ MaxRuns \in Nat
    /\ None \notin Plans \cup Ledger \cup Refinement

VARIABLES
  policy,      \* context.run_input.tool_policy
  hostForce,   \* continue_without_plan in the host's force_planning dict
  shared,      \* the run's force_planning dict is the host's
  refinement,  \* metadata plan_refinement_required
  ledger,      \* the strategy grant dict bound in the run's context
  stepTask,    \* each step runs in a task of its own (wait_for on 3.11)
  phase,       \* what the run does
  todo,        \* planned calls not started
  batch,       \* the calls of the running batch, with their stage
  result,      \* envelopes of the turn
  interrupt,   \* result.interrupt: the plan to approve
  turns, resumes, runs,
  log          \* history of the leg, for the properties

vars == <<policy, hostForce, shared, refinement, ledger, stepTask, phase,
          todo, batch, result, interrupt, turns, resumes, runs, log>>

\* --------------------------------------------------------------- the log
\* declared: the handler of a declaration ran; approved: an operator approved
\* a plan; denied: gated calls the strategy denied, first the first of them;
\* ran: what ran, gated calls by what let them; owed: an operator asked for a
\* revision no operator has approved since; asked: the plan it was about.
FreshLog == [declared |-> FALSE, approved |-> FALSE, denied |-> {}, first |-> None,
             ran |-> <<>>, owed |-> FALSE, asked |-> None]

is_call_concurrency_safe(c) ==
    c.tool \in {Declare, Exit} \/ (c.tool = Gated /\ c.arg \in BatchedArgs)

\* ------------------------------------------------------------ the ledger

\* _strategy_grant_state creates the dict in the context it is called from:
\* the run's for a serial call, a copy that dies with the task in a batch.
record_first_strategy_denial(c, inTask) ==
    IF ledger # None THEN ledger
    ELSE IF inTask THEN None
    ELSE [first |-> c, armed |-> FALSE, consumed |-> FALSE]

arm_strategy_grant ==
    IF ledger = None THEN None ELSE [ledger EXCEPT !.armed = ~ledger.consumed]

\* Mutant: using the grant does not spend it.
NotSpent == ledger

consume_strategy_grant == [ledger EXCEPT !.armed = FALSE, !.consumed = TRUE]

GrantMatches(c) ==
    ledger # None /\ ledger.armed /\ ~ledger.consumed /\ ledger.first = c

\* ------------------------------------------------------------ the policy
_force_planning_has_approved_plan == policy.continue_without_plan \/ policy.approved

\* How evaluate_tool_policy decides a call: "allow", "grant" (allowed by
\* spending the grant), "deny", or "strategy" (denied by force planning).
evaluate_tool_policy(c) ==
    IF c.tool \notin policy.allowed \/ c.tool \in policy.denied THEN "deny"
    ELSE IF c.tool # Gated \/ _force_planning_has_approved_plan THEN "allow"
    ELSE IF GrantMatches(c) THEN "grant" ELSE "strategy"

\* A management tool the allowlist omits is denied with a payload.
_management_tool_denial_remediation(c) ==
    c.tool \in {Declare, Exit} /\ c.tool \notin policy.allowed

\* One envelope: payload tells whether structured_output is a dict.
Envelope(c, outcome, payload) ==
    [call |-> c, outcome |-> outcome, payload |-> payload]

DeniedEnvelope(c) == Envelope(c, "denied", _management_tool_denial_remediation(c))

\* The envelope of a call that was let through: exit_plan_mode_v2 asks for
\* the plan's approval, unless it is the approved call itself.
AllowedEnvelope(c) ==
    Envelope(c, IF c.tool = Exit /\ phase # "approved" THEN "interrupt" ELSE "ran", TRUE)

Allowed(decision) == decision \in {"allow", "grant"}

\* What evaluating c writes: the ledger and the log.
Evaluated(c, decision, inTask) ==
    /\ ledger' = CASE decision = "grant" -> consume_strategy_grant
                   [] decision = "strategy" -> record_first_strategy_denial(c, inTask)
                   [] OTHER -> ledger
    /\ log' = CASE decision = "strategy" ->
                     [log EXCEPT !.denied = @ \cup {c},
                                 !.first = IF @ = None THEN c ELSE @]
                [] c.tool \in {Gated, Plain} /\ Allowed(decision) ->
                     [log EXCEPT !.ran = Append(@, [call |-> c,
                        by |-> IF decision = "grant" THEN "grant"
                               ELSE IF c.tool = Plain THEN "plain"
                               ELSE IF policy.approved THEN "plan" ELSE "bypass"])]
                [] OTHER -> log

-----------------------------------------------------------------------------
\* A leg starts with the policy the host passes and an empty ledger
\* (strategy_grant_scope, _init_context).
HostPolicy == [allowed |-> HostAllowed, denied |-> {},
               continue_without_plan |-> hostForce, approved |-> FALSE]

Init ==
    /\ hostForce = FALSE /\ shared = TRUE
    /\ policy = [allowed |-> HostAllowed, denied |-> {},
                 continue_without_plan |-> FALSE, approved |-> FALSE]
    /\ refinement = None /\ ledger = None /\ stepTask \in BOOLEAN
    /\ phase = "model" /\ todo = <<>> /\ batch = <<>> /\ result = <<>>
    /\ interrupt = None /\ turns = 0 /\ resumes = 0 /\ runs = 1
    /\ log = FreshLog

PlannedCalls == UNION {[1 .. n -> Calls] : n \in 1 .. MaxCalls}

\* The model plans a turn.
llm_call ==
    /\ phase = "model" /\ turns < MaxTurns
    /\ \E s \in PlannedCalls : todo' = s
    /\ turns' = turns + 1 /\ phase' = "tools"
    /\ result' = <<>> /\ interrupt' = None
    /\ UNCHANGED <<policy, hostForce, shared, refinement, ledger, stepTask, batch,
                   resumes, runs, log>>

InTools == phase \in {"tools", "approved"}
Stopped == interrupt # None

\* A call that is not concurrency-safe runs alone, in the step's context.
_execute_one_call ==
    /\ InTools /\ batch = <<>> /\ todo # <<>> /\ ~Stopped
    /\ ~is_call_concurrency_safe(Head(todo))
    /\ LET c == Head(todo)
           d == evaluate_tool_policy(c)
       IN /\ Evaluated(c, d, FALSE)
          /\ result' = Append(result, IF Allowed(d) THEN AllowedEnvelope(c)
                                                    ELSE DeniedEnvelope(c))
    /\ todo' = Tail(todo)
    /\ UNCHANGED <<policy, hostForce, shared, refinement, stepTask, phase, batch,
                   interrupt, turns, resumes, runs>>

\* The length of the batch at the head of todo.
BatchLen == CHOOSE n \in 1 .. Len(todo) :
    /\ \A i \in 1 .. n : is_call_concurrency_safe(todo[i])
    /\ n < Len(todo) => ~is_call_concurrency_safe(todo[n + 1])

_execute_parallel_batch ==
    /\ InTools /\ batch = <<>> /\ todo # <<>> /\ ~Stopped
    /\ is_call_concurrency_safe(Head(todo))
    /\ batch' = [i \in 1 .. BatchLen |-> Envelope(todo[i], "new", FALSE)]
    /\ todo' = SubSeq(todo, BatchLen + 1, Len(todo))
    /\ UNCHANGED <<policy, hostForce, shared, refinement, ledger, stepTask, phase,
                   result, interrupt, turns, resumes, runs, log>>

\* A task of the batch evaluates its call's policy ...
TaskEvaluates(i) ==
    /\ batch[i].outcome = "new"
    /\ LET c == batch[i].call
           d == evaluate_tool_policy(c)
       IN /\ Evaluated(c, d, TRUE)
          /\ batch' = [batch EXCEPT ![i] =
                         IF Allowed(d) THEN Envelope(c, "started", FALSE)
                         ELSE DeniedEnvelope(c)]
    /\ UNCHANGED <<policy, hostForce, shared, refinement, stepTask, phase, todo,
                   result, interrupt, turns, resumes, runs>>

\* ... and then runs its handler: _continue_without_plan_tool arms the grant.
TaskRuns(i) ==
    /\ batch[i].outcome = "started"
    /\ batch' = [batch EXCEPT ![i] = AllowedEnvelope(batch[i].call)]
    /\ IF batch[i].call.tool = Declare
       THEN ledger' = arm_strategy_grant /\ log' = [log EXCEPT !.declared = TRUE]
       ELSE UNCHANGED <<ledger, log>>
    /\ UNCHANGED <<policy, hostForce, shared, refinement, stepTask, phase, todo,
                   result, interrupt, turns, resumes, runs>>

\* asyncio.gather returns: the envelopes are merged in planned order and the
\* first interrupt becomes the turn's.
Gathered ==
    /\ batch # <<>>
    /\ \A i \in DOMAIN batch : batch[i].outcome \notin {"new", "started"}
    /\ result' = result \o batch
    /\ LET asks == {i \in DOMAIN batch : batch[i].outcome = "interrupt"}
       IN interrupt' = IF asks = {} THEN None
                       ELSE batch[CHOOSE i \in asks : \A j \in asks : i <= j].call.arg
    /\ batch' = <<>>
    /\ UNCHANGED <<policy, hostForce, shared, refinement, ledger, stepTask, phase,
                   todo, turns, resumes, runs, log>>

-----------------------------------------------------------------------------
\* The tail of execute_tool_stage_step.

\* The envelope repeats the plan the operator asked to revise.
enforce_plan_refinement_revision(e) ==
    /\ refinement # None /\ e.call.tool = Exit /\ e.payload
    /\ e.outcome # "denied" /\ e.call.arg = refinement.content_hash

Revised == [i \in DOMAIN result |->
    IF enforce_plan_refinement_revision(result[i])
    THEN [result[i] EXCEPT !.outcome = "unchanged", !.payload = FALSE] ELSE result[i]]

Repeats == \E i \in DOMAIN result : enforce_plan_refinement_revision(result[i])

\* Envelopes apply_planning_updates_from_envelopes acts on: their
\* structured_output is a dict, whatever the decision was.
Proposals    == {i \in DOMAIN Revised : Revised[i].call.tool = Exit
                   /\ Revised[i].payload /\ Revised[i].outcome # "denied"}
Declarations == {i \in DOMAIN Revised : Revised[i].call.tool = Declare /\ Revised[i].payload}

\* allowed_tools after the plan envelopes: the first restores what the
\* refinement kept, one without a pending refinement leaves none.
RestoredTools == IF refinement # None /\ Cardinality(Proposals) = 1
                 THEN refinement.previous_allowed_tools ELSE Tools

apply_planning_updates_from_envelopes ==
    /\ policy' = [policy EXCEPT
         !.allowed = IF Proposals # {} THEN RestoredTools ELSE @,
         !.continue_without_plan = @ \/ Declarations # {}]
    /\ refinement' = IF Proposals # {} THEN None ELSE refinement
    /\ hostForce' = (hostForce \/ (HostReusesPolicy /\ shared /\ Declarations # {}))

execute_tool_stage_step ==
    /\ InTools /\ batch = <<>> /\ (todo = <<>> \/ Stopped)
    /\ apply_planning_updates_from_envelopes
    /\ interrupt' = IF Repeats THEN None ELSE interrupt
    /\ phase' = IF interrupt' # None THEN "paused" ELSE "model"
    /\ ledger' = IF stepTask THEN None ELSE ledger
    /\ todo' = <<>> /\ result' = <<>>
    /\ UNCHANGED <<shared, stepTask, batch, turns, resumes, runs, log>>

-----------------------------------------------------------------------------
\* The operator answers a plan; the host passes its policy again.
Leg == /\ phase = "paused" /\ resumes < MaxResumes /\ resumes' = resumes + 1
       /\ ledger' = None /\ stepTask' \in BOOLEAN /\ interrupt' = None
       /\ UNCHANGED <<hostForce, batch, result, turns, runs>>

\* APPROVE goes on with the model, EDIT runs the exit call again as approved.
_mark_force_planning_approved ==
    /\ Leg
    /\ policy' = [HostPolicy EXCEPT !.approved = TRUE] /\ shared' = FALSE
    /\ log' = [FreshLog EXCEPT !.approved = TRUE]
    /\ \/ phase' = "model" /\ todo' = <<>>
       \/ \E p \in Plans :
            phase' = "approved" /\ todo' = <<[tool |-> Exit, arg |-> p]>>
    /\ UNCHANGED refinement

\* CLARIFY: only a revised plan may follow.
begin_plan_refinement ==
    /\ Leg
    /\ refinement' = [content_hash |-> interrupt, previous_allowed_tools |-> HostAllowed]
    /\ policy' = [HostPolicy EXCEPT !.allowed = {Exit}, !.denied = {Declare},
                                    !.continue_without_plan = FALSE]
    /\ shared' = FALSE
    /\ log' = [FreshLog EXCEPT !.owed = TRUE, !.asked = interrupt]
    /\ phase' = "model" /\ UNCHANGED todo

\* The run ends: a final answer, a rejected plan, or a refinement that only
\* gets prose (_execute_finalize fails it after its retries).
Finish ==
    /\ phase \in {"model", "paused"}
    /\ phase' = "ended"
    /\ UNCHANGED <<policy, hostForce, shared, refinement, ledger, stepTask, todo,
                   batch, result, interrupt, turns, resumes, runs, log>>

\* The host starts its next run.
NewRun ==
    /\ phase = "ended" /\ runs < MaxRuns
    /\ runs' = runs + 1 /\ phase' = "model"
    /\ policy' = HostPolicy /\ shared' = TRUE
    /\ ledger' = None /\ stepTask' \in BOOLEAN /\ log' = FreshLog
    /\ interrupt' = None /\ refinement' = None /\ turns' = 0 /\ resumes' = 0
    /\ UNCHANGED <<hostForce, todo, batch, result>>

Next ==
    \/ llm_call \/ _execute_one_call \/ _execute_parallel_batch \/ Gathered
    \/ \E i \in DOMAIN batch : TaskEvaluates(i) \/ TaskRuns(i)
    \/ execute_tool_stage_step
    \/ _mark_force_planning_approved \/ begin_plan_refinement
    \/ Finish \/ NewRun

Spec == Init /\ [][Next]_vars

-----------------------------------------------------------------------------
\* Types of the run's state.
TypeOK ==
    /\ policy \in [allowed : SUBSET Tools, denied : SUBSET Tools,
                   continue_without_plan : BOOLEAN, approved : BOOLEAN]
    /\ hostForce \in BOOLEAN /\ shared \in BOOLEAN /\ stepTask \in BOOLEAN
    /\ refinement \in Refinement \cup {None} /\ ledger \in Ledger \cup {None}
    /\ phase \in {"model", "tools", "approved", "paused", "ended"}
    /\ todo \in Seq(Calls) /\ interrupt \in Plans \cup {None}

By(why) == {i \in DOMAIN log.ran : log.ran[i].by = why}

\* A gated call runs only in a leg in which the model's declaration ran or
\* an operator approved a plan (_evaluate_force_planning).
GatedNeedsAWord ==
    /\ (By("grant") \cup By("bypass") # {}) => log.declared
    /\ By("plan") # {} => log.approved

\* The grant lets one call through, and one that was denied before
\* (consume_strategy_grant: "exactly once, for the granted call only"), with
\* copies of the call in tasks of one batch and declarations in between.
OneGrantPerRun ==
    /\ Cardinality(By("grant")) <= 1
    /\ \A i \in By("grant") : log.ran[i].call \in log.denied

\* From the operator's request to revise the plan until an operator approves
\* one, nothing but the planning tools runs (begin_plan_refinement).
LockedUntilApproved == log.owed => log.ran = <<>>

\* The plan put before the operator after such a request is not the one the
\* request was about (enforce_plan_refinement_revision).
RevisionDiffers == (phase = "paused" /\ log.owed) => interrupt # log.asked

\* A declaration covers one gated action; the next needs a plan
\* (the comment on the ledger in tools/context.py).
OneActionPerDeclaration == Cardinality(By("grant") \cup By("bypass")) <= 1

\* A declaration after a denial arms the grant for the first denied call
\* (arm_strategy_grant), if the grant was not used before.
DeclarationArms ==
    [][(~log.declared /\ log'.declared /\ log.first # None)
         => (ledger' # None /\ ledger'.armed /\ ledger'.first = log.first)]_vars

\* No declaration outlives its run: a run the host starts with a policy
\* that did not bypass the gate is gated (strategy_grant_scope).
GrantEndsWithItsRun == [][runs' # runs => ~policy'.continue_without_plan]_vars

\* No tool outside the host's allowed_tools runs, whatever plans are
\* proposed, edited and approved.
AllowlistIsKept == \A i \in DOMAIN log.ran : log.ran[i].call.tool \in HostAllowed
=============================================================================
