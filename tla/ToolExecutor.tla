---------------------------- MODULE ToolExecutor ----------------------------
(***************************************************************************)
(* The governed tool executor (tools/executor/) inside a run's tool stage. *)
(* A model answer plans some calls; the stage clamps them to what is left  *)
(* of the run's budget, the executor cuts them into serial calls and       *)
(* batches that run concurrently under a semaphore, and each call passes   *)
(* the static policy, the gate, the decision hooks, the guardrails and the *)
(* abort check before its handler starts.  Every wait on host code (gate,  *)
(* guardrail, handler) is a point where the other calls of the batch, and  *)
(* an abort, may come in between.  An interrupt parks the run until the    *)
(* operator answers it.                                                    *)
(*                                                                         *)
(* A tool stands for how the executor treats it: "read" is concurrency     *)
(* safe, "write" is not, "todo" is one of the housekeeping tools, "ask"    *)
(* stands for ask_user_question and wait_for_event, "exit" for             *)
(* exit_plan_mode_v2, "unknown" is not registered.                         *)
(***************************************************************************)
EXTENDS Naturals, Sequences, FiniteSets, FiniteSetsExt

CONSTANTS Tools,          \* the kinds of tool the model calls
          MaxCalls,       \* bound: calls of one answer
          MaxTurns,       \* bound: answers of a run
          MaxResumes,     \* bound: operator answers
          concurrency_limit,
          max_tool_calls, \* the run's budget
          policy_calls,   \* tool_policy.max_tool_calls
          Modes,          \* tool_policy.mode
          HookAnswers,    \* what the host's decision hooks propose
          Prompts,        \* the operator approved prompt categories
          Corrective      \* corrective_rejection_enabled

\* What the constants have to be.
ExecutorAssumption ==
    /\ Tools \subseteq {"read", "write", "todo", "ask", "exit", "unknown"}
    /\ {MaxCalls, MaxTurns, MaxResumes, policy_calls} \subseteq Nat
    /\ {concurrency_limit, max_tool_calls} \subseteq Nat \ {0}
    /\ Modes \subseteq {"allow_tools", "no_tools", "ask"}
    /\ HookAnswers \subseteq {"allow", "interrupt", "deny"}
    /\ {Prompts, Corrective} \subseteq BOOLEAN

VARIABLES
    mode,       \* the run's policy mode
    pc,         \* "llm", "units", "store", "paused", "end"
    turns,      \* answers so far
    resumes,    \* operator answers so far
    calls,      \* planned_tool_calls of the turn, after the clamp
    at,         \* next_index
    stage,      \* where each call of the turn is
    sub,        \* envelope and stop flag of each call of the turn
    result,     \* indices and envelopes in GovernedExecutionResult
    interrupt,  \* index of the call of result.interrupt, 0 for None
    tool_calls, refunded,   \* context.tool_calls, refunded_tool_calls
    aborted,    \* abort_handle.is_aborted
    ran,        \* calls of the turn whose handler started
    refused,    \* calls of the turn that policy, gate or a hook refused
    work        \* executable handlers started in the run

turn == <<calls, at, stage, sub, result, interrupt, ran, refused>>
vars == <<mode, pc, turns, resumes, turn, tool_calls, refunded, aborted, work>>

Calls == [tool : Tools, approved : BOOLEAN]
Interrupts == {"approval", "clarify", "plan"}
Housekeeping == {"todo"}
Executable == {"read", "write"}
NotRun == [env |-> "none", stop |-> FALSE]

(***************************************************************************)
(* Partition: a maximal run of concurrency-safe calls is one batch.        *)
(***************************************************************************)
is_call_concurrency_safe(i) == calls[i].tool \notin {"write", "unknown"}

SameUnit(i, j) == i = j \/ \A k \in i .. j : is_call_concurrency_safe(k)

Unit == {i \in at .. Len(calls) : SameUnit(at, i)}

(***************************************************************************)
(* The decision on a call: static policy with the count by index, the two  *)
(* ways an interrupt collapses to allow, the gate, the hooks.              *)
(***************************************************************************)
\* Mutant: the count is the traces recorded so far, which a batch shares.
CountsTraces(i) == Len(result)
CallCount(i) == i - 1

evaluate_tool_policy(i) ==
    IF mode = "no_tools" THEN {"deny"}
    ELSE IF mode = "ask" THEN {"interrupt"}
    ELSE IF CallCount(i) >= policy_calls THEN {"deny"}
    ELSE {"allow", "deny", "interrupt"}

Collapsed(i, d) ==
    IF d = "interrupt" /\ calls[i].approved THEN {"allow"}
    ELSE IF d = "interrupt" /\ Prompts THEN {"allow", "interrupt"}
    ELSE {d}

Rank == [allow |-> 0, interrupt |-> 1, deny |-> 2]

\* Mutant: the last word wins.
LastWins(current, proposed) == proposed
tighten_decision(current, proposed) ==
    IF Rank[proposed] > Rank[current] THEN proposed ELSE current

Settle(i, env, stop) ==
    /\ stage' = [stage EXCEPT ![i] = "done"]
    /\ sub' = [sub EXCEPT ![i] = [env |-> env, stop |-> stop]]

\* apply_decision_hooks, and what _execute_one_call does with the outcome.
Decide(i, d) == \E p \in HookAnswers :
    LET final == tighten_decision(d, p) IN
    /\ refused' = IF d = "allow" /\ p = "allow" THEN refused ELSE refused \cup {i}
    /\ CASE final = "deny"      -> Settle(i, "denied", FALSE)
         [] final = "interrupt" -> Settle(i, "approval", TRUE)
         [] final = "allow"     -> stage' = [stage EXCEPT ![i] = "input"] /\ UNCHANGED sub

-----------------------------------------------------------------------------
Init ==
    /\ mode \in Modes
    /\ pc = "llm"
    /\ turns = 0 /\ resumes = 0
    /\ calls = << >> /\ at = 1 /\ stage = << >> /\ sub = << >>
    /\ result = << >> /\ interrupt = 0 /\ ran = {} /\ refused = {}
    /\ tool_calls = 0 /\ refunded = 0 /\ work = 0
    /\ aborted = FALSE

\* execute() begins: a fresh result for these calls.
Execute(planned) ==
    /\ calls' = planned
    /\ stage' = [i \in 1 .. Len(planned) |-> "idle"]
    /\ sub' = [i \in 1 .. Len(planned) |-> NotRun]
    /\ at' = 1 /\ result' = << >> /\ interrupt' = 0
    /\ ran' = {} /\ refused' = {}
    /\ pc' = IF planned = << >> THEN "store" ELSE "units"

_apply_tool_call_step_limit(planned) ==
    LET effective == IF tool_calls > refunded THEN tool_calls - refunded ELSE 0
        left == IF max_tool_calls > effective THEN max_tool_calls - effective ELSE 0
    IN SubSeq(planned, 1, Min({Len(planned), left}))

Plans == UNION {[1 .. n -> [tool : Tools, approved : {FALSE}]] : n \in 1 .. MaxCalls}

llm_call ==
    /\ pc = "llm" /\ ~aborted /\ turns < MaxTurns
    /\ turns' = turns + 1
    /\ \E planned \in Plans : Execute(_apply_tool_call_step_limit(planned))
    /\ UNCHANGED <<mode, resumes, tool_calls, refunded, aborted, work>>

finalize ==
    /\ pc = "llm"
    /\ pc' = "end"
    /\ UNCHANGED <<mode, turns, resumes, turn, tool_calls, refunded, aborted, work>>

Abort ==
    /\ pc = "units" /\ ~aborted
    /\ aborted' = TRUE
    /\ UNCHANGED <<mode, pc, turns, resumes, turn, tool_calls, refunded, work>>

\* Mutant: a denied call keeps its slot of the semaphore.
DenialKeepsItsSlot == {i \in Unit : stage[i] # "idle" /\ (stage[i] = "done" => sub[i].env = "denied")}
\* The calls of the unit that hold a slot of the semaphore.
Holding == {i \in Unit : stage[i] \notin {"idle", "done"}}

InUnit(i) == pc = "units" /\ i \in Unit
Keeps == UNCHANGED <<mode, pc, turns, resumes, calls, at, result, interrupt, tool_calls, refunded, aborted>>

\* A slot is free for the first call still waiting; the policy is evaluated and,
\* unless it allows a call nobody approved yet, the hooks settle it at once.
Enter(i) ==
    /\ InUnit(i) /\ stage[i] = "idle"
    /\ \A j \in Unit : j < i => stage[j] # "idle"
    /\ Cardinality(Holding) < concurrency_limit
    /\ \E s \in evaluate_tool_policy(i) : \E d \in Collapsed(i, s) :
           IF d = "allow" /\ ~calls[i].approved
           THEN stage' = [stage EXCEPT ![i] = "gate"] /\ UNCHANGED <<sub, refused>>
           ELSE Decide(i, d)
    /\ UNCHANGED <<ran, work>> /\ Keeps

\* Allow, Deny, Ask; a gate that raises or answers out of type is a Deny.
_apply_tool_gate(i) ==
    /\ InUnit(i) /\ stage[i] = "gate"
    /\ \E d \in {"allow", "deny", "interrupt"} : Decide(i, d)
    /\ UNCHANGED <<ran, work>> /\ Keeps

\* on_input, then the capability check: both block or let go on.
on_input(i) ==
    /\ InUnit(i) /\ stage[i] = "input"
    /\ \/ Settle(i, "denied", FALSE)
       \/ stage' = [stage EXCEPT ![i] = "args"] /\ UNCHANGED sub
    /\ UNCHANGED <<ran, refused, work>> /\ Keeps

\* Mutant: the abort is looked at before the guardrail is awaited.
ChecksEarlier(i) ==
    /\ InUnit(i) /\ stage[i] = "args"
    /\ calls[i].tool # "unknown"
    /\ stage' = [stage EXCEPT ![i] = "running"]
    /\ ran' = ran \cup {i}
    /\ work' = IF calls[i].tool \in Executable THEN work + 1 ELSE work
    /\ UNCHANGED <<sub, refused>> /\ Keeps
\* on_tool_args, then _allowed_precheck_blocked lets the handler start.
StartHandler(i) ==
    /\ InUnit(i) /\ stage[i] = "args"
    /\ calls[i].tool # "unknown" /\ ~aborted
    /\ stage' = [stage EXCEPT ![i] = "running"]
    /\ ran' = ran \cup {i}
    /\ work' = IF calls[i].tool \in Executable THEN work + 1 ELSE work
    /\ UNCHANGED <<sub, refused>> /\ Keeps

\* The guardrail, the missing registration, the schema probe or the abort blocks it.
_allowed_precheck_blocked(i) ==
    /\ InUnit(i) /\ stage[i] = "args"
    /\ Settle(i, "denied", FALSE)
    /\ UNCHANGED <<ran, refused, work>> /\ Keeps

\* What a handler leaves: a failure or a guardrail's block is a denied envelope.
Outcomes(c) ==
    {[env |-> "denied", stop |-> FALSE]} \cup
    CASE c.tool = "ask" -> {[env |-> "clarify", stop |-> TRUE]}
      [] c.tool = "exit" /\ ~c.approved ->
            {NotRun,                                \* a plan with no requested_tools
             [env |-> "denied", stop |-> TRUE],     \* the plan names what it may not
             [env |-> "plan", stop |-> TRUE]}
      [] OTHER -> {[env |-> "completed", stop |-> FALSE]}

execute_allowed_path(i) ==
    /\ InUnit(i) /\ stage[i] = "running"
    /\ \E o \in Outcomes(calls[i]) : Settle(i, o.env, o.stop)
    /\ UNCHANGED <<ran, refused, work>> /\ Keeps

\* The envelopes of a set of calls, in planned order.
Merged(S) ==
    LET kept == {i \in S : sub[i].env # "none"}
        nth(n) == CHOOSE i \in kept : Cardinality({j \in kept : j < i}) = n - 1
    IN [n \in 1 .. Cardinality(kept) |-> [i |-> nth(n), env |-> sub[nth(n)].env]]

Interrupting(S) == {i \in S : sub[i].env \in Interrupts}

FirstInterrupt(S) ==
    IF interrupt = 0 /\ Interrupting(S) # {} THEN Min(Interrupting(S)) ELSE interrupt

\* A serial call stops the turn by its flag, a batch by an interrupt alone.
Stops(S) == IF is_call_concurrency_safe(at) THEN Interrupting(S) # {} ELSE sub[at].stop

\* asyncio.gather returned, or the serial call did.
UnitEnds ==
    /\ pc = "units" /\ \A i \in Unit : stage[i] = "done"
    /\ result' = result \o Merged(Unit)
    /\ interrupt' = FirstInterrupt(Unit)
    /\ at' = Max(Unit) + 1
    /\ pc' = IF Stops(Unit) \/ at' > Len(calls) THEN "store" ELSE "units"
    /\ UNCHANGED <<mode, turns, resumes, calls, stage, sub, ran, refused, tool_calls, refunded, aborted, work>>

_store_tool_stage_outputs ==
    /\ pc = "store"
    /\ tool_calls' = tool_calls + Len(result)
    /\ refunded' = refunded + Cardinality({n \in 1 .. Len(result) : calls[result[n].i].tool \in Housekeeping})
    /\ pc' = IF interrupt # 0 THEN "paused" ELSE IF aborted THEN "end" ELSE "llm"
    /\ UNCHANGED <<mode, turns, resumes, turn, aborted, work>>

-----------------------------------------------------------------------------
(***************************************************************************)
(* The operator's answer to the interrupt.                                 *)
(***************************************************************************)
\* pending_interrupt_from_execution_result: the first envelope that interrupts.
Pending == result[Min({n \in 1 .. Len(result) : result[n].env \in Interrupts})].i

Refund == IF tool_calls > 0 THEN tool_calls - 1 ELSE 0

Resume == pc = "paused" /\ resumes < MaxResumes /\ resumes' = resumes + 1

\* APPROVE of a call, EDIT of a call or of a plan: the pending call alone runs again.
ResumeWithCall ==
    /\ Resume
    /\ sub[interrupt].env \in {"approval", "plan"}
    /\ Execute(<<[tool |-> calls[Pending].tool, approved |-> TRUE]>>)
    /\ UNCHANGED <<mode, turns, tool_calls, refunded, aborted, work>>

\* APPROVE of a plan: back to the model, the call that asked is given back.
ResumePlan ==
    /\ Resume
    /\ sub[interrupt].env = "plan"
    /\ pc' = "llm" /\ tool_calls' = Refund
    /\ UNCHANGED <<mode, turns, turn, refunded, aborted, work>>

_apply_corrective_rejection ==
    /\ Resume
    /\ Corrective /\ sub[interrupt].env = "approval"
    /\ pc' = "llm" /\ tool_calls' = Refund
    /\ UNCHANGED <<mode, turns, turn, refunded, aborted, work>>

\* CLARIFY.
ResumeClarify ==
    /\ Resume
    /\ pc' = "llm"
    /\ UNCHANGED <<mode, turns, turn, tool_calls, refunded, aborted, work>>

\* A bare REJECT, or CANCEL.
ResumeEnds ==
    /\ Resume
    /\ pc' = "end"
    /\ UNCHANGED <<mode, turns, turn, tool_calls, refunded, aborted, work>>

CallStep(i) == Enter(i) \/ _apply_tool_gate(i) \/ on_input(i) \/ StartHandler(i)
               \/ _allowed_precheck_blocked(i) \/ execute_allowed_path(i)

TurnStep == (\E i \in 1 .. MaxCalls : CallStep(i)) \/ UnitEnds \/ _store_tool_stage_outputs

Next ==
    \/ llm_call \/ finalize \/ Abort \/ TurnStep
    \/ ResumeWithCall \/ ResumePlan \/ _apply_corrective_rejection
    \/ ResumeClarify \/ ResumeEnds

Spec == Init /\ [][Next]_vars
\* Every gate, guardrail and handler answers in the end.
FairSpec == Spec /\ WF_vars(TurnStep)

-----------------------------------------------------------------------------
Stages == {"idle", "gate", "input", "args", "running", "done"}

\* The state has its shape, and a call has an outcome only when it is done.
TypeOK ==
    /\ mode \in Modes
    /\ pc \in {"llm", "units", "store", "paused", "end"}
    /\ turns \in 0 .. MaxTurns /\ resumes \in 0 .. MaxResumes
    /\ calls \in Seq(Calls)
    /\ at \in 1 .. Len(calls) + 1
    /\ stage \in [1 .. Len(calls) -> Stages]
    /\ sub \in [1 .. Len(calls) -> [env : {"none", "denied", "completed"} \cup Interrupts, stop : BOOLEAN]]
    /\ \A i \in 1 .. Len(calls) : stage[i] # "done" => sub[i] = NotRun
    /\ interrupt \in 0 .. Len(calls)
    /\ {tool_calls, refunded, work} \subseteq Nat
    /\ aborted \in BOOLEAN
    /\ ran \subseteq 1 .. Len(calls) /\ refused \subseteq 1 .. Len(calls)

\* Whatever the batches, the waits and the operator's answers, the run starts no more
\* executable handlers than max_tool_calls (_apply_tool_call_step_limit, the approved
\* call that bypasses it, and the refunds of resume.py together).
RunBudget == work <= max_tool_calls

\* In one turn no more handlers start than tool_policy.max_tool_calls, although the
\* calls of a batch are evaluated before any of them has a trace (_resolve_call_policy).
TurnBudget == mode = "allow_tools" => Cardinality(ran) <= policy_calls

\* A handler starts only when policy, gate and hooks all let the call pass
\* (_resolve_call_policy, tighten_decision).
RunsOnlyAllowed == ran \cap refused = {}

\* No handler starts once the run is aborted, also when the abort comes while a gate
\* or a guardrail is awaited (_allowed_precheck_blocked).
NothingStartsAfterAbort == [][ran' \subseteq ran \/ ~aborted]_vars

\* The call an approval runs is the call the operator was shown: the interrupt and the
\* pending call name the same call, whatever the batch (_execute_parallel_batch,
\* pending_interrupt_from_execution_result).
ShownIsWhatRuns == pc = "paused" => interrupt = Pending

\* After an interrupt no call of a later unit starts (_execute_units_stage).
NothingPastAnInterrupt ==
    \A i \in ran : interrupt # 0 /\ interrupt < i => SameUnit(interrupt, i)

\* A turn of tool calls ends: no call waits for a slot for ever.
TurnEnds == pc = "units" ~> pc # "units"

-----------------------------------------------------------------------------
(***************************************************************************)
(* What the source says of itself and the code does not do.                *)
(***************************************************************************)
\* "Returns True when any call recorded a stop signal (interrupt or policy STOP);
\* callers should not run subsequent units" (_execute_parallel_batch).
StopSignalStops ==
    \A i \in ran, j \in 1 .. Len(calls) : j < i /\ sub[j].stop => SameUnit(j, i)

\* A call the operator approved is not asked about again (_resolve_call_policy).
AskedOnce ==
    \A i \in 1 .. Len(calls) : calls[i].approved => sub[i].env # "approval"

\* A call that the executor is through with has its trace (_resolve_call_policy).
OneTracePerCall ==
    \A i \in 1 .. at - 1 : \E n \in 1 .. Len(result) : result[n].i = i

\* The gate is told at least the calls of the earlier turns (ToolGateContext).
GateSeesTheRun ==
    \A i \in 1 .. Len(calls) : pc = "units" /\ stage[i] = "gate" => CallCount(i) >= tool_calls
=============================================================================
