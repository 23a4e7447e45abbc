----------------------------- MODULE StepStages -----------------------------
(***************************************************************************)
(* The stages around a model call: compaction before it ("compaction"),    *)
(* after it the governed tool executor ("executor") and the planning gate  *)
(* ("gate"), and last the gates before the end of a run ("ending").  The   *)
(* last three come in configurations, which are constants.  They share no  *)
(* variable here; a behaviour is one of a single stage in a single         *)
(* configuration.                                                          *)
(***************************************************************************)
EXTENDS Naturals

CONSTANTS
    None,
    Runs, failure_limit, cooldown_attempts, every_n, Configs, Archives, MaxGroups, \* Compaction
    Executors,      \* configurations of ToolExecutor
    PlanningGates,  \* of PlanningGate
    Endings         \* of Finalization

VARIABLES
    part,                                             \* the stage that moves, configured
    mode, pc, turns, resumes, calls, at, stage, sub, result, interrupt,
    tool_calls, refunded, aborted, ran, refused, work,                  \* ToolExecutor
    policy, hostForce, shared, refinement, ledger, stepTask, phase,
    todo, batch, envelopes, plan, gateTurns, gateResumes, runs, log,    \* PlanningGate
    config, orchestrator, attempt, transcript, served,                  \* Compaction
    step, meta, tools, events, saved, judged, told, leaked, outcome, crashes  \* Finalization

Compact == INSTANCE Compaction

Executor(c) == INSTANCE ToolExecutor WITH
    Tools <- c.tools, MaxCalls <- c.calls, MaxTurns <- c.turns, MaxResumes <- c.resumes,
    concurrency_limit <- c.slots, max_tool_calls <- c.budget, policy_calls <- c.policy,
    Modes <- c.modes, HookAnswers <- c.hooks, Prompts <- c.prompts, Corrective <- c.corrective

Gate(c) == INSTANCE PlanningGate WITH
    Args <- c.args, BatchedArgs <- c.batched, Plans <- c.plans, HostAllowed <- c.allowed,
    HostReusesPolicy <- c.reuses, MaxCalls <- c.calls, MaxTurns <- c.turns,
    MaxResumes <- c.resumes, MaxRuns <- c.runs,
    result <- envelopes, interrupt <- plan, turns <- gateTurns, resumes <- gateResumes

Ending(c) == INSTANCE Finalization WITH
    Texts <- c.texts, Hooks <- c.hooks, Budget <- c.gates, max_tool_calls <- c.calls,
    max_steps <- c.steps, budget_grace_enabled <- c.grace, Contract <- c.contract,
    Research <- c.research, Evidence <- c.evidence, Plans <- c.plans, Effects <- c.effects,
    quality_gate <- c.judges, MaxCrashes <- c.crashes, at <- step

ASSUME CompactionAssumption == Compact!CompactionAssumption

ASSUME ExecutorsAssumption == \A c \in Executors : Executor(c)!ExecutorAssumption

ASSUME GatesAssumption == \A c \in PlanningGates : Gate(c)!PlanningGateAssumption

ASSUME EndingsAssumption == \A c \in Endings : Ending(c)!FinalizationAssumption

executorVars == <<mode, pc, turns, resumes, calls, at, stage, sub, result, interrupt,
                  tool_calls, refunded, aborted, ran, refused, work>>
gateVars == <<policy, hostForce, shared, refinement, ledger, stepTask, phase,
              todo, batch, envelopes, plan, gateTurns, gateResumes, runs, log>>
compactionVars == <<config, orchestrator, attempt, transcript, served>>
endingVars == <<step, meta, tools, events, saved, judged, told, leaked, outcome, crashes>>
allVars == <<part, executorVars, gateVars, compactionVars, endingVars>>

\* A stage that does not move is in a configuration and an initial state that say nothing.
Configured(stageName, configurations) ==
    IF part[1] = stageName THEN part[2] ELSE CHOOSE c \in configurations : TRUE

Init ==
    /\ part \in ({"compaction"} \X {None}) \cup ({"executor"} \X Executors)
                \cup ({"gate"} \X PlanningGates) \cup ({"ending"} \X Endings)
    /\ Compact!Init /\ (part[1] # "compaction" => config = CHOOSE g \in Configs : TRUE)
    /\ \E c \in Executors :
          /\ c = Configured("executor", Executors) /\ Executor(c)!Init
          /\ part[1] # "executor" => mode = CHOOSE m \in c.modes : TRUE
    /\ \E c \in PlanningGates : c = Configured("gate", PlanningGates) /\ Gate(c)!Init
    /\ part[1] # "gate" => stepTask
    /\ \E c \in Endings :
          /\ c = Configured("ending", Endings) /\ Ending(c)!Init
          /\ part[1] # "ending" => meta.plan = CHOOSE p \in c.plans : TRUE

Next ==
    \/ /\ part[1] = "compaction" /\ Compact!Next
       /\ UNCHANGED <<part, executorVars, gateVars, endingVars>>
    \/ \E c \in Executors :
          /\ part = <<"executor", c>> /\ Executor(c)!Next
          /\ UNCHANGED <<part, gateVars, compactionVars, endingVars>>
    \/ \E c \in PlanningGates :
          /\ part = <<"gate", c>> /\ Gate(c)!Next
          /\ UNCHANGED <<part, executorVars, compactionVars, endingVars>>
    \/ \E c \in Endings :
          /\ part = <<"ending", c>> /\ Ending(c)!Next
          /\ UNCHANGED <<part, executorVars, gateVars, compactionVars>>

TurnGoesOn == \E c \in Executors : part = <<"executor", c>> /\ Executor(c)!TurnStep
RunGoesOn == \E c \in Endings : part = <<"ending", c>> /\ Ending(c)!Step
AttemptGoesOn ==
    part[1] = "compaction" /\ \E r \in Runs : Compact!Step(r) \/ Compact!Raises(r)

\* Gates, handlers and summaries return or raise, the runs of an agent go on asking for
\* compaction under pressure, and the step loop goes on while its process lives.
Spec ==
    /\ Init /\ [][Next]_allVars
    /\ WF_executorVars(TurnGoesOn)
    /\ WF_compactionVars(AttemptGoesOn)
    /\ WF_compactionVars(part[1] = "compaction" /\ Compact!PressedCheck)
    /\ WF_endingVars(RunGoesOn)

-----------------------------------------------------------------------------
\* A run with corrective rejections has no housekeeping tool: such a call that is rejected
\* is given back twice, once as a housekeeping call and once as one that never ran.
RefundsOnce(c) == c.corrective => c.tools \cap Executor(c)!Housekeeping = {}

\* No more handlers start than the budgets allow: max_tool_calls in a run, through batches,
\* approvals and refunds, and tool_policy.max_tool_calls in a turn; and a run makes no more
\* model calls than max_steps and its grace, whatever the gates ask for and whoever resumes.
BudgetsHold ==
    /\ \A c \in Executors : part = <<"executor", c>> =>
          Executor(c)!TurnBudget /\ (RefundsOnce(c) => Executor(c)!RunBudget)
    /\ \A c \in Endings : part = <<"ending", c>> => Ending(c)!CallsAreBounded

\* A handler starts only when policy, gate and hooks all let the call pass; the call an
\* approval runs is the one the operator was shown, whatever the batch; and after an
\* interrupt no call of a later unit starts.
RunsOnlyAllowed ==
    \A c \in Executors : part = <<"executor", c>> =>
        /\ Executor(c)!RunsOnlyAllowed /\ Executor(c)!ShownIsWhatRuns
        /\ Executor(c)!NothingPastAnInterrupt

\* No handler starts once the run is aborted, also while a gate or guardrail is awaited.
NothingStartsAfterAbort == [][ran' \subseteq ran \/ ~aborted]_executorVars

Busy == (part[1] = "executor" /\ pc = "units") \/ (part[1] = "ending" /\ step # "done")

\* A turn of tool calls ends: no call waits for a slot for ever; and a run that is driven
\* ends, although a dozen gates may each send it back to the model.
TurnEnds == Busy ~> ~Busy

\* A run completes with the answer its finalize hooks judged last; if the hook that was
\* heard objected, it is one that gives in, after its revisions; no run completes inside a
\* plan; and while the process lives the observers are told once, and no tool runs in a
\* revision that excludes them.
EndsAsJudged ==
    \A c \in Endings : part = <<"ending", c>> => Ending(c)!EndsAsJudged /\ Ending(c)!ToldOnce

\* The host allows the declaration and gives each run its own policy, and a turn proposes
\* one plan at most: otherwise a denied declaration counts, as does one of an earlier run,
\* and a repeated plan lets another one of its turn pass unseen.
PlansOneByOne(c) ==
    /\ Gate(c)!Declare \in c.allowed /\ ~c.reuses
    /\ c.calls = 1 \/ \A p, q \in c.plans : p = q

\* A strategy grant lets one call through, one that was denied before; a gated call runs
\* only after a declaration that ran or a plan that was approved; and from the request to
\* revise a plan until an approval nothing but planning tools runs, and the plan shown next
\* is not the one that was sent back.
GatedNeedsAWord ==
    \A c \in PlanningGates : part = <<"gate", c>> =>
        /\ Gate(c)!OneGrantPerRun
        /\ PlansOneByOne(c) => /\ Gate(c)!GatedNeedsAWord
                               /\ Gate(c)!LockedUntilApproved /\ Gate(c)!RevisionDiffers

\* One run of an agent compacts at a time, and none before the checks of the cooldown after
\* a failure; and unless the retention pass takes messages out, a rolling summary has
\* absorbed all that the next one will skip, whatever failed, was deferred or superseded.
CompactionIsSound == Compact!BreakerHolds /\ (~Archives => Compact!FoldsEverything)

\* An open breaker lets an attempt through, unless one ended in an exception.
OpenIsProbed == Compact!OpenIsProbed
=============================================================================
