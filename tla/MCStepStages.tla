---------------------------- MODULE MCStepStages ----------------------------
(***************************************************************************)
(* Small configurations of the stages of StepStages: two runs of an agent  *)
(* that compacts, an executor with batches and one with a single slot, a   *)
(* planning gate with batches and one with plans that are sent back, and   *)
(* four runs that end.                                                     *)
(***************************************************************************)
EXTENDS StepStages

CONSTANTS a, b, p, q

\* Batches of two beside a serial call; and one slot, with the tools that are never run by a
\* handler.
MCExecutors ==
    {[tools |-> {"read", "write", "exit"}, calls |-> 3, turns |-> 2, resumes |-> 2, slots |-> 2,
      budget |-> 3, policy |-> 2, modes |-> {"allow_tools", "ask"},
      hooks |-> {"allow", "interrupt", "deny"}, prompts |-> TRUE, corrective |-> TRUE],
     [tools |-> {"read", "todo", "ask", "unknown"}, calls |-> 2, turns |-> 2, resumes |-> 1,
      slots |-> 1, budget |-> 2, policy |-> 2, modes |-> {"allow_tools", "no_tools"},
      hooks |-> {"allow"}, prompts |-> FALSE, corrective |-> FALSE]}

AllTools == {"continue_without_plan", "exit_plan_mode_v2", "gated", "plain"}

\* Batches of gated calls over two runs; and plans that are sent back.
MCPlanningGates ==
    {[args |-> {a, b}, batched |-> {b}, plans |-> {p}, allowed |-> AllTools, reuses |-> FALSE,
      calls |-> 3, turns |-> 2, resumes |-> 1, runs |-> 2],
     [args |-> {a}, batched |-> {}, plans |-> {p, q}, allowed |-> AllTools, reuses |-> FALSE,
      calls |-> 1, turns |-> 5, resumes |-> 3, runs |-> 1]}

Switches(session, llm, partial, pipeline, rolling) ==
    [enabled |-> TRUE, session |-> session, llm |-> llm, partial |-> partial,
     pipeline |-> pipeline, rolling |-> rolling]

\* An agent whose configuration rolls its summaries, has no model to summarise with, has no
\* path at all, or condenses first.
MCConfigs ==
    {Switches(TRUE, TRUE, TRUE, FALSE, TRUE), Switches(TRUE, FALSE, TRUE, FALSE, FALSE),
     Switches(TRUE, FALSE, FALSE, FALSE, FALSE), Switches(TRUE, TRUE, FALSE, TRUE, FALSE),
     Switches(FALSE, FALSE, FALSE, TRUE, FALSE)}

Hook(priority, limit, disable, closed) ==
    [priority |-> priority, limit |-> limit, disable |-> disable, closed |-> closed]

Once(twice) == [g \in {"empty", "refusal", "empty_calls", "open_todos", "verify", "recovery", "quality",
                       "plan_refinement", "plan_mode", "repair", "nudge", "tool_use", "rubric"}
                |-> IF g \in twice THEN 2 ELSE 1]

\* A run that ends with no gate of its own.
Plainly ==
    [texts |-> {"short"}, hooks |-> <<>>, gates |-> Once({}), calls |-> 2, steps |-> 4, grace |-> TRUE,
     contract |-> [use |-> FALSE, tools |-> FALSE, early |-> FALSE], research |-> FALSE,
     evidence |-> FALSE, plans |-> {"off"}, effects |-> {"other"}, judges |-> FALSE, crashes |-> 0]

\* Two finalize hooks and a process that dies; a node and a research contract; plans,
\* required evidence and judges; and the retries of a tool stage without a grace.
MCEndings ==
    {[Plainly EXCEPT !.texts = {"short", "long"}, !.gates = Once({"rubric"}), !.crashes = 1,
                     !.hooks = <<Hook(0, 1, TRUE, TRUE), Hook(1, 2, FALSE, FALSE)>>],
     [Plainly EXCEPT !.texts = {"short", "unfinished"}, !.hooks = <<Hook(0, 1, FALSE, FALSE)>>,
                     !.contract = [use |-> TRUE, tools |-> TRUE, early |-> TRUE], !.research = TRUE,
                     !.effects = {"works", "other"}],
     [Plainly EXCEPT !.hooks = <<Hook(0, 1, TRUE, TRUE)>>, !.steps = 5, !.evidence = TRUE,
                     !.plans = {"off", "mode", "refine"}, !.judges = TRUE,
                     !.effects = {"works", "enters_plan", "leaves_plan"}],
     [Plainly EXCEPT !.texts = {"short", "empty", "refusal"}, !.steps = 5, !.grace = FALSE,
                     !.effects = {"other", "opens_todos", "closes_todos"}]}
=============================================================================
