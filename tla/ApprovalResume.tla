--------------------------- MODULE ApprovalResume ---------------------------
(***************************************************************************)
(* Parking a run on an interrupt and resuming it: the approval ledger of   *)
(* runtime/control/approval_store.py under the resume path of              *)
(* runtime/single_agent/lifecycle/resume.py and runtime/runner.py.         *)
(*                                                                         *)
(* A run parks on a tool call that needs a decision, on a plan, on a       *)
(* question or on a PAUSE control, and its process returns.  Any host      *)
(* process may then send a ResumeCommand: it loads a checkpoint, consumes  *)
(* the approval in the ledger and drives the run on.  Processes crash      *)
(* between any two steps.  The model follows one run.  A resume that is    *)
(* answered with an error or with a replayed result changes nothing and is *)
(* a stuttering step.                                                      *)
(***************************************************************************)
EXTENDS Naturals

CONSTANTS
    Clients,         \* processes that drive the run, one resume at a time
    Keys,            \* idempotency keys of resume commands
    NoKey,           \* idempotency_key is None
    Nobody,          \* no process
    UseStore,        \* RunnerConfig.approval_store is set
    Replay,          \* RunnerConfig.replay_prior_result
    Decisions,       \* bound: the resume actions that hosts send
    MaxCheckpoints,  \* bound: checkpoints ever saved
    MaxPauses        \* bound: PAUSE controls ever queued

ASSUME NullsAssumption == NoKey \notin Keys /\ Nobody \notin Clients
ASSUME FlagsAssumption == UseStore \in BOOLEAN /\ Replay \in BOOLEAN
ASSUME DecisionsAssumption ==
    Decisions \subseteq {"approve", "edit", "reject", "cancel", "clarify", "continue"}
ASSUME BoundsAssumption == MaxCheckpoints \in Nat \ {0} /\ MaxPauses \in Nat

VARIABLES
    checkpoints,   \* the run's checkpoints, oldest first
    saved,         \* how many there are
    ledger,        \* the approval_consumptions row of every interrupt id
    workers,       \* what every process is doing
    calls,         \* tool calls the provider has issued an id for
    pause_queued,  \* a PAUSE control waits for the next boundary
    pauses,        \* PAUSE controls queued so far
    tool_runs,     \* history: how often the call behind each interrupt has run
    awaiting       \* history: the run is parked and no resume was accepted since

vars == <<checkpoints, saved, ledger, workers, calls, pause_queued, pauses,
          tool_runs, awaiting>>

\* "tool": an approval; "question": ask_user_question and wait_for_event.
InterruptReason == {"tool", "plan", "question", "pause"}
ResumeAction == {"approve", "edit", "reject", "cancel", "clarify", "continue"}

\* int_{run}_{tool_call_id} and steering_pause_{run}_{step_count}: neither number can
\* exceed the number of checkpoints.
NoInterrupt == <<"none", 0>>
InterruptId == {"int", "steering_pause"} \X (0..MaxCheckpoints)
CheckpointId == {"chk"} \X (1..MaxCheckpoints)

\* A command may name its interrupt or the checkpoint that holds it.
ResumeCommand ==
    [token : InterruptId \cup CheckpointId \cup {NoInterrupt},
     action : ResumeAction, key : Keys \cup {NoKey}]

Checkpoint ==
    [pending : InterruptId \cup {NoInterrupt}, reason : InterruptReason,
     step_count : 0..MaxCheckpoints, consumed : SUBSET InterruptId]

\* decision "none": there is no row.  consumed_by is history.
LedgerRow ==
    [decision : ResumeAction \cup {"none"}, key : Keys \cup {NoKey},
     result : Clients \cup {Nobody}, consumed_by : Clients \cup {Nobody}]

Worker ==
    [pc : {"idle", "loaded", "driving", "tool_done", "finishing"},
     resume : ResumeCommand, row : 0..MaxCheckpoints, step_count : 0..MaxCheckpoints,
     consumed : SUBSET InterruptId, approved : InterruptId \cup {NoInterrupt},
     next_step : {"llm_call", "park", "tool_stage", "finalize"}]

NoRow == [decision |-> "none", key |-> NoKey, result |-> Nobody, consumed_by |-> Nobody]
Idle == [pc |-> "idle",
         resume |-> [token |-> NoInterrupt, action |-> "continue", key |-> NoKey],
         row |-> 0, step_count |-> 0, consumed |-> {}, approved |-> NoInterrupt,
         next_step |-> "llm_call"]

\* The first process has started the run and is about to call the model.
Init ==
    /\ checkpoints = [k \in 1..1 |-> [pending |-> NoInterrupt, reason |-> "tool",
                                      step_count |-> 1, consumed |-> {}]]
    /\ saved = 1
    /\ ledger = [i \in InterruptId |-> NoRow]
    /\ \E c \in Clients :
          workers = [d \in Clients |-> IF d = c
                                       THEN [Idle EXCEPT !.pc = "driving", !.step_count = 1]
                                       ELSE Idle]
    /\ calls = 0
    /\ pause_queued = FALSE
    /\ pauses = 0
    /\ tool_runs = [i \in InterruptId |-> 0]
    /\ awaiting = FALSE

Become(c, w) == workers' = [workers EXCEPT ![c] = w]

\* _save_checkpoint: one more checkpoint, as long as the bound allows it.
SaveCheckpoint(pending, reason, step_count, consumed) ==
    /\ saved < MaxCheckpoints
    /\ saved' = saved + 1
    /\ checkpoints' = [k \in 1..(saved + 1) |->
                          IF k = saved + 1
                          THEN [pending |-> pending, reason |-> reason,
                                step_count |-> step_count, consumed |-> consumed]
                          ELSE checkpoints[k]]

(***************************************************************************)
(* The ledger.                                                             *)
(***************************************************************************)
Consumed(i) == ledger[i].decision # "none"

\* The row try_consume collides with: the interrupt's own, or one with the same key.
FindExisting(i, key) ==
    \/ Consumed(i)
    \/ key # NoKey /\ \E j \in InterruptId : Consumed(j) /\ ledger[j].key = key

\* Mutant: the row is written with the result, once the tool has run.
TryConsumeLate(i, action, key, c) == ledger' = ledger

try_consume(i, action, key, c) ==
    ledger' = IF UseStore
              THEN [ledger EXCEPT ![i] = [decision |-> action, key |-> key,
                                          result |-> Nobody, consumed_by |-> c]]
              ELSE ledger

\* An unknown interrupt id, a checkpoint id among them, updates no row.
record_result(token, c) ==
    ledger' = IF UseStore /\ token \in InterruptId /\ Consumed(token)
              THEN [ledger EXCEPT ![token].result = c]
              ELSE ledger

(***************************************************************************)
(* Resuming.  Loading the checkpoint and consuming the approval are two    *)
(* steps: another process may come between them.                           *)
(***************************************************************************)
AllowedActions(reason) ==
    CASE reason = "pause"    -> {"continue", "cancel"}
      [] reason = "question" -> {"clarify", "cancel"}
      [] OTHER               -> {"approve", "reject", "edit", "clarify", "cancel"}

\* A duplicate is answered with the recorded result and drives nothing.
ReplaysPriorResult(token) ==
    /\ UseStore /\ Replay
    /\ token \in InterruptId
    /\ ledger[token].result # Nobody

\* The checkpoint a token stands for: the one of that id, else the latest one
\* if it is pending on that interrupt.
ResolvesTo(token, k) ==
    \/ token = <<"chk", k>>
    \/ k = saved /\ token = checkpoints[k].pending

\* expected = 0: the command carries no expected_checkpoint_id or expected_revision.
Resume(c, k, cmd, expected) ==
    /\ workers[c].pc = "idle"
    /\ ~ReplaysPriorResult(cmd.token)
    /\ ResolvesTo(cmd.token, k)
    /\ checkpoints[k].pending # NoInterrupt
    /\ expected \in {0, k}
    /\ cmd.action \in AllowedActions(checkpoints[k].reason)
    /\ Become(c, [Idle EXCEPT !.pc = "loaded", !.resume = cmd, !.row = k,
                              !.step_count = checkpoints[k].step_count,
                              !.consumed = checkpoints[k].consumed])
    /\ UNCHANGED <<checkpoints, saved, ledger, calls, pause_queued, pauses,
                   tool_runs, awaiting>>

\* What a decision makes of the run: it ends, the model is asked again, or the
\* approved call runs.  A rejection with feedback may continue; an approved plan
\* may be handed to an external executor.
ResumeOutcome(reason, action) ==
    CASE action = "cancel" -> {"terminal"}
      [] action = "reject" -> IF reason = "plan" THEN {"terminal"} ELSE {"terminal", "llm_call"}
      [] action \in {"continue", "clarify"} -> {"llm_call"}
      [] action = "approve" /\ reason = "plan" -> {"llm_call", "terminal"}
      [] action = "edit" /\ reason = "plan"    -> {"tool_stage", "terminal"}
      [] OTHER -> {"tool_stage"}

ConsumeApproval(c, outcome) ==
    LET w == workers[c]
        i == checkpoints[w.row].pending
        consumed == w.consumed \cup {i}
    IN
    /\ w.pc = "loaded"
    /\ UseStore => ~FindExisting(i, w.resume.key)
    /\ try_consume(i, w.resume.action, w.resume.key, c)
    /\ outcome \in ResumeOutcome(checkpoints[w.row].reason, w.resume.action)
    /\ IF outcome = "terminal"
       THEN /\ SaveCheckpoint(NoInterrupt, "tool", w.step_count, consumed)
            /\ Become(c, [w EXCEPT !.pc = "finishing", !.consumed = consumed])
       ELSE /\ Become(c, [w EXCEPT !.pc = "driving", !.consumed = consumed,
                                   !.next_step = outcome,
                                   !.approved = IF outcome = "tool_stage" THEN i ELSE NoInterrupt])
            /\ UNCHANGED <<checkpoints, saved>>
    /\ awaiting' = (awaiting /\ w.row # saved)
    /\ UNCHANGED <<calls, pause_queued, pauses, tool_runs>>

\* Mutant: the loser of the ledger goes on to report a result.
RefuseWithResult(c) ==
    LET w == workers[c] IN
    /\ w.pc = "loaded"
    /\ UseStore
    /\ FindExisting(checkpoints[w.row].pending, w.resume.key)
    /\ Become(c, [w EXCEPT !.pc = "finishing"])
    /\ UNCHANGED <<checkpoints, saved, ledger, calls, pause_queued, pauses,
                   tool_runs, awaiting>>

\* ResumeConflictError: the approval was consumed before.
RefuseResume(c) ==
    LET w == workers[c] IN
    /\ w.pc = "loaded"
    /\ UseStore
    /\ FindExisting(checkpoints[w.row].pending, w.resume.key)
    /\ Become(c, Idle)
    /\ UNCHANGED <<checkpoints, saved, ledger, calls, pause_queued, pauses,
                   tool_runs, awaiting>>

(***************************************************************************)
(* Driving the run, step by step.                                          *)
(***************************************************************************)
At(c, step) == workers[c].pc = "driving" /\ workers[c].next_step = step

\* A step that ends in a checkpoint and goes on to another.
Step(c, next) ==
    LET w == workers[c] IN
    /\ SaveCheckpoint(NoInterrupt, "tool", w.step_count + 1, w.consumed)
    /\ Become(c, [w EXCEPT !.pc = "driving", !.next_step = next, !.approved = NoInterrupt,
                           !.step_count = w.step_count + 1])
    /\ UNCHANGED <<ledger, calls, pause_queued, pauses, tool_runs, awaiting>>

LlmCall(c) ==
    /\ At(c, "llm_call")
    /\ ~pause_queued
    /\ Step(c, "tool_stage")

\* The boundary before the model call drains the PAUSE and saves what it applied.
DrainPause(c) ==
    LET w == workers[c] IN
    /\ At(c, "llm_call")
    /\ pause_queued
    /\ pause_queued' = FALSE
    /\ SaveCheckpoint(NoInterrupt, "tool", w.step_count, w.consumed)
    /\ Become(c, [w EXCEPT !.next_step = "park"])
    /\ UNCHANGED <<ledger, calls, pauses, tool_runs, awaiting>>

\* The run returns PAUSED: its process is done and records no result.
Park(c, i, reason, step_count) ==
    /\ SaveCheckpoint(i, reason, step_count, workers[c].consumed)
    /\ Become(c, Idle)
    /\ awaiting' = TRUE
    /\ UNCHANGED <<ledger, pause_queued, pauses>>

_park_steering_pause(c) ==
    /\ At(c, "park")
    /\ Park(c, <<"steering_pause", workers[c].step_count>>, "pause", workers[c].step_count)
    /\ UNCHANGED <<calls, tool_runs>>

\* A planned call needs a decision; the provider gave it an id of its own.
ParkToolCall(c, reason) ==
    /\ At(c, "tool_stage")
    /\ workers[c].approved = NoInterrupt
    /\ reason \in {"tool", "plan", "question"}
    /\ calls' = calls + 1
    /\ Park(c, <<"int", calls + 1>>, reason, workers[c].step_count + 1)
    /\ UNCHANGED tool_runs

\* The planned calls, or none, ran without asking.
ToolStage(c, next) ==
    /\ At(c, "tool_stage")
    /\ workers[c].approved = NoInterrupt
    /\ Step(c, next)

\* The approved call runs.  Its result is not saved yet.
RunApprovedCall(c) ==
    LET w == workers[c] IN
    /\ At(c, "tool_stage")
    /\ w.approved # NoInterrupt
    /\ tool_runs' = [tool_runs EXCEPT ![w.approved] = @ + 1]
    /\ Become(c, [w EXCEPT !.pc = "tool_done"])
    /\ UNCHANGED <<checkpoints, saved, ledger, calls, pause_queued, pauses, awaiting>>

SaveApprovedResult(c, next) ==
    /\ workers[c].pc = "tool_done"
    /\ Step(c, next)

\* ask_user_question and wait_for_event end in an interrupt even when the call was
\* approved, and its id is that of the call: the same again.
ParkApprovedQuestion(c) ==
    LET w == workers[c] IN
    /\ workers[c].pc = "tool_done"
    /\ Park(c, w.approved, "question", w.step_count + 1)
    /\ UNCHANGED <<calls, tool_runs>>

\* A quality gate, a contract or a rubric may send the run back to the model.
FinalizeAgain(c) == At(c, "finalize") /\ Step(c, "llm_call")

Finalize(c) ==
    LET w == workers[c] IN
    /\ At(c, "finalize")
    /\ SaveCheckpoint(NoInterrupt, "tool", w.step_count + 1, w.consumed)
    /\ Become(c, [w EXCEPT !.pc = "finishing"])
    /\ UNCHANGED <<ledger, calls, pause_queued, pauses, tool_runs, awaiting>>

\* A limit, a timeout or an abort ends the run without a checkpoint.
EndWithoutCheckpoint(c) ==
    /\ workers[c].pc \in {"driving", "tool_done"}
    /\ Become(c, [workers[c] EXCEPT !.pc = "finishing"])
    /\ UNCHANGED <<checkpoints, saved, ledger, calls, pause_queued, pauses,
                   tool_runs, awaiting>>

RecordResult(c) ==
    /\ workers[c].pc = "finishing"
    /\ record_result(workers[c].resume.token, c)
    /\ Become(c, Idle)
    /\ UNCHANGED <<checkpoints, saved, calls, pause_queued, pauses, tool_runs, awaiting>>

Crash(c) ==
    /\ workers[c].pc # "idle"
    /\ Become(c, Idle)
    /\ UNCHANGED <<checkpoints, saved, ledger, calls, pause_queued, pauses,
                   tool_runs, awaiting>>

RequestPause ==
    /\ ~pause_queued /\ pauses < MaxPauses
    /\ pause_queued' = TRUE
    /\ pauses' = pauses + 1
    /\ UNCHANGED <<checkpoints, saved, ledger, workers, calls, tool_runs, awaiting>>

Drive(c) ==
    \/ LlmCall(c)
    \/ DrainPause(c)
    \/ _park_steering_pause(c)
    \/ \E reason \in InterruptReason : ParkToolCall(c, reason)
    \/ \E next \in {"llm_call", "finalize"} : ToolStage(c, next) \/ SaveApprovedResult(c, next)
    \/ RunApprovedCall(c)
    \/ ParkApprovedQuestion(c)
    \/ FinalizeAgain(c)
    \/ Finalize(c)
    \/ EndWithoutCheckpoint(c)
    \/ RecordResult(c)

Next ==
    \/ RequestPause
    \/ \E c \in Clients :
          \/ \E k \in 1..saved, action \in Decisions, key \in Keys \cup {NoKey} :
             \E token \in {<<"chk", k>>, checkpoints[k].pending}, expected \in {0, saved} :
                Resume(c, k, [token |-> token, action |-> action, key |-> key], expected)
          \/ \E outcome \in {"terminal", "llm_call", "tool_stage"} : ConsumeApproval(c, outcome)
          \/ RefuseResume(c)
          \/ Drive(c)
          \/ Crash(c)

Spec == Init /\ [][Next]_vars

(***************************************************************************)
(* Properties.                                                             *)
(***************************************************************************)
\* Every variable has its type; step counts and call ids never outrun the checkpoints.
TypeOK ==
    /\ saved \in 1..MaxCheckpoints
    /\ checkpoints \in [1..saved -> Checkpoint]
    /\ ledger \in [InterruptId -> LedgerRow]
    /\ workers \in [Clients -> Worker]
    /\ calls \in 0..saved
    /\ pause_queued \in BOOLEAN
    /\ pauses \in 0..MaxPauses
    /\ tool_runs \in [InterruptId -> Nat]
    /\ awaiting \in BOOLEAN

Driving(c) == workers[c].pc \in {"driving", "tool_done"}

\* At most one process drives the run, however many resume it at once and wherever
\* they crash: the ledger lets one of them through.
OneDriver == \A c, d \in Clients : Driving(c) /\ Driving(d) => c = d

\* The call an operator approved runs at most once, although resumes are duplicated,
\* name the interrupt or its checkpoint, and outlive the process that ran it.
ToolRunsAtMostOnce == \A i \in InterruptId : tool_runs[i] <= 1

\* A call runs only under a decision to run it, and that decision is the one on record.
RunsOnlyWhatWasApproved ==
    \A i \in InterruptId : tool_runs[i] > 0 => ledger[i].decision \in {"approve", "edit"}

\* An approval is acted on exactly: by one process at a time, at most once, as decided.
ApprovalIsExact == OneDriver /\ ToolRunsAtMostOnce /\ RunsOnlyWhatWasApproved

\* The result on record for an approval comes from the process that consumed it.
ResultComesFromTheWinner ==
    \A i \in InterruptId : ledger[i].result \in {Nobody, ledger[i].consumed_by}

\* A consumed approval stays consumed, by the same process and with the same decision.
ConsumptionIsFinal ==
    [][\A i \in InterruptId : Consumed(i) =>
          [ledger'[i] EXCEPT !.result = Nobody] = [ledger[i] EXCEPT !.result = Nobody]]_vars

\* _park_steering_pause parks the run "as PAUSED (resumable)": while nobody has resumed
\* a pause, a resume of it is not refused as a duplicate.
PauseIsResumable ==
    awaiting /\ checkpoints[saved].reason = "pause" => ~Consumed(checkpoints[saved].pending)

\* The guard in the checkpoint metadata "recognises a duplicate" once the checkpoint that
\* records the first approval is the latest: no resume of that interrupt loads any more.
DuplicateIsRecognised ==
    [][\A c \in Clients : workers[c].pc = "idle" /\ workers'[c].pc = "loaded" =>
          checkpoints[workers'[c].row].pending \notin checkpoints[saved].consumed]_vars
=============================================================================
