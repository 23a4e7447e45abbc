------------------------------- MODULE LiveRun -------------------------------
(***************************************************************************)
(* One run's turn over its command queue: the step loop of                 *)
(* runtime/runner.py, the boundary drain of runtime/control/dispatcher.py  *)
(* and the model call that a redirect interrupts                           *)
(* (runtime/single_agent/llm_step).  Hosts admit, enqueue and cancel       *)
(* controls at any moment through the actions of CommandQueue; after the   *)
(* terminal commit a dispatcher hands NEXT messages over to the host.      *)
(*                                                                         *)
(* Claiming a control, saving what it did and marking it applied are three *)
(* steps: a Stop, a cancellation or a crash may come between them.         *)
(***************************************************************************)
EXTENDS CommandQueue

CONSTANTS
    Run,           \* the run
    Workers,       \* attempts that drive it
    Dispatchers,   \* callers of dispatch_next_turn
    Streaming,     \* the provider's answer is streamed
    MaxLlmSteps    \* bound: model calls of a turn (max_steps and its grace window)

ASSUME WorkersAssumption ==
    Run \in Runs /\ Workers \subseteq Claimants /\ Dispatchers \subseteq Claimants
ASSUME TurnAssumption == Streaming \in BOOLEAN /\ MaxLlmSteps \in Nat

VARIABLES
    turns,   \* the RunContext of every worker
    saved,   \* the messages in the latest checkpoint's transcript
    handed   \* messages the host has put into a next turn

liveVars == <<items, count, runs, unrouted, turns, saved, handed>>

LoopHead == {"llm_call", "tool_stage", "finalize"}
\* "claimed" to "stopping": inside the boundary drain; "redirected" and
\* "redirect_saved": inside the model call; "raised" and "fenced": the worker is gone
\* and has committed nothing.
Pc == LoopHead \cup
      {"new", "drain", "claimed", "persisted", "stopping", "drained", "await", "answered", "redirected",
       "redirect_saved", "tools", "finalizing", "paused", "parked", "ended", "raised",
       "fenced", "crashed"}

\* messages: the transcript; asked: what of it the request in flight carries;
\* answered: what of it the latest response answers; handle: an abort handle was given.
RunContext ==
    [pc : Pc, held : 0..MaxItems, messages : SUBSET (1..MaxItems),
     asked : SUBSET (1..MaxItems), answered : SUBSET (1..MaxItems), redirects : 0..3,
     generation : Nat, boundary_phase : LiveMessagePhase, pausing : BOOLEAN,
     handle : BOOLEAN, aborted : BOOLEAN, llm_steps : 0..MaxLlmSteps]

LiveInit ==
    /\ Init
    /\ \E handle \in BOOLEAN :
          turns = [w \in Workers |->
                      [pc |-> "new", held |-> 0, messages |-> {}, asked |-> {},
                       answered |-> {}, redirects |-> 0, generation |-> 0,
                       boundary_phase |-> "unknown", pausing |-> FALSE,
                       handle |-> handle, aborted |-> FALSE, llm_steps |-> 0]]
    /\ saved = {}
    /\ handed = {}

(***************************************************************************)
(* Helpers.                                                                *)
(***************************************************************************)
At(w, pc) == turns[w].pc = pc
Become(w, t) == turns' = [turns EXCEPT ![w] = t]
GoTo(w, pc) == Become(w, [turns[w] EXCEPT !.pc = pc])
Keep == UNCHANGED <<items, count, runs, unrouted>>

\* set_run_phase, which a terminal run ignores.
ReportPhase(phase) ==
    IF runs[Run].phase = "terminal" THEN Keep ELSE set_run_phase(Run, phase)

\* Mutant: the row is marked whatever has become of it.
MarkAnyway(w, phase) ==
    /\ Update(turns[w].held, Applied(items[turns[w].held], phase))
    /\ UNCHANGED runs

\* mark_applied answers None, and changes nothing, when the row was settled meanwhile.
Mark(w, phase) ==
    LET q == turns[w].held IN
    IF Queued(q) /\ items[q].claimed_by \in {Nobody, w} THEN mark_applied(q, w, phase) ELSE Keep

\* The run ends with a terminal output.
EndTurn(w, stopped) ==
    /\ commit_terminal(Run, stopped)
    /\ GoTo(w, "ended")
    /\ UNCHANGED <<saved, handed>>

(***************************************************************************)
(* The loop.                                                               *)
(***************************************************************************)
StartRun(w) ==
    /\ At(w, "new")
    /\ ReportPhase("llm_in_flight")
    /\ Become(w, [turns[w] EXCEPT !.pc = "llm_call", !.generation = runs[Run].llm_generation])
    /\ UNCHANGED <<saved, handed>>

\* Mutant: the run stops at a limit and its queue is not told.
EndSilently(w) ==
    /\ turns[w].pc \in LoopHead
    /\ Keep
    /\ GoTo(w, "ended")
    /\ UNCHANGED <<saved, handed>>

\* A cancelled run stops at the loop's head, and so may one that has reached a deadline,
\* a budget or its last step.
_terminal_from_limits(w) ==
    /\ turns[w].pc \in LoopHead
    /\ EndTurn(w, turns[w].aborted)

BeginDrain(w) ==
    /\ At(w, "llm_call") /\ ~turns[w].aborted
    /\ turns[w].llm_steps < MaxLlmSteps
    /\ Become(w, [turns[w] EXCEPT !.pc = "drain", !.boundary_phase = runs[Run].phase])
    /\ Keep /\ UNCHANGED <<saved, handed>>

(***************************************************************************)
(* The boundary drain.                                                     *)
(***************************************************************************)
ClaimControl(w, q) ==
    /\ At(w, "drain")
    /\ claim_for_boundary(Run, w, q)
    /\ Become(w, [turns[w] EXCEPT !.pc = "claimed", !.held = q])
    /\ UNCHANGED <<saved, handed>>

\* Whether the control can be applied here.  A configuration control may go either way.
Result(w, req) ==
    CASE req.kind \in {"enqueue_user_message", "steer_user_message"} ->
            {IF req.payload = "message" THEN "applied" ELSE "invalid"}
      [] req.kind = "redirect_user_message" ->
            {IF req.payload # "blank" THEN "applied" ELSE "invalid"}
      [] req.kind = "interrupt" -> {IF turns[w].handle THEN "applied" ELSE "unsupported"}
      [] req.kind = "config" -> {"applied", "invalid"}
      [] OTHER -> {"applied"}

\* The control takes effect on the context, and the context is saved.  A cancellation
\* cancels a NEXT message if it still can.
_apply_control_item(w) ==
    LET t == turns[w]
        q == t.held
        messages == IF IsMessage(items[q]) THEN t.messages \cup {q} ELSE t.messages
    IN
    /\ At(w, "claimed")
    /\ "applied" \in Result(w, items[q].request)
    /\ Become(w, [t EXCEPT !.pc = "persisted",
                           !.messages = messages,
                           !.pausing = @ \/ items[q].request.kind = "pause",
                           !.aborted = @ \/ items[q].request.kind = "interrupt"])
    /\ saved' = messages
    /\ \/ Keep
       \/ items[q].request.kind = "cancel_queued_message" /\ \E p \in QueueIds : cancel_next(p)
    /\ UNCHANGED handed

RejectControl(w) ==
    LET q == turns[w].held IN
    /\ At(w, "claimed")
    /\ Result(w, items[q].request) # {"applied"}
    /\ IF Queued(q) THEN mark_failed(q, "error") ELSE Keep
    /\ GoTo(w, "drain")
    /\ UNCHANGED <<saved, handed>>

MarkControl(w) ==
    /\ At(w, "persisted")
    /\ Mark(w, turns[w].boundary_phase)
    /\ GoTo(w, IF items[turns[w].held].request.kind = "interrupt" THEN "stopping" ELSE "drain")
    /\ UNCHANGED <<saved, handed>>

\* After an interrupt the run is closed and nothing more is drained.
StopFromBoundary(w) ==
    /\ At(w, "stopping")
    /\ stop_run(Run)
    /\ GoTo(w, "drained")
    /\ UNCHANGED <<saved, handed>>

DrainEnds(w) ==
    /\ At(w, "drain")
    /\ runs[Run].phase = "terminal" \/ BoundaryEligible(Run) = {}
    /\ GoTo(w, "drained")
    /\ Keep /\ UNCHANGED <<saved, handed>>

_park_steering_pause(w) ==
    /\ At(w, "drained") /\ turns[w].pausing
    /\ ReportPhase("approval_pause")
    /\ Become(w, [turns[w] EXCEPT !.pc = "paused", !.pausing = FALSE])
    /\ saved' = turns[w].messages
    /\ UNCHANGED handed

(***************************************************************************)
(* The model call.                                                         *)
(***************************************************************************)
BeginCall(w) ==
    LET t == turns[w] IN
    /\ At(w, "drained") /\ ~t.pausing
    /\ ReportPhase("llm_in_flight")
    /\ Become(w, [t EXCEPT !.pc = "await", !.asked = t.messages, !.redirects = 0,
                           !.generation = runs[Run].llm_generation])
    /\ UNCHANGED <<saved, handed>>

Current(w) == runs[Run].llm_generation = turns[w].generation
Cancelling(w) == turns[w].aborted \/ runs[Run].stopped

\* The provider has answered.  Only a streamed answer is checked against the run's
\* generation, when its last item has arrived.
CallReturns(w) ==
    /\ At(w, "await")
    /\ Streaming => Current(w)
    /\ Become(w, [turns[w] EXCEPT !.pc = "answered", !.answered = turns[w].asked])
    /\ Keep /\ UNCHANGED <<saved, handed>>

\* The answer is the step's response: the step is counted and saved.
SaveAnswer(w) ==
    /\ At(w, "answered")
    /\ Become(w, [turns[w] EXCEPT !.pc = "tool_stage", !.llm_steps = @ + 1])
    /\ saved' = turns[w].messages
    /\ Keep /\ UNCHANGED handed

CallAborted(w) ==
    /\ At(w, "await") /\ Cancelling(w)
    /\ EndTurn(w, TRUE)

CallRedirected(w, q) ==
    /\ At(w, "await") /\ ~Cancelling(w)
    /\ claim_hard_redirect(Run, w, turns[w].generation, q)
    /\ Become(w, [turns[w] EXCEPT !.pc = "redirected", !.held = q, !.generation = @ + 1])
    /\ UNCHANGED <<saved, handed>>

\* LlmGenerationSuperseded: another worker claimed a redirect.
CallFenced(w) ==
    /\ At(w, "await") /\ ~Current(w)
    /\ Streaming \/ ~Cancelling(w)
    /\ GoTo(w, "fenced")
    /\ Keep /\ UNCHANGED <<saved, handed>>

CallFails(w) ==
    /\ At(w, "await")
    /\ EndTurn(w, FALSE)

_apply_redirect_correction(w) ==
    LET messages == turns[w].messages \cup {turns[w].held} IN
    /\ At(w, "redirected")
    /\ Become(w, [turns[w] EXCEPT !.pc = "redirect_saved", !.messages = messages])
    /\ saved' = messages
    /\ Keep /\ UNCHANGED handed

\* Mutant: the call is repeated with the request it was made with.
AfterRedirectSameRequest(t, n) == [t EXCEPT !.pc = "await", !.redirects = n]

\* What follows the n-th redirect of a step: another call, or after the third the rest
\* of the step with the response of an earlier call, if there was one.
AfterRedirect(t, n) ==
    IF n < 3 THEN [t EXCEPT !.pc = "await", !.redirects = n, !.asked = t.messages]
    ELSE IF t.llm_steps = 0 THEN [t EXCEPT !.pc = "raised"]
    ELSE [t EXCEPT !.pc = "answered", !.redirects = n]

\* Mutant: the redirect's row is left to the next boundary.
RedirectNotMarked(w) ==
    /\ At(w, "redirect_saved")
    /\ Keep
    /\ Become(w, AfterRedirect(turns[w], turns[w].redirects + 1))
    /\ UNCHANGED <<saved, handed>>

MarkRedirect(w) ==
    /\ At(w, "redirect_saved")
    /\ Mark(w, "llm_in_flight")
    /\ Become(w, AfterRedirect(turns[w], turns[w].redirects + 1))
    /\ UNCHANGED <<saved, handed>>

(***************************************************************************)
(* The rest of the step loop.                                              *)
(***************************************************************************)
_execute_tool_stage(w) ==
    /\ At(w, "tool_stage") /\ ~turns[w].aborted
    /\ ReportPhase("tool_in_flight")
    /\ GoTo(w, "tools")
    /\ UNCHANGED <<saved, handed>>

ToolStageEnds(w, next) ==
    /\ At(w, "tools")
    /\ GoTo(w, next)
    /\ saved' = turns[w].messages
    /\ Keep /\ UNCHANGED handed

\* A tool call waits for a decision.
ParkInterrupt(w) ==
    /\ At(w, "tools")
    /\ ReportPhase("approval_pause")
    /\ GoTo(w, "parked")
    /\ saved' = turns[w].messages
    /\ UNCHANGED handed

_execute_finalize(w) ==
    /\ At(w, "finalize") /\ ~turns[w].aborted
    /\ ReportPhase("finalizing")
    /\ GoTo(w, "finalizing")
    /\ UNCHANGED <<saved, handed>>

\* A gate sends the run back to the model.
_resume_after_finalize(w) ==
    /\ At(w, "finalizing")
    /\ GoTo(w, "llm_call")
    /\ saved' = turns[w].messages
    /\ Keep /\ UNCHANGED handed

Finish(w) ==
    /\ At(w, "finalizing")
    /\ EndTurn(w, FALSE)

\* The wall-clock guard ends a step that waits for something.
StepTimesOut(w) ==
    /\ turns[w].pc \in {"await", "answered", "tools", "finalizing"}
    /\ EndTurn(w, turns[w].aborted)

(***************************************************************************)
(* The environment: crashes, resumes, the host's abort, the next turn.     *)
(***************************************************************************)
Crash(w) ==
    /\ turns[w].pc \notin {"ended", "raised", "fenced", "crashed", "paused", "parked"}
    /\ GoTo(w, "crashed")
    /\ Keep /\ UNCHANGED <<saved, handed>>

\* The host's decision on a parked run lets it go on from the saved transcript...
ResumeTurn(w, next) ==
    /\ \/ At(w, "paused") /\ next = "llm_call"
       \/ At(w, "parked") /\ next \in {"llm_call", "tool_stage"}
    /\ ReportPhase(IF next = "tool_stage" THEN "tool_in_flight" ELSE "llm_in_flight")
    /\ Become(w, [turns[w] EXCEPT !.pc = next, !.messages = saved, !.aborted = FALSE])
    /\ UNCHANGED <<saved, handed>>

\* ...or ends it: cancelled (stopped), rejected or handed to an external executor.
EndParked(w, stopped) ==
    /\ turns[w].pc \in {"paused", "parked"}
    /\ EndTurn(w, stopped)

HostAbort(w) ==
    /\ turns[w].handle /\ ~turns[w].aborted /\ turns[w].pc # "ended"
    /\ Become(w, [turns[w] EXCEPT !.aborted = TRUE])
    /\ Keep /\ UNCHANGED <<saved, handed>>

\* dispatch_next_turn: claim the message, let the host create its turn, settle the row.
ClaimNext(d, q) ==
    /\ claim_next_handoff(Run, d, q)
    /\ UNCHANGED <<turns, saved, handed>>

HoldsNext(d, q) == Queued(q) /\ items[q].claimed_by = d

create_next_turn(d, q) ==
    /\ HoldsNext(d, q) /\ items[q].request.payload # "blank"
    /\ handed' = handed \cup {q}
    /\ Keep /\ UNCHANGED <<turns, saved>>

FailHandoff(d, q) ==
    /\ HoldsNext(d, q) /\ items[q].request.payload = "blank"
    /\ mark_failed(q, "error")
    /\ UNCHANGED <<turns, saved, handed>>

CompleteHandoff(d, q, turn) ==
    /\ q \in handed
    /\ complete_handoff(q, d, turn)
    /\ UNCHANGED <<turns, saved, handed>>

TurnStep(w) ==
    \/ StartRun(w) \/ _terminal_from_limits(w) \/ BeginDrain(w)
    \/ \E q \in QueueIds : ClaimControl(w, q) \/ CallRedirected(w, q)
    \/ _apply_control_item(w) \/ RejectControl(w) \/ MarkControl(w)
    \/ StopFromBoundary(w) \/ DrainEnds(w) \/ _park_steering_pause(w)
    \/ BeginCall(w) \/ CallReturns(w) \/ SaveAnswer(w) \/ CallAborted(w) \/ CallFenced(w) \/ CallFails(w)
    \/ _apply_redirect_correction(w) \/ MarkRedirect(w)
    \/ _execute_tool_stage(w) \/ ParkInterrupt(w)
    \/ \E next \in {"llm_call", "finalize"} : ToolStageEnds(w, next)
    \/ _execute_finalize(w) \/ _resume_after_finalize(w) \/ Finish(w) \/ StepTimesOut(w)

LiveNext ==
    \/ HostStep /\ UNCHANGED <<turns, saved, handed>>
    \/ \E w \in Workers :
          \/ TurnStep(w)
          \/ Crash(w)
          \/ HostAbort(w)
          \/ \E next \in LoopHead : ResumeTurn(w, next)
          \/ \E stopped \in BOOLEAN : EndParked(w, stopped)
    \/ \E d \in Dispatchers, q \in QueueIds :
          \/ ClaimNext(d, q) \/ create_next_turn(d, q) \/ FailHandoff(d, q)
          \/ \E turn \in Turns : CompleteHandoff(d, q, turn)

\* The event loop runs a worker that can take a step; crashes, hosts and dispatchers
\* owe nobody anything.
LiveSpec == LiveInit /\ [][LiveNext]_liveVars /\ \A w \in Workers : WF_liveVars(TurnStep(w))

(***************************************************************************)
(* Properties.                                                             *)
(***************************************************************************)
\* Every worker's context has its type: a turn makes at most MaxLlmSteps model calls and
\* a step follows at most three redirects.
LiveTypeOK ==
    /\ turns \in [Workers -> RunContext]
    /\ saved \subseteq QueueIds
    /\ handed \subseteq QueueIds

HandedOver(q) == items[q].reason_code = "next_handoff_completed"

\* The host is told that a message was applied to this turn only when the message is in a
\* saved transcript: a crash after the receipt loses nothing.
AppliedIsSaved ==
    \A q \in QueueIds :
        items[q].status = "applied" /\ IsMessage(items[q]) /\ ~HandedOver(q) => q \in saved

\* No message is both in this turn's transcript and in, or on its way to, the next turn.
NotDeliveredTwice ==
    \A q \in saved :
        q \notin handed /\ ~(Queued(q) /\ items[q].resolved_semantic = "queue_next")

\* A message that is in the transcript is reported as failed only if a Stop overtook it.
ShownIsNotFailed ==
    \A q \in saved : items[q].status = "failed" => runs[Run].stopped

\* Between a boundary drain, a crash, a redirect and a next turn, a message reaches the
\* model once and its row says so: what the host is told was applied is in a saved
\* transcript, what is in one is not handed to the next turn as well, and is reported as
\* failed only if a Stop overtook it.
DeliveredOnce == AppliedIsSaved /\ NotDeliveredTwice /\ ShownIsNotFailed

\* Tools run for an answer to everything the transcript holds: a correction that
\* interrupted a call has been put to the model before the run acts again.
ActsOnTheLatestAnswer ==
    \A w \in Workers : At(w, "tools") => turns[w].messages \subseteq turns[w].answered

Applying(w) == turns[w].pc \in {"claimed", "persisted", "redirected", "redirect_saved"}

\* Two workers of one run never apply the same control, at a boundary or in a model call.
AppliedByOneWorker ==
    \A v, w \in Workers :
        v # w /\ Applying(v) /\ Applying(w) => turns[v].held # turns[w].held

\* Every step of the turn, its hosts and its dispatcher is a step of the command queue.
UsesTheQueue == Spec

\* The turn is over, parked for its host's decision, or its worker is gone.
Waits(w) == turns[w].pc \in {"paused", "parked", "crashed", "fenced", "raised"}

Unsettled(q) ==
    /\ q \in QueueIds /\ Queued(q)
    /\ IsMessage(items[q]) /\ items[q].resolved_semantic # "queue_next"

\* A message accepted for the current turn is eventually applied, failed, cancelled or
\* promoted to the next turn, unless the run waits for its host or its process died.
MessagesAreSettled ==
    \A q \in 1..MaxItems : Unsettled(q) ~> (~Unsettled(q) \/ \E w \in Workers : Waits(w))

\* "Output from a lower generation ... cannot checkpoint": an answer is kept only while
\* the run's generation is still the one it was asked in.
StaleAnswerIsDropped ==
    [][\A w \in Workers : At(w, "answered") /\ turns'[w].pc = "tool_stage" => Current(w)]_liveVars
=============================================================================
