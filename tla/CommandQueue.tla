---------------------------- MODULE CommandQueue ----------------------------
(***************************************************************************)
(* The command queue of the live-message control plane: the reference      *)
(* state machine of runtime/control/in_memory.py, which the SQLite and     *)
(* Postgres stores run inside one lock or transaction per call.            *)
(*                                                                         *)
(* Hosts admit controls for a run (steer, redirect, next, stop, pause,     *)
(* configuration), the run's workers claim and apply them at step          *)
(* boundaries, the run commits a terminal state, and dispatchers hand the  *)
(* remaining messages over to a next turn.  Every method is one action,    *)
(* and any caller may call any method at any time.  Calls that change      *)
(* nothing (a rejection, a replay, a lost claim) are stuttering steps.     *)
(***************************************************************************)
EXTENDS Naturals

CONSTANTS
    Runs,           \* run ids
    Claimants,      \* worker attempt ids and dispatcher ids
    Turns,          \* destination turn ids that hosts create
    Keys,           \* dedupe keys, each with the source, thread and agent it scopes
    Requests,       \* the control requests hosts may send
    NoRun,          \* run_id is None
    NoKey,          \* dedupe_key is None or empty
    Nobody,         \* claimed_by is None
    NoTurn,         \* destination_turn_id is None
    MaxItems,       \* bound: rows ever inserted
    MaxGeneration,  \* bound: LLM generations of one run
    AtomicEnqueue   \* TRUE: enqueue is one _mutate call (SQLite, Postgres)
                    \* FALSE: it looks for the run before it takes the lock

ControlKind == {"interrupt", "enqueue_user_message", "cancel_queued_message",
                "redirect_user_message", "steer_user_message", "pause", "config"}
ControlPriority == {"now", "next", "later"}
LiveMessageSemantic == {"steer_current", "redirect_current", "queue_next",
                        "cancel_next", "stop", "pause_current", "none"}
ActivePhase == {"llm_in_flight", "tool_in_flight", "approval_pause", "finalizing"}
\* "absent": the store has no row for the run; "unknown" is the row's default.
LiveMessagePhase == ActivePhase \cup {"absent", "unknown", "terminal"}
CommandQueueStatus == {"queued", "applied", "cancelled", "failed"}
\* "error" stands for the errors a worker or dispatcher reports.
ReasonCode == {"none", "accepted", "stop_accepted", "run_stopped", "cancelled",
               "cancelled_by_operator", "applied", "stop_applied",
               "redirect_degraded_tool_phase", "redirect_claimed",
               "terminal_promoted_to_next", "next_handoff_completed", "error"}
\* The payload field that carries the text; "blank" has none in either field.
Payload == {"message", "text", "blank"}

ControlRequest ==
    [kind : ControlKind, priority : ControlPriority, run : Runs \cup {NoRun},
     key : Keys \cup {NoKey}, payload : Payload]

ASSUME RequestsAssumption == Requests \subseteq ControlRequest
ASSUME NullsAssumption ==
    NoRun \notin Runs /\ NoKey \notin Keys /\ Nobody \notin Claimants /\ NoTurn \notin Turns
ASSUME BoundsAssumption ==
    MaxItems \in Nat /\ MaxGeneration \in Nat /\ AtomicEnqueue \in BOOLEAN

VARIABLES
    items,     \* the rows, by admission number (_order and _items)
    count,     \* how many rows there are (len(_order))
    runs,      \* the LiveRunState of every run
    unrouted   \* enqueue calls that found no run row and wait for the lock

vars == <<items, count, runs, unrouted>>

Item ==
    [request : Requests, priority : ControlPriority, status : CommandQueueStatus,
     resolved_semantic : LiveMessageSemantic, claimed_by : Claimants \cup {Nobody},
     reason_code : ReasonCode, source_generation : Nat, llm_generation : Nat,
     handoff_id : BOOLEAN, destination_turn_id : Turns \cup {NoTurn}]

LiveRunState == [phase : LiveMessagePhase, llm_generation : Nat, stopped : BOOLEAN]

(***************************************************************************)
(* What a request asks for.                                                *)
(***************************************************************************)
requested_semantic_for_request(req) ==
    CASE req.kind = "enqueue_user_message" /\ req.priority = "now"  -> "steer_current"
      [] req.kind = "enqueue_user_message" /\ req.priority = "next" -> "queue_next"
      [] req.kind = "steer_user_message"                            -> "steer_current"
      [] req.kind = "pause"                                         -> "pause_current"
      [] req.kind = "redirect_user_message" /\ req.priority = "now" -> "redirect_current"
      [] req.kind = "cancel_queued_message"                         -> "cancel_next"
      [] req.kind = "interrupt"                                     -> "stop"
      [] OTHER                                                      -> "none"

Requested(i) == requested_semantic_for_request(i.request)
MessageSemantic == {"steer_current", "redirect_current", "queue_next"}
IsMessage(i) == Requested(i) \in MessageSemantic

\* Lower ranks drain first.
dispatch_order(i) ==
    CASE i.request.kind = "interrupt"         -> 0
      [] Requested(i) = "redirect_current"    -> 1
      [] Requested(i) = "steer_current"       -> 2
      [] Requested(i) = "queue_next"          -> 11
      [] OTHER -> 10 + (CASE i.priority = "now"  -> 0
                          [] i.priority = "next" -> 1
                          [] OTHER               -> 2)

(***************************************************************************)
(* Reading the store.                                                      *)
(***************************************************************************)
QueueIds == 1..count
Queued(q) == items[q].status = "queued"
Unclaimed(q) == items[q].claimed_by = Nobody

\* list_pending(run_id=r), as a set; Drains gives its order.
list_pending(r) == {q \in QueueIds : Queued(q) /\ items[q].request.run = r}
Drains(p, q) ==
    \/ dispatch_order(items[p]) < dispatch_order(items[q])
    \/ dispatch_order(items[p]) = dispatch_order(items[q]) /\ p < q
IsFirst(q, S) == q \in S /\ \A p \in S : p = q \/ Drains(q, p)

\* Two requests with the same digest are the same request, key and all else aside.
control_request_sha256(req) == <<req.kind, req.run, req.priority, req.payload>>

DedupeMatches(req) ==
    {q \in QueueIds : /\ req.key # NoKey
                      /\ items[q].request.kind = req.kind
                      /\ items[q].request.run = req.run
                      /\ items[q].request.key = req.key}

(***************************************************************************)
(* Admission.                                                              *)
(***************************************************************************)
DedupeAnswer(req) ==
    IF \E q \in DedupeMatches(req) :
          control_request_sha256(items[q].request) # control_request_sha256(req)
    THEN "idempotency_conflict" ELSE "replayed"

\* What admit(req) answers in the present state.
AdmitAnswer(req) ==
    IF req.run = NoRun THEN "run_id_required"
    ELSE IF DedupeMatches(req) # {} THEN DedupeAnswer(req)
    ELSE IF runs[req.run].phase \in {"absent", "unknown"} THEN "live_message_state_unavailable"
    ELSE IF runs[req.run].phase = "terminal" THEN "turn_no_longer_steerable"
    ELSE IF runs[req.run].stopped THEN "run_stopped"
    ELSE IF requested_semantic_for_request(req) = "none" THEN "unsupported_live_message_semantic"
    ELSE IF /\ requested_semantic_for_request(req) \in MessageSemantic
            /\ req.payload = "blank" THEN "invalid_control_payload"
    ELSE "accepted"

\* Mutant: the row is born with its kind where its semantic belongs.
NewItemWithKind(req, generation) ==
    [request |-> req, priority |-> req.priority, status |-> "queued",
     resolved_semantic |-> req.kind, claimed_by |-> Nobody,
     reason_code |-> "accepted", source_generation |-> generation, llm_generation |-> 0,
     handoff_id |-> FALSE, destination_turn_id |-> NoTurn]

NewItem(req, generation) ==
    LET semantic == requested_semantic_for_request(req) IN
    [request |-> req, priority |-> req.priority, status |-> "queued",
     resolved_semantic |-> semantic, claimed_by |-> Nobody,
     reason_code |-> IF semantic = "none" THEN "none" ELSE "accepted",
     source_generation |-> generation, llm_generation |-> 0,
     handoff_id |-> IF semantic = "queue_next" THEN TRUE ELSE FALSE,
     destination_turn_id |-> NoTurn]

\* The rows with one more, as long as the bound allows it.
Insert(rows, new) ==
    /\ count < MaxItems
    /\ count' = count + 1
    /\ items' = [q \in 1..(count + 1) |-> IF q = count + 1 THEN new ELSE rows[q]]

Failed(i, error) ==
    [i EXCEPT !.status = "failed", !.reason_code = error, !.claimed_by = Nobody]

\* A redirect applied anywhere but in the model call it interrupts was a steer.
Applied(i, phase) ==
    LET degraded == Requested(i) = "redirect_current" /\ phase # "llm_in_flight" IN
    [i EXCEPT !.status = "applied",
              !.claimed_by = Nobody,
              !.resolved_semantic = IF degraded THEN "steer_current" ELSE @,
              !.reason_code = IF degraded THEN "redirect_degraded_tool_phase"
                              ELSE IF Requested(i) = "stop" THEN "stop_applied"
                              ELSE "applied"]

\* Stop is a preemption boundary: every pending message of the run fails with it.
StopPreempts(r) ==
    [q \in QueueIds |-> IF q \in list_pending(r) /\ IsMessage(items[q])
                        THEN Failed(items[q], "run_stopped")
                        ELSE items[q]]

admit(req) ==
    LET new == NewItem(req, runs[req.run].llm_generation) IN
    /\ AdmitAnswer(req) = "accepted"
    /\ IF requested_semantic_for_request(req) = "stop"
       THEN /\ Insert(StopPreempts(req.run), [new EXCEPT !.reason_code = "stop_accepted"])
            /\ runs' = [runs EXCEPT ![req.run].stopped = TRUE]
       ELSE /\ Insert(items, new)
            /\ UNCHANGED runs
    /\ UNCHANGED unrouted

\* The test enqueue makes before anything else: is this a live control of a known run?
RoutesToAdmit(req) ==
    /\ req.run # NoRun
    /\ runs[req.run].phase # "absent"
    /\ requested_semantic_for_request(req) # "none"

EnqueueUnrouted(req) ==
    /\ DedupeMatches(req) = {}
    /\ Insert(items, NewItem(req, 0))
    /\ UNCHANGED runs

enqueue(req) ==
    \/ RoutesToAdmit(req) /\ admit(req)
    \/ /\ AtomicEnqueue
       /\ ~RoutesToAdmit(req)
       /\ EnqueueUnrouted(req)
       /\ UNCHANGED unrouted
    \/ /\ ~AtomicEnqueue
       /\ ~RoutesToAdmit(req)
       /\ unrouted' = unrouted \cup {req}
       /\ UNCHANGED <<items, count, runs>>

\* The rest of an unrouted enqueue, once it holds the lock.
EnqueueLocked(req) ==
    /\ req \in unrouted
    /\ unrouted' = unrouted \ {req}
    /\ \/ EnqueueUnrouted(req)
       \/ DedupeMatches(req) # {} /\ UNCHANGED <<items, count, runs>>

(***************************************************************************)
(* Cancelling and settling one row.  Nothing happens to a row that is not  *)
(* queued; each method's own guard comes after.                            *)
(***************************************************************************)
Update(q, new) ==
    /\ items' = [items EXCEPT ![q] = new]
    /\ UNCHANGED <<count, unrouted>>

Cancelled(i, reason) == [i EXCEPT !.status = "cancelled", !.reason_code = reason]

cancel_next(q) ==
    /\ Queued(q) /\ Unclaimed(q)
    /\ items[q].resolved_semantic = "queue_next"
    /\ Update(q, Cancelled(items[q], "cancelled_by_operator"))
    /\ UNCHANGED runs

cancel(q) ==
    IF Requested(items[q]) = "queue_next"
    THEN cancel_next(q)
    ELSE /\ Queued(q) /\ Unclaimed(q)
         /\ Update(q, Cancelled(items[q], "cancelled"))
         /\ UNCHANGED runs

\* c = Nobody: the caller passes no claimant_id.
mark_applied(q, c, phase) ==
    /\ Queued(q)
    /\ c = Nobody \/ items[q].claimed_by \in {Nobody, c}
    /\ Update(q, Applied(items[q], phase))
    /\ UNCHANGED runs

\* Mutant: a late failure overwrites whatever has become of the row.
MarkFailedAnyway(q, error) ==
    /\ Update(q, Failed(items[q], error))
    /\ UNCHANGED runs

mark_failed(q, error) ==
    /\ Queued(q)
    /\ Update(q, Failed(items[q], error))
    /\ UNCHANGED runs

release_claim(q, c) ==
    /\ Queued(q) /\ items[q].claimed_by = c
    /\ Update(q, [items[q] EXCEPT !.claimed_by = Nobody])
    /\ UNCHANGED runs

(***************************************************************************)
(* The run's phase and the claims its workers make.                        *)
(***************************************************************************)
set_run_phase(r, phase) ==
    /\ runs[r].phase # "terminal"
    /\ runs' = [runs EXCEPT ![r].phase = phase]
    /\ UNCHANGED <<items, count, unrouted>>

\* Mutant: a boundary takes rows over from whoever claimed them.
BoundaryEligibleClaimed(r) ==
    {q \in list_pending(r) : /\ runs[r].stopped => Requested(items[q]) = "stop"
                             /\ Requested(items[q]) # "queue_next"
                             /\ items[q].priority # "later"}

BoundaryEligible(r) ==
    {q \in list_pending(r) :
        /\ Unclaimed(q)
        /\ runs[r].stopped => Requested(items[q]) = "stop"
        /\ Requested(items[q]) # "queue_next"
        /\ items[q].priority # "later"}

claim_for_boundary(r, c, q) ==
    /\ runs[r].phase # "terminal"
    /\ IsFirst(q, BoundaryEligible(r))
    /\ Update(q, [items[q] EXCEPT !.claimed_by = c])
    /\ UNCHANGED runs

UnclaimedRedirects(r) ==
    {q \in list_pending(r) : Unclaimed(q) /\ Requested(items[q]) = "redirect_current"}

\* Mutant: the redirect takes the next generation but the run does not advance to it.
ClaimHardRedirectUnfenced(r, c, expected_generation, q) ==
    /\ ~runs[r].stopped
    /\ runs[r].phase = "llm_in_flight"
    /\ runs[r].llm_generation = expected_generation
    /\ IsFirst(q, UnclaimedRedirects(r))
    /\ Update(q, [items[q] EXCEPT !.claimed_by = c,
                                  !.resolved_semantic = "redirect_current",
                                  !.reason_code = "redirect_claimed",
                                  !.llm_generation = expected_generation + 1])
    /\ UNCHANGED runs

claim_hard_redirect(r, c, expected_generation, q) ==
    /\ ~runs[r].stopped
    /\ runs[r].phase = "llm_in_flight"
    /\ runs[r].llm_generation = expected_generation
    /\ expected_generation < MaxGeneration
    /\ IsFirst(q, UnclaimedRedirects(r))
    /\ runs' = [runs EXCEPT ![r].llm_generation = expected_generation + 1]
    /\ Update(q, [items[q] EXCEPT !.claimed_by = c,
                                  !.resolved_semantic = "redirect_current",
                                  !.reason_code = "redirect_claimed",
                                  !.llm_generation = expected_generation + 1])

(***************************************************************************)
(* Terminal commit and the handoff to the next turn.                       *)
(***************************************************************************)
Promoted(i) ==
    [i EXCEPT !.priority = "next", !.resolved_semantic = "queue_next",
              !.reason_code = "terminal_promoted_to_next", !.handoff_id = TRUE,
              !.claimed_by = Nobody]

\* Mutant: a message some worker has claimed is not promoted.
AtTerminalUnclaimed(i, stopped, phase) ==
    CASE Requested(i) = "stop" /\ stopped -> Applied(i, phase)
      [] IsMessage(i) /\ stopped          -> Failed(i, "run_stopped")
      [] IsMessage(i) /\ ~stopped /\ i.claimed_by = Nobody -> Promoted(i)
      [] OTHER -> i

\* What a terminal commit makes of one pending row of its run.
AtTerminal(i, stopped, phase) ==
    CASE Requested(i) = "stop" /\ stopped -> Applied(i, phase)
      [] IsMessage(i) /\ stopped          -> Failed(i, "run_stopped")
      [] IsMessage(i) /\ ~stopped /\ Requested(i) # "queue_next" -> Promoted(i)
      [] OTHER -> i

\* Mutant: the run is closed first, and its messages are left for later.
CommitTerminalOnly(r, stopped) ==
    /\ runs' = [runs EXCEPT ![r].phase = "terminal", ![r].stopped = @ \/ stopped]
    /\ UNCHANGED <<items, count, unrouted>>

commit_terminal(r, stopped) ==
    LET stop == stopped \/ runs[r].stopped IN
    /\ runs' = [runs EXCEPT ![r].phase = "terminal", ![r].stopped = stop]
    /\ items' = [q \in QueueIds |->
                    IF q \in list_pending(r)
                    THEN AtTerminal(items[q], stop, runs[r].phase)
                    ELSE items[q]]
    /\ UNCHANGED <<count, unrouted>>

stop_run(r) == commit_terminal(r, TRUE)

\* A claimant that already holds a handoff is given the same row again.
HandoffEligible(r, c) ==
    {q \in list_pending(r) : /\ items[q].resolved_semantic = "queue_next"
                             /\ items[q].claimed_by \in {Nobody, c}}

claim_next_handoff(r, c, q) ==
    /\ runs[r].phase = "terminal" /\ ~runs[r].stopped
    /\ IsFirst(q, HandoffEligible(r, c))
    /\ Update(q, [items[q] EXCEPT !.claimed_by = c, !.handoff_id = TRUE])
    /\ UNCHANGED runs

complete_handoff(q, c, turn) ==
    /\ Queued(q) /\ items[q].claimed_by = c
    /\ Update(q, [items[q] EXCEPT !.status = "applied", !.destination_turn_id = turn,
                                  !.reason_code = "next_handoff_completed",
                                  !.claimed_by = Nobody])
    /\ UNCHANGED runs

-----------------------------------------------------------------------------
Init ==
    /\ items = [q \in 1..0 |-> Nobody]
    /\ count = 0
    /\ runs = [r \in Runs |-> [phase |-> "absent", llm_generation |-> 0, stopped |-> FALSE]]
    /\ unrouted = {}

HostStep ==
    \/ \E req \in Requests : admit(req) \/ enqueue(req) \/ EnqueueLocked(req)
    \/ \E q \in QueueIds : cancel(q) \/ cancel_next(q)

WorkerStep ==
    \/ \E r \in Runs, phase \in ActivePhase : set_run_phase(r, phase)
    \/ \E r \in Runs, c \in Claimants, q \in QueueIds :
           \/ claim_for_boundary(r, c, q)
           \/ claim_hard_redirect(r, c, runs[r].llm_generation, q)
    \/ \E q \in QueueIds, c \in Claimants \cup {Nobody}, phase \in ActivePhase :
           mark_applied(q, c, phase)
    \/ \E q \in QueueIds : mark_failed(q, "error")
    \/ \E q \in QueueIds, c \in Claimants : release_claim(q, c)
    \/ \E r \in Runs : commit_terminal(r, FALSE) \/ stop_run(r)

DispatcherStep ==
    \E c \in Claimants, q \in QueueIds :
        \/ \E r \in Runs : claim_next_handoff(r, c, q)
        \/ \E turn \in Turns : complete_handoff(q, c, turn)

Next == HostStep \/ WorkerStep \/ DispatcherStep

Spec == Init /\ [][Next]_vars

-----------------------------------------------------------------------------
(***************************************************************************)
(* Properties.                                                             *)
(***************************************************************************)

\* Every row, run row and waiting call has the shape the contracts give it.
TypeOK ==
    /\ count \in 0..MaxItems
    /\ items \in [1..count -> Item]
    /\ runs \in [Runs -> LiveRunState]
    /\ unrouted \subseteq Requests

\* Once Stop is accepted for a run (or it ends stopped), no steer, redirect or
\* next message of that run is pending, claimed or not: admission, promotion and
\* the boundary all have to respect the preemption boundary.
StopLeavesNoMessage ==
    \A r \in Runs : runs[r].stopped =>
        \A q \in list_pending(r) : ~IsMessage(items[q])

\* Once a run is terminal, every message still pending is a NEXT message with its
\* handoff identity: a message accepted before the commit was promoted with it and
\* none was accepted after it.
TerminalLeavesOnlyNext ==
    \A r \in Runs : runs[r].phase = "terminal" =>
        \A q \in list_pending(r) : IsMessage(items[q]) =>
            items[q].resolved_semantic = "queue_next" /\ items[q].handoff_id

\* A NEXT message is claimed only while its source run is durably terminal and was
\* not stopped: no boundary of the active turn drains it, and a Stop takes it back.
NextWaitsForTerminal ==
    \A r \in Runs : \A q \in list_pending(r) :
        (items[q].resolved_semantic = "queue_next" /\ ~Unclaimed(q)) =>
            runs[r].phase = "terminal" /\ ~runs[r].stopped

\* A pending message is where its run's state says: none is left by a Stop, only those for
\* the next turn by a terminal commit, and these wait for it.
MessagesHaveTheirPlace ==
    StopLeavesNoMessage /\ TerminalLeavesOnlyNext /\ NextWaitsForTerminal

\* A generation fences at most one claim: redirects own distinct generations, none
\* above the run's own, and each later than the generation that accepted it.
GenerationsAreOwned ==
    \A q \in QueueIds : items[q].llm_generation # 0 =>
        /\ Requested(items[q]) = "redirect_current"
        /\ items[q].request.run \in Runs
        /\ items[q].source_generation < items[q].llm_generation
        /\ items[q].llm_generation <= runs[items[q].request.run].llm_generation
        /\ \A p \in QueueIds :
              /\ p # q
              /\ items[p].request.run = items[q].request.run
              => items[p].llm_generation # items[q].llm_generation

\* An idempotency key names one row for ever: a replay of an accepted request is
\* answered with that row whatever has become of the row or of its run.
ReplayFindsItsRow ==
    \A q \in QueueIds : LET req == items[q].request IN
        req.key # NoKey =>
            /\ DedupeMatches(req) = {q}
            /\ req.run # NoRun => AdmitAnswer(req) = "replayed"

\* What a caller was told stays true of one row: an idempotency key names one row and a
\* generation of the model belongs to one redirect.
NamesAreUnique == GenerationsAreOwned /\ ReplayFindsItsRow

\* A settled row (applied, cancelled, failed) is never touched again, by late
\* claimants, a second terminal commit, Stop or cancellation alike.
SettledIsFinal ==
    [][\A q \in QueueIds : ~Queued(q) => items'[q] = items[q]]_vars

\* A claim passes from one claimant to another only through a release or the
\* terminal promotion, and a cancellation never removes a claimed row.
ClaimsAreExclusive ==
    [][\A q \in QueueIds : ~Unclaimed(q) =>
            /\ items'[q].claimed_by \in {items[q].claimed_by, Nobody}
            /\ items'[q].status # "cancelled"]_vars

\* A terminal run stays terminal, a stopped run stays stopped and generations only
\* grow, however late a worker reports a phase.
RunStateIsMonotone ==
    [][\A r \in Runs :
            /\ runs[r].phase = "terminal" => runs'[r].phase = "terminal"
            /\ runs[r].stopped => runs'[r].stopped
            /\ runs'[r].llm_generation >= runs[r].llm_generation]_vars

\* Nothing goes back: rows that are settled, claims that are held and the state of a run,
\* whichever late caller comes.
OnlyForward == SettledIsFinal /\ ClaimsAreExclusive /\ RunStateIsMonotone

\* Where the contract of LiveMessageContract sees a row.
Place(i) ==
    CASE ~IsMessage(i)                           -> "control"
      [] IsMessage(i) /\ i.status = "applied"    -> "delivered"
      [] IsMessage(i) /\ i.status \in {"cancelled", "failed"} -> "dropped"
      [] IsMessage(i) /\ i.status = "queued"     ->
            IF i.resolved_semantic = "queue_next" THEN "next" ELSE "current"

Contract == INSTANCE LiveMessageContract WITH
    rows <- [q \in QueueIds |-> [run |-> items[q].request.run, place |-> Place(items[q])]],
    size <- count,
    turn <- [r \in Runs |-> IF runs[r].stopped THEN "stopped"
                            ELSE IF runs[r].phase = "terminal" THEN "ended" ELSE "open"]

\* Refinement: every step of the store is a step of the contract or changes nothing
\* the contract sees - one disposition per message, promotion and preemption atomic
\* with the terminal commit and with Stop, and no acceptance into a closed turn.
ImplementsContract == Contract!ContractSpec

=============================================================================
