------------------------- MODULE CommandQueueProofs -------------------------
(***************************************************************************)
(* Theorems about CommandQueue, for every set of runs, claimants and       *)
(* requests: its types; the preemption, promotion and handoff invariants   *)
(* for the stores whose enqueue is atomic; that rows, claims and phases    *)
(* only go forward and names stay unique; and that it implements           *)
(* LiveMessageContract.                                                    *)
(***************************************************************************)
EXTENDS CommandQueue, TLAPS

LEMMA SemanticType ==
    ASSUME NEW req
    PROVE  requested_semantic_for_request(req) \in LiveMessageSemantic
  BY DEF requested_semantic_for_request, LiveMessageSemantic

LEMMA NewItemType ==
    ASSUME NEW req \in Requests, NEW generation \in Nat
    PROVE  /\ NewItem(req, generation) \in Item
           /\ [NewItem(req, generation) EXCEPT !.reason_code = "stop_accepted"] \in Item
  <1>1. req.priority \in ControlPriority
    BY RequestsAssumption DEF ControlRequest
  <1>2. requested_semantic_for_request(req) \in LiveMessageSemantic
    BY SemanticType
  <1>3. NewItem(req, generation) \in Item
    <2> DEFINE semantic == requested_semantic_for_request(req)
               reason == IF semantic = "none" THEN "none" ELSE "accepted"
               handoff == IF semantic = "queue_next" THEN TRUE ELSE FALSE
    <2>1. reason \in ReasonCode
      BY DEF ReasonCode
    <2>2. handoff \in BOOLEAN
      OBVIOUS
    <2>3. semantic \in LiveMessageSemantic
      BY <1>2
    <2>4. NewItem(req, generation) =
            [request |-> req, priority |-> req.priority, status |-> "queued",
             resolved_semantic |-> semantic, claimed_by |-> Nobody,
             reason_code |-> reason, source_generation |-> generation,
             llm_generation |-> 0, handoff_id |-> handoff, destination_turn_id |-> NoTurn]
      BY DEF NewItem
    <2> HIDE DEF semantic, reason, handoff
    <2> QED BY <1>1, <2>1, <2>2, <2>3, <2>4 DEF Item, CommandQueueStatus
  <1> QED BY <1>3 DEF Item, ReasonCode

LEMMA RowUpdateTypes ==
    ASSUME NEW i \in Item
    PROVE  /\ \A error \in ReasonCode : Failed(i, error) \in Item
           /\ \A reason \in ReasonCode : Cancelled(i, reason) \in Item
           /\ \A phase : Applied(i, phase) \in Item
           /\ Promoted(i) \in Item
           /\ \A stopped \in BOOLEAN : \A phase : AtTerminal(i, stopped, phase) \in Item
           /\ \A c \in Claimants \cup {Nobody} :
                /\ [i EXCEPT !.claimed_by = c] \in Item
                /\ [i EXCEPT !.claimed_by = c, !.handoff_id = TRUE] \in Item
  <1>1. \A error \in ReasonCode : Failed(i, error) \in Item
    BY DEF Failed, Item, CommandQueueStatus
  <1>2. \A reason \in ReasonCode : Cancelled(i, reason) \in Item
    BY DEF Cancelled, Item, CommandQueueStatus
  <1>3. \A phase : Applied(i, phase) \in Item
    <2> SUFFICES ASSUME NEW phase PROVE Applied(i, phase) \in Item
      OBVIOUS
    <2>1. PICK semantic \in LiveMessageSemantic, reason \in ReasonCode :
              Applied(i, phase) = [i EXCEPT !.status = "applied", !.claimed_by = Nobody,
                                            !.resolved_semantic = semantic,
                                            !.reason_code = reason]
      <3>1. CASE Requested(i) = "redirect_current" /\ phase # "llm_in_flight"
        BY <3>1 DEF Applied, LiveMessageSemantic, ReasonCode
      <3>2. CASE ~(Requested(i) = "redirect_current" /\ phase # "llm_in_flight")
        <4>1. i.resolved_semantic \in LiveMessageSemantic
          BY DEF Item
        <4>2. CASE Requested(i) = "stop"
          BY <3>2, <4>1, <4>2 DEF Applied, ReasonCode
        <4>3. CASE Requested(i) # "stop"
          BY <3>2, <4>1, <4>3 DEF Applied, ReasonCode
        <4> QED BY <4>2, <4>3
      <3> QED BY <3>1, <3>2
    <2> QED BY <2>1 DEF Item, CommandQueueStatus
  <1>4. Promoted(i) \in Item
    BY DEF Promoted, Item, ReasonCode, ControlPriority, LiveMessageSemantic
  <1>5. \A stopped \in BOOLEAN : \A phase : AtTerminal(i, stopped, phase) \in Item
    <2> SUFFICES ASSUME NEW stopped \in BOOLEAN, NEW phase
                 PROVE  AtTerminal(i, stopped, phase) \in Item
      OBVIOUS
    <2>1. Failed(i, "run_stopped") \in Item
      BY <1>1 DEF ReasonCode
    <2>2. AtTerminal(i, stopped, phase)
            \in {i, Applied(i, phase), Failed(i, "run_stopped"), Promoted(i)}
      BY DEF AtTerminal
    <2> QED BY <1>3, <1>4, <2>1, <2>2
  <1>6. \A c \in Claimants \cup {Nobody} :
            /\ [i EXCEPT !.claimed_by = c] \in Item
            /\ [i EXCEPT !.claimed_by = c, !.handoff_id = TRUE] \in Item
    BY DEF Item
  <1> QED BY <1>1, <1>2, <1>3, <1>4, <1>5, <1>6

LEMMA RedirectClaimType ==
    ASSUME NEW i \in Item, NEW c \in Claimants, NEW generation \in Nat
    PROVE  [i EXCEPT !.claimed_by = c, !.resolved_semantic = "redirect_current",
                     !.reason_code = "redirect_claimed",
                     !.llm_generation = generation] \in Item
  <1>1. "redirect_current" \in LiveMessageSemantic /\ "redirect_claimed" \in ReasonCode
    BY DEF LiveMessageSemantic, ReasonCode
  <1> QED BY <1>1 DEF Item

LEMMA UpdateType ==
    ASSUME TypeOK, NEW q \in QueueIds, NEW new \in Item, Update(q, new),
           runs' \in [Runs -> LiveRunState]
    PROVE  TypeOK'
  BY DEF TypeOK, QueueIds, Update

LEMMA InsertType ==
    ASSUME TypeOK, NEW rows \in [1..count -> Item], NEW new \in Item, Insert(rows, new),
           runs' \in [Runs -> LiveRunState], unrouted' \subseteq Requests
    PROVE  TypeOK'
  BY BoundsAssumption DEF TypeOK, Insert

LEMMA AdmitType ==
    ASSUME TypeOK, NEW req \in Requests, admit(req)
    PROVE  TypeOK'
  <1> DEFINE new == NewItem(req, runs[req.run].llm_generation)
  <1>1. req.run \in Runs
    BY RequestsAssumption DEF admit, AdmitAnswer, ControlRequest
  <1>2. new \in Item /\ [new EXCEPT !.reason_code = "stop_accepted"] \in Item
    BY <1>1, NewItemType DEF TypeOK, LiveRunState
  <1>3. StopPreempts(req.run) \in [1..count -> Item]
    BY RowUpdateTypes DEF StopPreempts, QueueIds, TypeOK, ReasonCode
  <1>4. runs' \in [Runs -> LiveRunState] /\ unrouted' \subseteq Requests
    BY <1>1 DEF admit, TypeOK, LiveRunState
  <1>5. CASE requested_semantic_for_request(req) = "stop"
    <2>1. Insert(StopPreempts(req.run), [new EXCEPT !.reason_code = "stop_accepted"])
      BY <1>5 DEF admit
    <2> QED BY <1>2, <1>3, <1>4, <2>1, InsertType
  <1>6. CASE requested_semantic_for_request(req) # "stop"
    <2>1. Insert(items, new)
      BY <1>6 DEF admit
    <2>2. items \in [1..count -> Item]
      BY DEF TypeOK
    <2> QED BY <1>2, <1>4, <2>1, <2>2, InsertType
  <1> QED BY <1>5, <1>6

LEMMA EnqueueUnroutedType ==
    ASSUME TypeOK, NEW req \in Requests, EnqueueUnrouted(req), unrouted' \subseteq Requests
    PROVE  TypeOK'
  <1>1. NewItem(req, 0) \in Item
    BY NewItemType
  <1>2. items \in [1..count -> Item] /\ runs' \in [Runs -> LiveRunState]
    BY DEF EnqueueUnrouted, TypeOK
  <1> QED BY <1>1, <1>2, InsertType DEF EnqueueUnrouted

LEMMA TypeStep == TypeOK /\ [Next]_vars => TypeOK'
  <1>2. ASSUME TypeOK, [Next]_vars PROVE TypeOK'
    <2>1. CASE UNCHANGED vars
      BY <1>2, <2>1 DEF vars, TypeOK
    <2>2. CASE HostStep
      <3>1. ASSUME NEW req \in Requests, admit(req) PROVE TypeOK'
        BY <1>2, <3>1, AdmitType
      <3>2. ASSUME NEW req \in Requests, enqueue(req) PROVE TypeOK'
        <4>1. CASE ~AtomicEnqueue /\ unrouted' = unrouted \cup {req}
                   /\ UNCHANGED <<items, count, runs>>
          BY <1>2, <4>1 DEF TypeOK
        <4>2. CASE EnqueueUnrouted(req) /\ UNCHANGED unrouted
          <5>1. unrouted' \subseteq Requests
            BY <1>2, <4>2 DEF TypeOK
          <5> QED BY <1>2, <4>2, <5>1, EnqueueUnroutedType
        <4> QED BY <1>2, <3>2, <4>1, <4>2, AdmitType DEF enqueue
      <3>3. ASSUME NEW req \in Requests, EnqueueLocked(req) PROVE TypeOK'
        <4>1. unrouted' \subseteq Requests
          BY <1>2, <3>3 DEF EnqueueLocked, TypeOK
        <4>2. CASE UNCHANGED <<items, count, runs>>
          BY <1>2, <4>1, <4>2 DEF TypeOK
        <4> QED BY <1>2, <3>3, <4>1, <4>2, EnqueueUnroutedType DEF EnqueueLocked
      <3>4. ASSUME NEW q \in QueueIds, cancel(q) \/ cancel_next(q) PROVE TypeOK'
        <4>1. PICK reason \in ReasonCode : Update(q, Cancelled(items[q], reason))
          BY <3>4 DEF cancel, cancel_next, ReasonCode
        <4>2. Cancelled(items[q], reason) \in Item
          BY <1>2, RowUpdateTypes DEF TypeOK, QueueIds
        <4>3. runs' \in [Runs -> LiveRunState]
          BY <1>2, <3>4 DEF cancel, cancel_next, TypeOK
        <4> QED BY <1>2, <4>1, <4>2, <4>3, UpdateType
      <3> QED BY <2>2, <3>1, <3>2, <3>3, <3>4 DEF HostStep
    <2>3. CASE WorkerStep
      <3>1. ASSUME NEW r \in Runs, NEW phase \in ActivePhase, set_run_phase(r, phase)
            PROVE  TypeOK'
        BY <1>2, <3>1 DEF set_run_phase, TypeOK, LiveRunState, LiveMessagePhase
      <3>2. ASSUME NEW r \in Runs, NEW c \in Claimants, NEW q \in QueueIds,
                   claim_for_boundary(r, c, q)
            PROVE  TypeOK'
        <4>1. [items[q] EXCEPT !.claimed_by = c] \in Item
          BY <1>2, RowUpdateTypes DEF TypeOK, QueueIds
        <4>2. runs' \in [Runs -> LiveRunState]
          BY <1>2, <3>2 DEF claim_for_boundary, TypeOK
        <4> QED BY <1>2, <3>2, <4>1, <4>2, UpdateType DEF claim_for_boundary
      <3>3. ASSUME NEW r \in Runs, NEW c \in Claimants, NEW q \in QueueIds,
                   claim_hard_redirect(r, c, runs[r].llm_generation, q)
            PROVE  TypeOK'
        <4> DEFINE generation == runs[r].llm_generation
                   new == [items[q] EXCEPT !.claimed_by = c,
                                           !.resolved_semantic = "redirect_current",
                                           !.reason_code = "redirect_claimed",
                                           !.llm_generation = generation + 1]
        <4>1. generation \in Nat
          BY <1>2 DEF TypeOK, LiveRunState
        <4>2. new \in Item
          <5>1. items[q] \in Item
            BY <1>2 DEF TypeOK, QueueIds
          <5>2. generation + 1 \in Nat
            BY <4>1
          <5> QED BY <5>1, <5>2, RedirectClaimType
        <4>3. runs' \in [Runs -> LiveRunState]
          BY <1>2, <3>3, <4>1 DEF claim_hard_redirect, TypeOK, LiveRunState
        <4>4. Update(q, new)
          BY <3>3 DEF claim_hard_redirect
        <4> QED BY <1>2, <4>2, <4>3, <4>4, UpdateType
      <3>4. ASSUME NEW q \in QueueIds, NEW c \in Claimants \cup {Nobody},
                   NEW phase \in ActivePhase, mark_applied(q, c, phase)
            PROVE  TypeOK'
        <4>1. Applied(items[q], phase) \in Item
          BY <1>2, RowUpdateTypes DEF TypeOK, QueueIds
        <4>2. runs' \in [Runs -> LiveRunState]
          BY <1>2, <3>4 DEF mark_applied, TypeOK
        <4> QED BY <1>2, <3>4, <4>1, <4>2, UpdateType DEF mark_applied
      <3>5. ASSUME NEW q \in QueueIds, mark_failed(q, "error") PROVE TypeOK'
        <4>1. Failed(items[q], "error") \in Item
          BY <1>2, RowUpdateTypes DEF TypeOK, QueueIds, ReasonCode
        <4>2. runs' \in [Runs -> LiveRunState]
          BY <1>2, <3>5 DEF mark_failed, TypeOK
        <4> QED BY <1>2, <3>5, <4>1, <4>2, UpdateType DEF mark_failed
      <3>6. ASSUME NEW q \in QueueIds, NEW c \in Claimants, release_claim(q, c)
            PROVE  TypeOK'
        <4>1. [items[q] EXCEPT !.claimed_by = Nobody] \in Item
          BY <1>2, RowUpdateTypes DEF TypeOK, QueueIds
        <4>2. runs' \in [Runs -> LiveRunState]
          BY <1>2, <3>6 DEF release_claim, TypeOK
        <4> QED BY <1>2, <3>6, <4>1, <4>2, UpdateType DEF release_claim
      <3>7. ASSUME NEW r \in Runs, NEW stopped \in BOOLEAN, commit_terminal(r, stopped)
            PROVE  TypeOK'
        <4> DEFINE stop == stopped \/ runs[r].stopped
        <4>1. stop \in BOOLEAN
          OBVIOUS
        <4>2. \A q \in QueueIds : AtTerminal(items[q], stop, runs[r].phase) \in Item
          BY <1>2, <4>1, RowUpdateTypes DEF TypeOK, QueueIds
        <4>3. items' \in [1..count -> Item]
          BY <1>2, <3>7, <4>2 DEF commit_terminal, TypeOK, QueueIds
        <4>4. runs' \in [Runs -> LiveRunState]
          BY <1>2, <3>7, <4>1 DEF commit_terminal, TypeOK, LiveRunState, LiveMessagePhase
        <4> QED BY <1>2, <3>7, <4>3, <4>4 DEF commit_terminal, TypeOK
      <3> QED BY <2>3, <3>1, <3>2, <3>3, <3>4, <3>5, <3>6, <3>7 DEF WorkerStep, stop_run
    <2>4. CASE DispatcherStep
      <3>1. ASSUME NEW r \in Runs, NEW c \in Claimants, NEW q \in QueueIds,
                   claim_next_handoff(r, c, q)
            PROVE  TypeOK'
        <4>1. [items[q] EXCEPT !.claimed_by = c, !.handoff_id = TRUE] \in Item
          BY <1>2, RowUpdateTypes DEF TypeOK, QueueIds
        <4>2. runs' \in [Runs -> LiveRunState]
          BY <1>2, <3>1 DEF claim_next_handoff, TypeOK
        <4> QED BY <1>2, <3>1, <4>1, <4>2, UpdateType DEF claim_next_handoff
      <3>2. ASSUME NEW c \in Claimants, NEW q \in QueueIds, NEW turn \in Turns,
                   complete_handoff(q, c, turn)
            PROVE  TypeOK'
        <4>1. items[q] \in Item
          BY <1>2 DEF TypeOK, QueueIds
        <4>2. [items[q] EXCEPT !.status = "applied", !.destination_turn_id = turn,
                               !.reason_code = "next_handoff_completed",
                               !.claimed_by = Nobody] \in Item
          BY <4>1 DEF Item, CommandQueueStatus, ReasonCode
        <4>3. runs' \in [Runs -> LiveRunState]
          BY <1>2, <3>2 DEF complete_handoff, TypeOK
        <4> QED BY <1>2, <3>2, <4>2, <4>3, UpdateType DEF complete_handoff
      <3> QED BY <2>4, <3>1, <3>2 DEF DispatcherStep
    <2> QED BY <1>2, <2>1, <2>2, <2>3, <2>4 DEF Next
  <1> QED BY <1>2

\* Type correctness of the store, for every set of runs, claimants, turns, keys and
\* requests and every bound: no method leaves a row or a run state ill-formed.
THEOREM TypeCorrect == Spec => []TypeOK
  <1>1. Init => TypeOK
    BY BoundsAssumption DEF Init, TypeOK, LiveRunState, LiveMessagePhase
  <1> QED BY <1>1, TypeStep, PTL DEF Spec

-----------------------------------------------------------------------------
(***************************************************************************)
(* Preemption, promotion and handoff.                                      *)
(*                                                                         *)
(* The three properties are not inductive: a boundary claim preserves      *)
(* NextWaitsForTerminal only because a row resolves to queue_next by being *)
(* requested so or by the promotion of a terminal commit, and an insertion *)
(* outside admit preserves the other two only because a stopped or         *)
(* terminal run has a row in the store.  RowInv and StoppedIsKnown say so. *)
(***************************************************************************)
RowInv(i, states) ==
    LET r == i.request.run IN
    /\ Requested(i) = "queue_next" => i.resolved_semantic = "queue_next"
    /\ i.resolved_semantic = "queue_next" =>
          /\ IsMessage(i)
          /\ i.handoff_id
          /\ Requested(i) # "queue_next" => r \in Runs /\ states[r].phase = "terminal"
    /\ i.status = "queued" /\ IsMessage(i) /\ r \in Runs =>
          /\ ~states[r].stopped
          /\ states[r].phase = "terminal" => i.resolved_semantic = "queue_next"
          /\ i.resolved_semantic = "queue_next" /\ i.claimed_by # Nobody =>
                states[r].phase = "terminal"

StoppedIsKnown == \A r \in Runs : runs[r].stopped => runs[r].phase # "absent"

QueueInv ==
    /\ TypeOK
    /\ unrouted = {}
    /\ StoppedIsKnown
    /\ \A q \in QueueIds : RowInv(items[q], runs)

LEMMA QueueInvImplies ==
    QueueInv => MessagesHaveTheirPlace
  BY DEF MessagesHaveTheirPlace, QueueInv, RowInv, StopLeavesNoMessage, TerminalLeavesOnlyNext,
         NextWaitsForTerminal, list_pending, QueueIds, Queued, Unclaimed, TypeOK

\* A single row changes, no run does.
LEMMA UpdateInv ==
    ASSUME QueueInv, TypeOK', NEW q \in QueueIds, NEW new, Update(q, new),
           UNCHANGED runs, RowInv(new, runs)
    PROVE  QueueInv'
  <1>1. StoppedIsKnown'
    BY DEF QueueInv, StoppedIsKnown
  <1>2. QueueIds' = QueueIds
    BY DEF Update, QueueIds
  <1>3. \A p \in QueueIds : items'[p] = new \/ items'[p] = items[p]
    BY DEF Update, QueueInv, TypeOK, QueueIds
  <1>4. \A p \in QueueIds : RowInv(items'[p], runs)
    BY <1>3 DEF QueueInv
  <1> QED BY <1>1, <1>2, <1>4 DEF QueueInv, Update

\* A row is added, and rows and runs change into ones that keep RowInv.
LEMMA InsertInv ==
    ASSUME QueueInv, TypeOK', StoppedIsKnown', UNCHANGED unrouted, NEW rows, NEW new, Insert(rows, new),
           RowInv(new, runs'), \A q \in QueueIds : RowInv(rows[q], runs')
    PROVE  QueueInv'
  <1>1. count \in Nat
    BY BoundsAssumption DEF QueueInv, TypeOK
  <1>2. QueueIds' = QueueIds \cup {count + 1}
    BY <1>1 DEF Insert, QueueIds
  <1>3. \A p \in QueueIds' : items'[p] = new \/ (p \in QueueIds /\ items'[p] = rows[p])
    BY <1>1, <1>2 DEF Insert, QueueIds
  <1>4. \A p \in QueueIds' : RowInv(items'[p], runs')
    BY <1>3
  <1> QED BY <1>4 DEF QueueInv

\* Settling a row, by whoever does it, keeps RowInv.
LEMMA SettleInv ==
    ASSUME NEW i \in Item, NEW states, RowInv(i, states)
    PROVE  /\ \A error : RowInv(Failed(i, error), states)
           /\ \A reason : RowInv(Cancelled(i, reason), states)
           /\ \A phase : RowInv(Applied(i, phase), states)
  <1>1. \A error : RowInv(Failed(i, error), states)
    BY DEF Failed, RowInv, Item, Requested, IsMessage
  <1>2. \A reason : RowInv(Cancelled(i, reason), states)
    BY DEF Cancelled, RowInv, Item, Requested, IsMessage
  <1>3. \A phase : RowInv(Applied(i, phase), states)
    <2> SUFFICES ASSUME NEW phase PROVE RowInv(Applied(i, phase), states)
      OBVIOUS
    <2> DEFINE j == Applied(i, phase)
    <2>1. /\ j.request = i.request /\ j.status = "applied"
          /\ i.handoff_id => j.handoff_id
          /\ \/ j.resolved_semantic = i.resolved_semantic
             \/ Requested(i) = "redirect_current" /\ j.resolved_semantic = "steer_current"
      BY DEF Applied, Item
    <2>2. Requested(j) = Requested(i)
      BY <2>1 DEF Requested
    <2>3. RowInv(j, states)
      <3> HIDE DEF j
      <3> QED BY <2>1, <2>2 DEF RowInv, IsMessage
    <2> QED BY <2>3
  <1> QED BY <1>1, <1>2, <1>3

\* A terminal commit establishes RowInv for the rows of its run.
LEMMA AtTerminalInv ==
    ASSUME NEW i \in Item, NEW r \in Runs, i.request.run = r, NEW stop \in BOOLEAN,
           i.status = "queued", RowInv(i, runs), TypeOK,
           NEW states, states[r].phase = "terminal", states[r].stopped = stop
    PROVE  RowInv(AtTerminal(i, stop, runs[r].phase), states)
  <1> DEFINE j == AtTerminal(i, stop, runs[r].phase)
  <1>1. CASE Requested(i) = "stop" /\ stop
    <2>1. j = Applied(i, runs[r].phase)
      BY <1>1 DEF AtTerminal, IsMessage, MessageSemantic
    <2>2. j.request = i.request /\ j.resolved_semantic = i.resolved_semantic
      BY <1>1, <2>1 DEF Applied, Item
    <2>3. Requested(j) = "stop"
      BY <1>1, <2>2 DEF Requested
    <2>4. i.resolved_semantic # "queue_next"
      BY <1>1 DEF RowInv, IsMessage, MessageSemantic
    <2> HIDE DEF j
    <2>5. RowInv(j, states)
      BY <2>2, <2>3, <2>4 DEF RowInv, IsMessage, MessageSemantic
    <2> QED BY <2>5 DEF j
  <1>2. CASE IsMessage(i) /\ stop
    <2>1. j = Failed(i, "run_stopped")
      BY <1>2 DEF AtTerminal, IsMessage, MessageSemantic
    <2>2. /\ j.request = i.request /\ j.resolved_semantic = i.resolved_semantic
          /\ j.status = "failed"
          /\ i.handoff_id => j.handoff_id
      BY <2>1 DEF Failed, Item
    <2>3. Requested(j) = Requested(i)
      BY <2>2 DEF Requested
    <2>4. RowInv(j, states)
      <3> HIDE DEF j
      <3> QED BY <2>2, <2>3 DEF RowInv, IsMessage
    <2> QED BY <2>4
  <1>3. CASE IsMessage(i) /\ ~stop /\ Requested(i) # "queue_next"
    <2>1. j = Promoted(i)
      BY <1>3 DEF AtTerminal, IsMessage, MessageSemantic
    <2>2. /\ j.request = i.request /\ j.resolved_semantic = "queue_next"
          /\ j.handoff_id /\ j.claimed_by = Nobody
      BY <2>1 DEF Promoted, Item
    <2>3. Requested(j) = Requested(i)
      BY <2>2 DEF Requested
    <2>4. RowInv(j, states)
      <3> HIDE DEF j
      <3> QED BY <1>3, <2>2, <2>3 DEF RowInv, IsMessage
    <2> QED BY <2>4
  <1>4. CASE /\ ~(Requested(i) = "stop" /\ stop)
             /\ ~(IsMessage(i) /\ stop)
             /\ ~(IsMessage(i) /\ ~stop /\ Requested(i) # "queue_next")
    <2>1. j = i
      BY <1>4 DEF AtTerminal
    <2>2. RowInv(i, states)
      BY <1>4 DEF RowInv
    <2> QED BY <2>1, <2>2
  <1> QED BY <1>1, <1>2, <1>3, <1>4

\* Rows of other runs do not notice what happens to one run.
LEMMA OtherRunInv ==
    ASSUME NEW i, NEW r \in Runs, i.request.run # r, RowInv(i, runs), TypeOK,
           NEW states, \A s \in Runs \ {r} : states[s] = runs[s]
    PROVE  RowInv(i, states)
  BY DEF RowInv

LEMMA FreshRowInv ==
    ASSUME NEW req \in Requests, NEW generation,
           NEW states,
           req.run \in Runs => states[req.run].phase # "terminal" /\ ~states[req.run].stopped
    PROVE  RowInv(NewItem(req, generation), states)
  <1> DEFINE i == NewItem(req, generation)
             semantic == requested_semantic_for_request(req)
  <1>1. /\ i.request = req /\ i.resolved_semantic = semantic /\ i.claimed_by = Nobody
        /\ semantic = "queue_next" => i.handoff_id
    BY DEF NewItem
  <1>2. Requested(i) = semantic
    BY <1>1 DEF Requested
  <1>3. RowInv(i, states)
    <2> HIDE DEF i, semantic
    <2> QED BY <1>1, <1>2 DEF RowInv, IsMessage, MessageSemantic
  <1> QED BY <1>3

LEMMA AdmitInv ==
    ASSUME QueueInv, NEW req \in Requests, admit(req)
    PROVE  QueueInv'
  <1> DEFINE r == req.run
             new == NewItem(req, runs[r].llm_generation)
  <1>1. TypeOK'
    BY AdmitType DEF QueueInv
  <1> UNCHANGED unrouted
    BY DEF admit
  <1>2. /\ r \in Runs
        /\ runs[r].phase \notin {"absent", "unknown", "terminal"}
        /\ ~runs[r].stopped
    BY RequestsAssumption DEF admit, AdmitAnswer, DedupeAnswer, ControlRequest
  <1>3. RowInv(new, runs)
    BY <1>2, FreshRowInv
  <1>4. CASE requested_semantic_for_request(req) # "stop"
    <2>1. UNCHANGED runs /\ Insert(items, new)
      BY <1>4 DEF admit
    <2>2. StoppedIsKnown'
      BY <2>1 DEF QueueInv, StoppedIsKnown
    <2>3. \A q \in QueueIds : RowInv(items[q], runs')
      BY <2>1 DEF QueueInv
    <2>4. RowInv(new, runs')
      BY <1>3, <2>1
    <2> QED BY <1>1, <2>1, <2>2, <2>3, <2>4, InsertInv
  <1>5. CASE requested_semantic_for_request(req) = "stop"
    <2> DEFINE stop == [new EXCEPT !.reason_code = "stop_accepted"]
    <2>1. /\ runs' = [runs EXCEPT ![r].stopped = TRUE]
          /\ Insert(StopPreempts(r), stop)
      BY <1>5 DEF admit
    <2>2. /\ runs'[r].phase = runs[r].phase
          /\ \A s \in Runs \ {r} : runs'[s] = runs[s]
      BY <1>2, <2>1 DEF QueueInv, TypeOK, LiveRunState
    <2>3. StoppedIsKnown'
      BY <1>2, <2>2 DEF QueueInv, StoppedIsKnown
    <2>4. RowInv(stop, runs')
      <3>1. stop.request = req /\ stop.resolved_semantic = "stop"
        BY <1>5 DEF NewItem
      <3>2. Requested(stop) = "stop"
        BY <1>5, <3>1 DEF Requested
      <3> HIDE DEF stop
      <3> QED BY <3>1, <3>2 DEF RowInv, IsMessage, MessageSemantic
    <2>5. ASSUME NEW q \in QueueIds PROVE RowInv(StopPreempts(r)[q], runs')
      <3>1. items[q] \in Item /\ RowInv(items[q], runs)
        BY DEF QueueInv, TypeOK, QueueIds
      <3>2. CASE items[q].request.run # r
        <4>1. StopPreempts(r)[q] = items[q]
          BY <3>2 DEF StopPreempts, list_pending
        <4> QED BY <1>2, <2>2, <3>1, <3>2, <4>1, OtherRunInv DEF QueueInv
      <3>3. CASE items[q].request.run = r
        <4> DEFINE i == items[q]
                   j == StopPreempts(r)[q]
        <4>1. /\ j.request = i.request /\ j.resolved_semantic = i.resolved_semantic
              /\ i.handoff_id => j.handoff_id
              /\ IsMessage(i) => j.status # "queued"
          <5>1. CASE q \in list_pending(r) /\ IsMessage(i)
            <6>1. j = Failed(i, "run_stopped")
              BY <5>1 DEF StopPreempts
            <6> QED BY <3>1, <6>1 DEF Failed, Item
          <5>2. CASE ~(q \in list_pending(r) /\ IsMessage(i))
            <6>1. j = i
              BY <5>2 DEF StopPreempts
            <6>2. IsMessage(i) => i.status # "queued"
              BY <3>3, <5>2 DEF list_pending, Queued
            <6> QED BY <6>1, <6>2
          <5> QED BY <5>1, <5>2
        <4>2. Requested(j) = Requested(i)
          BY <4>1 DEF Requested
        <4>3. RowInv(j, runs')
          <5> HIDE DEF j
          <5> QED BY <1>2, <2>2, <3>1, <3>3, <4>1, <4>2 DEF RowInv, IsMessage
        <4> QED BY <4>3
      <3> QED BY <3>2, <3>3
    <2> QED BY <1>1, <2>1, <2>3, <2>4, <2>5, InsertInv
  <1> QED BY <1>4, <1>5


\* An insertion outside admit: the run is not in the store or the control is no message.
LEMMA EnqueueUnroutedInv ==
    ASSUME QueueInv, TypeOK', NEW req \in Requests, ~RoutesToAdmit(req),
           EnqueueUnrouted(req), UNCHANGED unrouted
    PROVE  QueueInv'
  <1> DEFINE new == NewItem(req, 0)
  <1>1. RowInv(new, runs)
    <2>1. CASE requested_semantic_for_request(req) = "none"
      <3>1. new.request = req /\ new.resolved_semantic = "none"
        BY <2>1 DEF NewItem
      <3>2. Requested(new) = "none"
        BY <2>1, <3>1 DEF Requested
      <3>3. RowInv(new, runs)
        <4> HIDE DEF new
        <4> QED BY <3>1, <3>2 DEF RowInv, IsMessage, MessageSemantic
      <3> QED BY <3>3
    <2>2. CASE requested_semantic_for_request(req) # "none"
      <3>1. req.run \in Runs => runs[req.run].phase = "absent"
        BY <2>2, NullsAssumption DEF RoutesToAdmit
      <3>2. req.run \in Runs => runs[req.run].phase # "terminal" /\ ~runs[req.run].stopped
        BY <3>1 DEF QueueInv, StoppedIsKnown
      <3> QED BY <3>2, FreshRowInv
    <2> QED BY <2>1, <2>2
  <1>2. UNCHANGED runs /\ Insert(items, new)
    BY DEF EnqueueUnrouted
  <1>3. StoppedIsKnown' /\ RowInv(new, runs') /\ \A q \in QueueIds : RowInv(items[q], runs')
    BY <1>1, <1>2 DEF QueueInv, StoppedIsKnown
  <1> QED BY <1>2, <1>3, InsertInv

LEMMA CommitTerminalInv ==
    ASSUME QueueInv, TypeOK', NEW r \in Runs, NEW stopped \in BOOLEAN,
           commit_terminal(r, stopped)
    PROVE  QueueInv'
  <1> DEFINE stop == stopped \/ runs[r].stopped
  <1>1. stop \in BOOLEAN
    OBVIOUS
  <1>2. /\ runs'[r].phase = "terminal" /\ runs'[r].stopped = stop
        /\ \A s \in Runs \ {r} : runs'[s] = runs[s]
    BY DEF commit_terminal, QueueInv, TypeOK, LiveRunState
  <1>3. StoppedIsKnown'
    BY <1>2 DEF QueueInv, StoppedIsKnown
  <1>4. ASSUME NEW q \in QueueIds PROVE RowInv(items'[q], runs')
    <2>1. items[q] \in Item /\ RowInv(items[q], runs) /\ TypeOK
      BY DEF QueueInv, TypeOK, QueueIds
    <2>2. CASE q \in list_pending(r)
      <3>1. items'[q] = AtTerminal(items[q], stop, runs[r].phase)
        BY <2>2 DEF commit_terminal
      <3>2. items[q].request.run = r /\ items[q].status = "queued"
        BY <2>2 DEF list_pending, Queued
      <3> HIDE DEF stop
      <3> QED BY <1>1, <1>2, <2>1, <3>1, <3>2, AtTerminalInv
    <2>3. CASE q \notin list_pending(r) /\ items[q].request.run # r
      <3>1. items'[q] = items[q]
        BY <2>3 DEF commit_terminal
      <3> QED BY <1>2, <2>1, <2>3, <3>1, OtherRunInv
    <2>4. CASE q \notin list_pending(r) /\ items[q].request.run = r
      <3>1. items'[q] = items[q]
        BY <2>4 DEF commit_terminal
      <3>2. items[q].status # "queued"
        BY <2>4 DEF list_pending, Queued
      <3> QED BY <1>2, <2>1, <2>4, <3>1, <3>2 DEF RowInv
    <2> QED BY <2>2, <2>3, <2>4
  <1>5. QueueIds' = QueueIds /\ unrouted' = {}
    BY DEF commit_terminal, QueueIds, QueueInv
  <1> QED BY <1>3, <1>4, <1>5 DEF QueueInv

\* The run's phase or generation moves, and rows change only in ways that keep RowInv.
LEMMA RunMovesInv ==
    ASSUME QueueInv, TypeOK', QueueIds' = QueueIds, UNCHANGED unrouted, NEW r \in Runs,
           NEW new \in LiveRunState, runs' = [runs EXCEPT ![r] = new],
           new.stopped = runs[r].stopped, new.phase # "terminal", new.phase # "absent",
           runs[r].phase # "terminal",
           \A q \in QueueIds : RowInv(items'[q], runs)
    PROVE  QueueInv'
  <1>1. \A s \in Runs : /\ runs'[s].stopped = runs[s].stopped
                        /\ runs'[s].phase = "terminal" <=> runs[s].phase = "terminal"
                        /\ runs'[s].phase = "absent" => runs[s].phase = "absent"
    BY DEF QueueInv, TypeOK
  <1>2. StoppedIsKnown'
    BY <1>1 DEF QueueInv, StoppedIsKnown
  <1>3. ASSUME NEW q \in QueueIds PROVE RowInv(items'[q], runs')
    <2>1. RowInv(items'[q], runs)
      OBVIOUS
    <2> QED BY <1>1, <2>1 DEF RowInv
  <1> QED BY <1>2, <1>3 DEF QueueInv

\* A claim keeps RowInv of a row that is not NEXT or whose run is terminal.
LEMMA ClaimInv ==
    ASSUME NEW i \in Item, RowInv(i, runs), NEW c,
           \/ i.resolved_semantic # "queue_next"
           \/ i.request.run \in Runs => runs[i.request.run].phase = "terminal"
    PROVE  /\ RowInv([i EXCEPT !.claimed_by = c], runs)
           /\ RowInv([i EXCEPT !.claimed_by = c, !.handoff_id = TRUE], runs)
  <1>1. RowInv([i EXCEPT !.claimed_by = c], runs)
    BY DEF RowInv, Item, Requested, IsMessage
  <1>2. RowInv([i EXCEPT !.claimed_by = c, !.handoff_id = TRUE], runs)
    BY DEF RowInv, Item, Requested, IsMessage
  <1> QED BY <1>1, <1>2

LEMMA HardRedirectInv ==
    ASSUME QueueInv, TypeOK', NEW r \in Runs, NEW c \in Claimants, NEW q \in QueueIds,
           claim_hard_redirect(r, c, runs[r].llm_generation, q)
    PROVE  QueueInv'
  <1> DEFINE i == items[q]
             generation == runs[r].llm_generation
             new == [runs[r] EXCEPT !.llm_generation = generation + 1]
             j == [i EXCEPT !.claimed_by = c, !.resolved_semantic = "redirect_current",
                            !.reason_code = "redirect_claimed",
                            !.llm_generation = generation + 1]
  <1>1. i \in Item /\ RowInv(i, runs)
    BY DEF QueueInv, TypeOK, QueueIds
  <1>2. /\ runs[r].phase = "llm_in_flight" /\ Requested(i) = "redirect_current"
        /\ i.request.run = r
    BY DEF claim_hard_redirect, IsFirst, UnclaimedRedirects, list_pending
  <1>3. /\ j.request = i.request /\ j.resolved_semantic = "redirect_current"
        /\ j.status = i.status
    BY <1>1 DEF Item
  <1>4. Requested(j) = "redirect_current"
    BY <1>2, <1>3 DEF Requested
  <1>5. RowInv(j, runs)
    <2> HIDE DEF j
    <2> QED BY <1>1, <1>2, <1>3, <1>4 DEF RowInv, IsMessage
  <1>6. Update(q, j)
    BY DEF claim_hard_redirect
  <1>7. \A p \in QueueIds : RowInv(items'[p], runs)
    <2> HIDE DEF j
    <2>1. \A p \in QueueIds : items'[p] = j \/ items'[p] = items[p]
      BY <1>6 DEF Update, QueueInv, TypeOK, QueueIds
    <2> QED BY <1>5, <2>1 DEF QueueInv
  <1>8. runs[r] \in LiveRunState
    BY DEF QueueInv, TypeOK
  <1>9. /\ new \in LiveRunState /\ new.stopped = runs[r].stopped
        /\ new.phase = "llm_in_flight"
    BY <1>2, <1>8 DEF LiveRunState
  <1>10. runs' = [runs EXCEPT ![r] = new]
    BY DEF claim_hard_redirect
  <1>11. QueueIds' = QueueIds /\ UNCHANGED unrouted
    BY <1>6 DEF Update, QueueIds
  <1> HIDE DEF new
  <1> QED BY <1>2, <1>7, <1>9, <1>10, <1>11, RunMovesInv

LEMMA SetRunPhaseInv ==
    ASSUME QueueInv, TypeOK', NEW r \in Runs, NEW phase \in ActivePhase,
           set_run_phase(r, phase)
    PROVE  QueueInv'
  <1> DEFINE new == [runs[r] EXCEPT !.phase = phase]
  <1>1. runs[r] \in LiveRunState
    BY DEF QueueInv, TypeOK
  <1>2. /\ new \in LiveRunState /\ new.stopped = runs[r].stopped
        /\ new.phase # "terminal" /\ new.phase # "absent"
    BY <1>1 DEF LiveRunState, LiveMessagePhase, ActivePhase
  <1>3. /\ runs' = [runs EXCEPT ![r] = new] /\ runs[r].phase # "terminal"
        /\ UNCHANGED <<items, count, unrouted>>
    BY DEF set_run_phase
  <1>4. QueueIds' = QueueIds /\ \A q \in QueueIds : RowInv(items'[q], runs)
    BY <1>3 DEF QueueIds, QueueInv
  <1> HIDE DEF new
  <1> QED BY <1>2, <1>3, <1>4, RunMovesInv

LEMMA QueueInvStep ==
    ASSUME AtomicEnqueue, QueueInv, [Next]_vars
    PROVE  QueueInv'
  <1>1. TypeOK'
    BY TypeStep DEF QueueInv
  <1>2. \A q \in QueueIds : items[q] \in Item /\ RowInv(items[q], runs)
    BY DEF QueueInv, TypeOK, QueueIds
  <1>3. CASE UNCHANGED vars
    BY <1>3 DEF vars, QueueInv, TypeOK, StoppedIsKnown, QueueIds
  <1>4. ASSUME NEW req \in Requests, enqueue(req) PROVE QueueInv'
    BY <1>1, <1>4, AdmitInv, EnqueueUnroutedInv DEF enqueue
  <1>5. ASSUME NEW req \in Requests, EnqueueLocked(req) PROVE QueueInv'
    BY <1>5 DEF EnqueueLocked, QueueInv
  <1>6. ASSUME NEW q \in QueueIds, cancel(q) \/ cancel_next(q) PROVE QueueInv'
    <2>1. PICK reason : Update(q, Cancelled(items[q], reason))
      BY <1>6 DEF cancel, cancel_next
    <2>2. UNCHANGED runs
      BY <1>6 DEF cancel, cancel_next
    <2> QED BY <1>1, <1>2, <2>1, <2>2, SettleInv, UpdateInv
  <1>7. ASSUME NEW r \in Runs, NEW c \in Claimants, NEW q \in QueueIds,
               claim_for_boundary(r, c, q)
        PROVE  QueueInv'
    <2>1. /\ runs[r].phase # "terminal" /\ items[q].request.run = r
          /\ Requested(items[q]) # "queue_next"
      BY <1>7 DEF claim_for_boundary, IsFirst, BoundaryEligible, list_pending
    <2>2. items[q].resolved_semantic # "queue_next"
      BY <1>2, <2>1 DEF RowInv
    <2>3. RowInv([items[q] EXCEPT !.claimed_by = c], runs)
      BY <1>2, <2>2, ClaimInv
    <2> QED BY <1>1, <1>7, <2>3, UpdateInv DEF claim_for_boundary
  <1>8. ASSUME NEW q \in QueueIds, NEW c, NEW phase, mark_applied(q, c, phase)
        PROVE  QueueInv'
    BY <1>1, <1>2, <1>8, SettleInv, UpdateInv DEF mark_applied
  <1>9. ASSUME NEW q \in QueueIds, mark_failed(q, "error") PROVE QueueInv'
    BY <1>1, <1>2, <1>9, SettleInv, UpdateInv DEF mark_failed
  <1>10. ASSUME NEW q \in QueueIds, NEW c, release_claim(q, c) PROVE QueueInv'
    <2>1. RowInv([items[q] EXCEPT !.claimed_by = Nobody], runs)
      BY <1>2 DEF RowInv, Item, Requested, IsMessage
    <2> QED BY <1>1, <1>10, <2>1, UpdateInv DEF release_claim
  <1>11. ASSUME NEW r \in Runs, NEW c \in Claimants, NEW q \in QueueIds,
                claim_next_handoff(r, c, q)
         PROVE  QueueInv'
    <2>1. runs[r].phase = "terminal" /\ items[q].request.run = r
      BY <1>11 DEF claim_next_handoff, IsFirst, HandoffEligible, list_pending
    <2>2. RowInv([items[q] EXCEPT !.claimed_by = c, !.handoff_id = TRUE], runs)
      BY <1>2, <2>1, ClaimInv
    <2> QED BY <1>1, <1>11, <2>2, UpdateInv DEF claim_next_handoff
  <1>12. ASSUME NEW q \in QueueIds, NEW c, NEW turn \in Turns, complete_handoff(q, c, turn)
         PROVE  QueueInv'
    <2> DEFINE j == [items[q] EXCEPT !.status = "applied", !.destination_turn_id = turn,
                                     !.reason_code = "next_handoff_completed",
                                     !.claimed_by = Nobody]
    <2>1. RowInv(j, runs)
      BY <1>2 DEF RowInv, Item, Requested, IsMessage
    <2>2. Update(q, j) /\ UNCHANGED runs
      BY <1>12 DEF complete_handoff
    <2> HIDE DEF j
    <2> QED BY <1>1, <2>1, <2>2, UpdateInv
  <1>13. CASE HostStep
    BY <1>4, <1>5, <1>6, <1>13, AdmitInv DEF HostStep
  <1>14. CASE WorkerStep
    BY <1>1, <1>7, <1>8, <1>9, <1>10, <1>14, SetRunPhaseInv, HardRedirectInv,
       CommitTerminalInv DEF WorkerStep, stop_run
  <1>15. CASE DispatcherStep
    BY <1>11, <1>12, <1>15 DEF DispatcherStep
  <1> QED BY <1>3, <1>13, <1>14, <1>15 DEF Next

\* For the stores whose enqueue is one atomic call (SQLite and Postgres run it inside
\* _mutate), whatever callers do and in whatever order: Stop leaves no message pending,
\* a terminal commit leaves only NEXT messages, and a NEXT message is claimed only
\* once its run is terminal and was not stopped.
THEOREM QueueSafety ==
    ASSUME AtomicEnqueue
    PROVE  Spec => []MessagesHaveTheirPlace
  <1>1. Init => QueueInv
    <2>1. Init => TypeOK
      BY BoundsAssumption DEF Init, TypeOK, LiveRunState, LiveMessagePhase
    <2> QED BY <2>1 DEF Init, QueueInv, StoppedIsKnown, QueueIds
  <1>2. QueueInv /\ [Next]_vars => QueueInv'
    BY QueueInvStep
  <1> QED BY <1>1, <1>2, QueueInvImplies, PTL DEF Spec

-----------------------------------------------------------------------------
(***************************************************************************)
(* What a step may do to a row: nothing at all once the row is settled;    *)
(* otherwise the row keeps its request and the generation that accepted    *)
(* it, and a claim is kept or given up, never handed on or cancelled.      *)
(***************************************************************************)
RowMoves(i, j) ==
    \/ j = i
    \/ /\ i.status = "queued"
       /\ j.request = i.request
       /\ j.source_generation = i.source_generation
       /\ j.status # "queued" => j.claimed_by = Nobody
       /\ i.claimed_by # Nobody =>
             j.claimed_by \in {i.claimed_by, Nobody} /\ j.status # "cancelled"

LEMMA SettlingMoves ==
    ASSUME NEW i \in Item, i.status = "queued"
    PROVE  /\ \A error : RowMoves(i, Failed(i, error))
           /\ \A phase : RowMoves(i, Applied(i, phase))
           /\ RowMoves(i, Promoted(i))
           /\ i.claimed_by = Nobody => \A reason : RowMoves(i, Cancelled(i, reason))
  <1>1. \A error : RowMoves(i, Failed(i, error))
    BY DEF RowMoves, Failed, Item
  <1>2. ASSUME NEW phase PROVE RowMoves(i, Applied(i, phase))
    <2> DEFINE j == Applied(i, phase)
    <2>1. /\ j.request = i.request /\ j.source_generation = i.source_generation
          /\ j.claimed_by = Nobody /\ j.status = "applied"
      BY DEF Applied, Item
    <2> HIDE DEF j
    <2>2. RowMoves(i, j)
      BY <2>1 DEF RowMoves
    <2> QED BY <2>2 DEF j
  <1>3. RowMoves(i, Promoted(i))
    BY DEF RowMoves, Promoted, Item
  <1>4. i.claimed_by = Nobody => \A reason : RowMoves(i, Cancelled(i, reason))
    BY DEF RowMoves, Cancelled, Item
  <1> QED BY <1>1, <1>2, <1>3, <1>4

LEMMA UpdateMoves ==
    ASSUME TypeOK, NEW q \in QueueIds, NEW new, Update(q, new), RowMoves(items[q], new)
    PROVE  \A p \in QueueIds : p \in QueueIds' /\ RowMoves(items[p], items'[p])
  <1>1. \A p \in QueueIds : (p = q /\ items'[p] = new) \/ items'[p] = items[p]
    BY DEF Update, TypeOK, QueueIds
  <1> QED BY <1>1 DEF RowMoves, Update, QueueIds

LEMMA InsertMoves ==
    ASSUME TypeOK, NEW rows, NEW new, Insert(rows, new),
           \A q \in QueueIds : RowMoves(items[q], rows[q])
    PROVE  \A q \in QueueIds : q \in QueueIds' /\ RowMoves(items[q], items'[q])
  <1>1. count \in Nat
    BY BoundsAssumption DEF TypeOK
  <1>2. \A q \in QueueIds : q \in QueueIds' /\ items'[q] = rows[q]
    BY <1>1 DEF Insert, QueueIds
  <1> QED BY <1>2

LEMMA AdmitMoves ==
    ASSUME TypeOK, NEW req \in Requests, admit(req)
    PROVE  \A q \in QueueIds : q \in QueueIds' /\ RowMoves(items[q], items'[q])
  <1> DEFINE new == NewItem(req, runs[req.run].llm_generation)
  <1>1. \A q \in QueueIds : RowMoves(items[q], items[q])
    BY DEF RowMoves
  <1>2. ASSUME NEW q \in QueueIds PROVE RowMoves(items[q], StopPreempts(req.run)[q])
    <2>1. items[q] \in Item
      BY DEF TypeOK, QueueIds
    <2>2. CASE q \in list_pending(req.run) /\ IsMessage(items[q])
      BY <2>1, <2>2, SettlingMoves DEF StopPreempts, list_pending, Queued
    <2>3. CASE ~(q \in list_pending(req.run) /\ IsMessage(items[q]))
      BY <2>3, <1>1 DEF StopPreempts
    <2> QED BY <2>2, <2>3
  <1>3. \/ Insert(StopPreempts(req.run), [new EXCEPT !.reason_code = "stop_accepted"])
        \/ Insert(items, new)
    BY DEF admit
  <1> HIDE DEF new
  <1> QED BY <1>1, <1>2, <1>3, InsertMoves

LEMMA RowsMove ==
    ASSUME TypeOK, [Next]_vars
    PROVE  \A q \in QueueIds : q \in QueueIds' /\ RowMoves(items[q], items'[q])
  <1> DEFINE Goal == \A q \in QueueIds : q \in QueueIds' /\ RowMoves(items[q], items'[q])
  <1>1. \A q \in QueueIds : items[q] \in Item /\ RowMoves(items[q], items[q])
    BY DEF TypeOK, QueueIds, RowMoves
  <1>2. ASSUME UNCHANGED <<items, count>> PROVE Goal
    BY <1>1, <1>2 DEF QueueIds
  <1>3. ASSUME NEW req \in Requests, EnqueueUnrouted(req) PROVE Goal
    BY <1>1, <1>3, InsertMoves DEF EnqueueUnrouted
  <1>4. CASE HostStep
    <2>1. ASSUME NEW req \in Requests, enqueue(req) \/ EnqueueLocked(req) PROVE Goal
      BY <1>2, <1>3, <2>1, AdmitMoves DEF enqueue, EnqueueLocked
    <2>2. ASSUME NEW q \in QueueIds, cancel(q) \/ cancel_next(q) PROVE Goal
      <3>1. PICK reason : Update(q, Cancelled(items[q], reason))
        BY <2>2 DEF cancel, cancel_next
      <3>2. items[q].status = "queued" /\ items[q].claimed_by = Nobody
        BY <2>2 DEF cancel, cancel_next, Queued, Unclaimed
      <3> QED BY <1>1, <3>1, <3>2, SettlingMoves, UpdateMoves
    <2> QED BY <1>4, <2>1, <2>2, AdmitMoves DEF HostStep
  <1>5. CASE WorkerStep
    <2>1. ASSUME NEW r \in Runs, NEW phase, set_run_phase(r, phase) PROVE Goal
      BY <1>2, <2>1 DEF set_run_phase
    <2>2. ASSUME NEW r \in Runs, NEW c, NEW q \in QueueIds, claim_for_boundary(r, c, q)
          PROVE  Goal
      <3>1. items[q].status = "queued" /\ items[q].claimed_by = Nobody
        BY <2>2 DEF claim_for_boundary, IsFirst, BoundaryEligible, list_pending, Queued,
                    Unclaimed
      <3>2. RowMoves(items[q], [items[q] EXCEPT !.claimed_by = c])
        BY <1>1, <3>1 DEF RowMoves, Item
      <3> QED BY <2>2, <3>2, UpdateMoves DEF claim_for_boundary
    <2>3. ASSUME NEW r \in Runs, NEW c, NEW q \in QueueIds,
                 claim_hard_redirect(r, c, runs[r].llm_generation, q)
          PROVE  Goal
      <3> DEFINE new == [items[q] EXCEPT !.claimed_by = c,
                                         !.resolved_semantic = "redirect_current",
                                         !.reason_code = "redirect_claimed",
                                         !.llm_generation = runs[r].llm_generation + 1]
      <3>1. items[q].status = "queued" /\ items[q].claimed_by = Nobody
        BY <2>3 DEF claim_hard_redirect, IsFirst, UnclaimedRedirects, list_pending, Queued,
                    Unclaimed
      <3>2. RowMoves(items[q], new)
        BY <1>1, <3>1 DEF RowMoves, Item
      <3>3. Update(q, new)
        BY <2>3 DEF claim_hard_redirect
      <3> QED BY <3>2, <3>3, UpdateMoves
    <2>4. ASSUME NEW q \in QueueIds, NEW c, NEW phase, mark_applied(q, c, phase) PROVE Goal
      BY <1>1, <2>4, SettlingMoves, UpdateMoves DEF mark_applied, Queued
    <2>5. ASSUME NEW q \in QueueIds, mark_failed(q, "error") PROVE Goal
      BY <1>1, <2>5, SettlingMoves, UpdateMoves DEF mark_failed, Queued
    <2>6. ASSUME NEW q \in QueueIds, NEW c, release_claim(q, c) PROVE Goal
      <3>1. RowMoves(items[q], [items[q] EXCEPT !.claimed_by = Nobody])
        BY <1>1, <2>6 DEF RowMoves, Item, release_claim, Queued
      <3> QED BY <2>6, <3>1, UpdateMoves DEF release_claim
    <2>7. ASSUME NEW r \in Runs, NEW stopped, commit_terminal(r, stopped) PROVE Goal
      <3>1. ASSUME NEW q \in QueueIds PROVE RowMoves(items[q], items'[q])
        <4>1. CASE q \in list_pending(r)
          <5>1. items'[q] = AtTerminal(items[q], stopped \/ runs[r].stopped, runs[r].phase)
            BY <2>7, <4>1 DEF commit_terminal
          <5>2. items'[q] \in {items[q], Applied(items[q], runs[r].phase),
                               Failed(items[q], "run_stopped"), Promoted(items[q])}
            BY <5>1 DEF AtTerminal
          <5> QED BY <1>1, <4>1, <5>2, SettlingMoves DEF list_pending, Queued
        <4>2. CASE q \notin list_pending(r)
          BY <1>1, <2>7, <4>2 DEF commit_terminal
        <4> QED BY <4>1, <4>2
      <3> QED BY <2>7, <3>1 DEF commit_terminal, QueueIds
    <2> QED BY <1>5, <2>1, <2>2, <2>3, <2>4, <2>5, <2>6, <2>7 DEF WorkerStep, stop_run
  <1>6. CASE DispatcherStep
    <2>1. ASSUME NEW r \in Runs, NEW c, NEW q \in QueueIds, claim_next_handoff(r, c, q)
          PROVE  Goal
      <3>1. items[q].status = "queued" /\ items[q].claimed_by \in {Nobody, c}
        BY <2>1 DEF claim_next_handoff, IsFirst, HandoffEligible, list_pending, Queued
      <3>2. RowMoves(items[q], [items[q] EXCEPT !.claimed_by = c, !.handoff_id = TRUE])
        BY <1>1, <3>1 DEF RowMoves, Item
      <3> QED BY <2>1, <3>2, UpdateMoves DEF claim_next_handoff
    <2>2. ASSUME NEW c, NEW q \in QueueIds, NEW turn, complete_handoff(q, c, turn) PROVE Goal
      <3> DEFINE new == [items[q] EXCEPT !.status = "applied", !.destination_turn_id = turn,
                                         !.reason_code = "next_handoff_completed",
                                         !.claimed_by = Nobody]
      <3>1. RowMoves(items[q], new)
        BY <1>1, <2>2 DEF RowMoves, Item, complete_handoff, Queued
      <3>2. Update(q, new)
        BY <2>2 DEF complete_handoff
      <3> QED BY <3>1, <3>2, UpdateMoves
    <2> QED BY <1>6, <2>1, <2>2 DEF DispatcherStep
  <1>7. CASE UNCHANGED vars
    BY <1>2, <1>7 DEF vars
  <1> QED BY <1>4, <1>5, <1>6, <1>7 DEF Next

LEMMA RunsMove ==
    ASSUME TypeOK, [Next]_vars
    PROVE  \A r \in Runs :
              /\ runs[r].phase = "terminal" => runs'[r].phase = "terminal"
              /\ runs[r].stopped => runs'[r].stopped
              /\ runs'[r].llm_generation >= runs[r].llm_generation
  <1> DEFINE Goal == \A r \in Runs :
                        /\ runs[r].phase = "terminal" => runs'[r].phase = "terminal"
                        /\ runs[r].stopped => runs'[r].stopped
                        /\ runs'[r].llm_generation >= runs[r].llm_generation
  <1>1. \A r \in Runs : runs[r] \in LiveRunState
    BY DEF TypeOK
  <1>2. ASSUME UNCHANGED runs PROVE Goal
    BY <1>1, <1>2 DEF LiveRunState
  <1>3. ASSUME NEW req \in Requests, admit(req) PROVE Goal
    <2>1. runs' = [runs EXCEPT ![req.run].stopped = TRUE] \/ UNCHANGED runs
      BY <1>3 DEF admit
    <2>2. req.run \in Runs
      BY <1>3, RequestsAssumption DEF admit, AdmitAnswer, ControlRequest
    <2> QED BY <1>1, <1>2, <2>1, <2>2 DEF TypeOK, LiveRunState
  <1>4. CASE HostStep
    BY <1>2, <1>3, <1>4 DEF HostStep, enqueue, EnqueueUnrouted, EnqueueLocked, cancel, cancel_next
  <1>5. CASE WorkerStep
    <2>1. ASSUME NEW r \in Runs, NEW phase \in ActivePhase, set_run_phase(r, phase) PROVE Goal
      BY <1>1, <2>1 DEF set_run_phase, TypeOK, LiveRunState
    <2>2. ASSUME NEW r \in Runs, NEW c, NEW q,
                 claim_hard_redirect(r, c, runs[r].llm_generation, q)
          PROVE  Goal
      BY <1>1, <2>2 DEF claim_hard_redirect, TypeOK, LiveRunState
    <2>3. ASSUME NEW r \in Runs, NEW stopped \in BOOLEAN, commit_terminal(r, stopped)
          PROVE  Goal
      BY <1>1, <2>3 DEF commit_terminal, TypeOK, LiveRunState
    <2> QED BY <1>2, <1>5, <2>1, <2>2, <2>3
            DEF WorkerStep, stop_run, claim_for_boundary, mark_applied, mark_failed, release_claim
  <1>6. CASE DispatcherStep
    BY <1>2, <1>6 DEF DispatcherStep, claim_next_handoff, complete_handoff
  <1>7. CASE UNCHANGED vars
    BY <1>2, <1>7 DEF vars
  <1> QED BY <1>4, <1>5, <1>6, <1>7 DEF Next

\* Only a queued row is claimed: whoever settles a row gives its claim up with it.
SettledIsFree == \A q \in QueueIds : items[q].claimed_by # Nobody => items[q].status = "queued"

\* What a new row is: the last one, for a request whose key no row has, pending as
\* requested, unclaimed, without a generation of its own, accepted in its run's present
\* generation or outside a run.
InsertedRow(i) ==
    /\ i.request \in Requests
    /\ DedupeMatches(i.request) = {}
    /\ i.status = "queued" /\ i.resolved_semantic = Requested(i)
    /\ i.claimed_by = Nobody
    /\ i.llm_generation = 0
    /\ \/ i.source_generation = 0
       \/ i.request.run \in Runs /\ i.source_generation = runs[i.request.run].llm_generation

LEMMA RowIsInserted ==
    ASSUME TypeOK, [Next]_vars, NEW q \in QueueIds', q \notin QueueIds
    PROVE  q = count + 1 /\ InsertedRow(items'[q])
  <1> DEFINE Goal == q = count + 1 /\ InsertedRow(items'[q])
  <1>1. ASSUME NEW rows, NEW new, Insert(rows, new), InsertedRow(new) PROVE Goal
    <2>1. count \in Nat
      BY BoundsAssumption DEF TypeOK
    <2>2. q = count + 1
      BY <1>1, <2>1 DEF Insert, QueueIds
    <2>3. items'[q] = new
      BY <1>1, <2>1, <2>2 DEF Insert
    <2> QED BY <1>1, <2>2, <2>3
  <1>2. ASSUME NEW req \in Requests, admit(req) PROVE Goal
    <2> DEFINE new == NewItem(req, runs[req.run].llm_generation)
               stop == [new EXCEPT !.reason_code = "stop_accepted"]
    <2>1. Insert(StopPreempts(req.run), stop) \/ Insert(items, new)
      BY <1>2 DEF admit
    <2>2. req.run \in Runs /\ DedupeMatches(req) = {}
      BY <1>2, RequestsAssumption DEF admit, AdmitAnswer, DedupeAnswer, ControlRequest
    <2>3. /\ new.request = req /\ new.claimed_by = Nobody /\ new.llm_generation = 0
          /\ new.source_generation = runs[req.run].llm_generation
          /\ new.status = "queued" /\ new.resolved_semantic = requested_semantic_for_request(req)
      BY DEF NewItem
    <2>4. /\ stop.request = req /\ stop.claimed_by = Nobody /\ stop.llm_generation = 0
          /\ stop.source_generation = runs[req.run].llm_generation
          /\ stop.status = "queued" /\ stop.resolved_semantic = requested_semantic_for_request(req)
      BY DEF NewItem
    <2> HIDE DEF new, stop
    <2>5. InsertedRow(new) /\ InsertedRow(stop)
      BY <2>2, <2>3, <2>4 DEF InsertedRow, Requested
    <2> QED BY <1>1, <2>1, <2>5
  <1>3. ASSUME NEW req \in Requests, EnqueueUnrouted(req) PROVE Goal
    <2> DEFINE new == NewItem(req, 0)
    <2>1. Insert(items, new) /\ DedupeMatches(req) = {}
      BY <1>3 DEF EnqueueUnrouted
    <2>2. /\ new.request = req /\ new.claimed_by = Nobody /\ new.llm_generation = 0
          /\ new.source_generation = 0
          /\ new.status = "queued" /\ new.resolved_semantic = requested_semantic_for_request(req)
      BY DEF NewItem
    <2> HIDE DEF new
    <2>3. InsertedRow(new)
      BY <2>1, <2>2 DEF InsertedRow, Requested
    <2> QED BY <1>1, <2>1, <2>3
  <1>4. count' # count
    BY DEF QueueIds
  <1>5. \/ \E req \in Requests : admit(req) \/ EnqueueUnrouted(req)
        \/ UNCHANGED count
    BY DEF Next, HostStep, WorkerStep, DispatcherStep, enqueue, EnqueueLocked, cancel, cancel_next,
           set_run_phase, claim_for_boundary, claim_hard_redirect, mark_applied, mark_failed,
           release_claim, commit_terminal, stop_run, claim_next_handoff, complete_handoff, Update, vars
  <1> QED BY <1>2, <1>3, <1>4, <1>5

LEMMA SettledIsFreeStep ==
    ASSUME TypeOK, SettledIsFree, [Next]_vars
    PROVE  SettledIsFree'
  <1> SUFFICES ASSUME NEW q \in QueueIds', items'[q].claimed_by # Nobody
               PROVE  items'[q].status = "queued"
    BY DEF SettledIsFree
  <1>1. q \in QueueIds
    BY RowIsInserted DEF InsertedRow
  <1>2. RowMoves(items[q], items'[q])
    BY <1>1, RowsMove
  <1> QED BY <1>1, <1>2 DEF RowMoves, SettledIsFree

\* Whatever callers do and in whatever order, also with an enqueue that is not atomic: a
\* settled row is never touched again, a claim is released or kept but never taken over or
\* cancelled, and a run neither leaves its end, nor a Stop, nor goes back in generations.
THEOREM QueueOnlyForward == Spec => OnlyForward
  <1>1. TypeOK /\ [Next]_vars =>
            [\A q \in QueueIds : ~Queued(q) => items'[q] = items[q]]_vars
    BY RowsMove DEF RowMoves, Queued
  <1>2. TypeOK /\ SettledIsFree /\ [Next]_vars =>
            [\A q \in QueueIds : ~Unclaimed(q) =>
                /\ items'[q].claimed_by \in {items[q].claimed_by, Nobody}
                /\ items'[q].status # "cancelled"]_vars
    <2> SUFFICES ASSUME TypeOK, SettledIsFree, [Next]_vars, NEW q \in QueueIds, ~Unclaimed(q)
                 PROVE  /\ items'[q].claimed_by \in {items[q].claimed_by, Nobody}
                        /\ items'[q].status # "cancelled"
      OBVIOUS
    <2>1. RowMoves(items[q], items'[q])
      BY RowsMove
    <2> QED BY <2>1 DEF RowMoves, Unclaimed, SettledIsFree
  <1>3. TypeOK /\ [Next]_vars =>
            [\A r \in Runs :
                /\ runs[r].phase = "terminal" => runs'[r].phase = "terminal"
                /\ runs[r].stopped => runs'[r].stopped
                /\ runs'[r].llm_generation >= runs[r].llm_generation]_vars
    BY RunsMove
  <1>4. Init => SettledIsFree
    BY DEF Init, SettledIsFree, QueueIds
  <1>5. TypeOK /\ SettledIsFree /\ [Next]_vars => SettledIsFree'
    BY SettledIsFreeStep
  <1> QED BY <1>1, <1>2, <1>3, <1>4, <1>5, TypeCorrect, PTL
          DEF Spec, OnlyForward, SettledIsFinal, ClaimsAreExclusive, RunStateIsMonotone

-----------------------------------------------------------------------------
(***************************************************************************)
(* Keys and generations.  That redirects own distinct generations is not   *)
(* inductive alone: a new owner takes a generation above the one that      *)
(* accepted its row because no row was accepted in a generation its run    *)
(* has not reached (SourcesAreReached), and no key names two rows.         *)
(***************************************************************************)
SourcesAreReached ==
    \A q \in QueueIds : items[q].request.run \in Runs =>
        items[q].source_generation <= runs[items[q].request.run].llm_generation

SameKey(p, q) ==
    /\ items[p].request.kind = items[q].request.kind
    /\ items[p].request.run = items[q].request.run
    /\ items[p].request.key = items[q].request.key
    /\ items[p].request.key # NoKey

KeysAreUnique == \A p, q \in QueueIds : SameKey(p, q) => p = q

NamesInv == TypeOK /\ SourcesAreReached /\ GenerationsAreOwned /\ KeysAreUnique

LEMMA NamesInvImplies == NamesInv => NamesAreUnique
  <1> SUFFICES ASSUME NamesInv, NEW q \in QueueIds, items[q].request.key # NoKey
               PROVE  /\ DedupeMatches(items[q].request) = {q}
                      /\ items[q].request.run # NoRun => AdmitAnswer(items[q].request) = "replayed"
    BY DEF NamesInv, NamesAreUnique, ReplayFindsItsRow
  <1>1. DedupeMatches(items[q].request) = {q}
    BY DEF NamesInv, KeysAreUnique, SameKey, DedupeMatches
  <1>2. DedupeAnswer(items[q].request) = "replayed"
    BY <1>1 DEF DedupeAnswer
  <1> QED BY <1>1, <1>2 DEF AdmitAnswer

LEMMA SourcesStep ==
    ASSUME TypeOK, SourcesAreReached, [Next]_vars, TypeOK'
    PROVE  SourcesAreReached'
  <1> SUFFICES ASSUME NEW q \in QueueIds', items'[q].request.run \in Runs
               PROVE  items'[q].source_generation <= runs'[items'[q].request.run].llm_generation
    BY DEF SourcesAreReached
  <1> DEFINE r == items'[q].request.run
  <1>1. /\ runs[r].llm_generation \in Nat /\ runs'[r].llm_generation \in Nat
        /\ runs'[r].llm_generation >= runs[r].llm_generation
        /\ items'[q].source_generation \in Nat
    BY RunsMove DEF TypeOK, LiveRunState, Item, QueueIds
  <1>2. items'[q].source_generation <= runs[r].llm_generation
    <2>1. CASE q \in QueueIds
      <3>1. RowMoves(items[q], items'[q])
        BY <2>1, RowsMove
      <3>2. items'[q].request = items[q].request
            /\ items'[q].source_generation = items[q].source_generation
        BY <3>1 DEF RowMoves
      <3> QED BY <2>1, <3>2 DEF SourcesAreReached
    <2>2. CASE q \notin QueueIds
      <3>1. InsertedRow(items'[q])
        BY <2>2, RowIsInserted
      <3> QED BY <1>1, <3>1 DEF InsertedRow
    <2> QED BY <2>1, <2>2
  <1> HIDE DEF r
  <1> QED BY <1>1, <1>2 DEF r

LEMMA KeysStep ==
    ASSUME TypeOK, KeysAreUnique, [Next]_vars
    PROVE  KeysAreUnique'
  <1> SUFFICES ASSUME NEW p \in QueueIds', NEW q \in QueueIds', SameKey(p, q)'
               PROVE  p = q
    BY DEF KeysAreUnique
  <1>1. \A x \in QueueIds : items'[x].request = items[x].request
    BY RowsMove DEF RowMoves
  <1>2. ASSUME NEW x \in QueueIds, NEW y \in QueueIds', y \notin QueueIds, SameKey(x, y)'
        PROVE  FALSE
    <2>1. DedupeMatches(items'[y].request) = {}
      BY <1>2, RowIsInserted DEF InsertedRow
    <2>2. x \in DedupeMatches(items'[y].request)
      BY <1>1, <1>2 DEF SameKey, DedupeMatches
    <2> QED BY <2>1, <2>2
  <1>3. SameKey(q, p)'
    BY DEF SameKey
  <1>4. CASE p \in QueueIds /\ q \in QueueIds
    BY <1>1, <1>4 DEF SameKey, KeysAreUnique
  <1>5. CASE p \notin QueueIds /\ q \notin QueueIds
    BY <1>5, RowIsInserted
  <1> QED BY <1>2, <1>3, <1>4, <1>5

\* No step but the claim of a hard redirect gives a row a generation.
LEMMA GenerationsKept ==
    ASSUME TypeOK, [Next]_vars,
           ~ \E r \in Runs, c \in Claimants, q \in QueueIds :
                 claim_hard_redirect(r, c, runs[r].llm_generation, q)
    PROVE  \A q \in QueueIds : items'[q].llm_generation = items[q].llm_generation
  <1> DEFINE Goal == \A q \in QueueIds : items'[q].llm_generation = items[q].llm_generation
  <1>1. \A q \in QueueIds : items[q] \in Item
    BY DEF TypeOK, QueueIds
  <1>2. ASSUME NEW q \in QueueIds, NEW new, Update(q, new),
               new.llm_generation = items[q].llm_generation
        PROVE  Goal
    <2>1. \A p \in QueueIds : (p = q /\ items'[p] = new) \/ items'[p] = items[p]
      BY <1>2 DEF Update, TypeOK, QueueIds
    <2> QED BY <1>2, <2>1
  <1>3. ASSUME NEW rows, NEW new, Insert(rows, new),
               \A q \in QueueIds : rows[q].llm_generation = items[q].llm_generation
        PROVE  Goal
    <2>1. count \in Nat
      BY BoundsAssumption DEF TypeOK
    <2>2. \A q \in QueueIds : items'[q] = rows[q]
      BY <1>3, <2>1 DEF Insert, QueueIds
    <2> QED BY <1>3, <2>2
  <1>4. ASSUME NEW i \in Item
        PROVE  /\ \A error : Failed(i, error).llm_generation = i.llm_generation
               /\ \A reason : Cancelled(i, reason).llm_generation = i.llm_generation
               /\ \A phase : Applied(i, phase).llm_generation = i.llm_generation
               /\ Promoted(i).llm_generation = i.llm_generation
    BY DEF Failed, Cancelled, Applied, Promoted, Item
  <1>5. ASSUME NEW req \in Requests, admit(req) PROVE Goal
    <2>1. \A q \in QueueIds : StopPreempts(req.run)[q] \in {items[q], Failed(items[q], "run_stopped")}
      BY DEF StopPreempts
    <2>2. PICK new : Insert(StopPreempts(req.run), new) \/ Insert(items, new)
      BY <1>5 DEF admit
    <2> QED BY <1>1, <1>3, <1>4, <2>1, <2>2
  <1>6. CASE HostStep
    <2>1. ASSUME NEW q \in QueueIds, cancel(q) \/ cancel_next(q) PROVE Goal
      <3>1. PICK reason : Update(q, Cancelled(items[q], reason))
        BY <2>1 DEF cancel, cancel_next
      <3> QED BY <1>1, <1>2, <1>4, <3>1
    <2>2. ASSUME NEW req \in Requests, EnqueueUnrouted(req) PROVE Goal
      BY <1>3, <2>2 DEF EnqueueUnrouted
    <2> QED BY <1>5, <1>6, <2>1, <2>2 DEF HostStep, enqueue, EnqueueLocked
  <1>7. ASSUME NEW r \in Runs, NEW stopped, commit_terminal(r, stopped) PROVE Goal
    <2>1. \A q \in QueueIds :
             items'[q] \in {items[q], Applied(items[q], runs[r].phase),
                            Failed(items[q], "run_stopped"), Promoted(items[q])}
      BY <1>7 DEF commit_terminal, AtTerminal
    <2> QED BY <1>1, <1>4, <2>1
  <1>8. CASE WorkerStep
    <2>1. ASSUME NEW r \in Runs, NEW c, NEW q \in QueueIds, claim_for_boundary(r, c, q) PROVE Goal
      <3>1. [items[q] EXCEPT !.claimed_by = c].llm_generation = items[q].llm_generation
        BY <1>1 DEF Item
      <3> QED BY <1>2, <2>1, <3>1 DEF claim_for_boundary
    <2>2. ASSUME NEW q \in QueueIds, NEW c, NEW phase, mark_applied(q, c, phase) PROVE Goal
      BY <1>1, <1>2, <1>4, <2>2 DEF mark_applied
    <2>3. ASSUME NEW q \in QueueIds, mark_failed(q, "error") PROVE Goal
      BY <1>1, <1>2, <1>4, <2>3 DEF mark_failed
    <2>4. ASSUME NEW q \in QueueIds, NEW c, release_claim(q, c) PROVE Goal
      <3>1. [items[q] EXCEPT !.claimed_by = Nobody].llm_generation = items[q].llm_generation
        BY <1>1 DEF Item
      <3> QED BY <1>2, <2>4, <3>1 DEF release_claim
    <2> QED BY <1>7, <1>8, <2>1, <2>2, <2>3, <2>4 DEF WorkerStep, stop_run, set_run_phase
  <1>9. CASE DispatcherStep
    <2>1. ASSUME NEW r \in Runs, NEW c, NEW q \in QueueIds, claim_next_handoff(r, c, q) PROVE Goal
      <3>1. [items[q] EXCEPT !.claimed_by = c, !.handoff_id = TRUE].llm_generation
              = items[q].llm_generation
        BY <1>1 DEF Item
      <3> QED BY <1>2, <2>1, <3>1 DEF claim_next_handoff
    <2>2. ASSUME NEW c, NEW q \in QueueIds, NEW turn, complete_handoff(q, c, turn) PROVE Goal
      <3> DEFINE new == [items[q] EXCEPT !.status = "applied", !.destination_turn_id = turn,
                                         !.reason_code = "next_handoff_completed",
                                         !.claimed_by = Nobody]
      <3>1. new.llm_generation = items[q].llm_generation
        BY <1>1 DEF Item
      <3>2. Update(q, new)
        BY <2>2 DEF complete_handoff
      <3> QED BY <1>2, <3>1, <3>2
    <2> QED BY <1>9, <2>1, <2>2 DEF DispatcherStep
  <1>10. CASE UNCHANGED vars
    BY <1>10 DEF vars
  <1> QED BY <1>6, <1>8, <1>9, <1>10 DEF Next

\* The part of GenerationsAreOwned that speaks of one row and its run.
OwnsGeneration(i, states) ==
    i.llm_generation # 0 =>
        /\ Requested(i) = "redirect_current"
        /\ i.request.run \in Runs
        /\ i.source_generation < i.llm_generation
        /\ i.llm_generation <= states[i.request.run].llm_generation

LEMMA OwnedStep ==
    ASSUME TypeOK, SourcesAreReached, GenerationsAreOwned, [Next]_vars, TypeOK'
    PROVE  GenerationsAreOwned'
  <1>1. \A q \in QueueIds : /\ items[q].llm_generation \in Nat /\ items[q].source_generation \in Nat
                            /\ items'[q].request = items[q].request
                            /\ items'[q].source_generation = items[q].source_generation
    BY RowsMove DEF RowMoves, TypeOK, QueueIds, Item
  <1>2. \A r \in Runs : /\ runs[r].llm_generation \in Nat /\ runs'[r].llm_generation \in Nat
                        /\ runs'[r].llm_generation >= runs[r].llm_generation
    BY RunsMove DEF TypeOK, LiveRunState
  <1>3. \A q \in QueueIds' : q \notin QueueIds => items'[q].llm_generation = 0
    BY RowIsInserted DEF InsertedRow
  <1>4. CASE \A q \in QueueIds : items'[q].llm_generation = items[q].llm_generation
    <2> SUFFICES ASSUME NEW q \in QueueIds', items'[q].llm_generation # 0
                 PROVE  /\ OwnsGeneration(items'[q], runs')
                        /\ \A p \in QueueIds' :
                              /\ p # q
                              /\ items'[p].request.run = items'[q].request.run
                              => items'[p].llm_generation # items'[q].llm_generation
      BY DEF GenerationsAreOwned, OwnsGeneration
    <2>1. q \in QueueIds
      BY <1>3
    <2>2. OwnsGeneration(items'[q], runs')
      <3>1. /\ Requested(items[q]) = "redirect_current" /\ items[q].request.run \in Runs
            /\ items[q].source_generation < items[q].llm_generation
            /\ items[q].llm_generation <= runs[items[q].request.run].llm_generation
        BY <1>4, <2>1 DEF GenerationsAreOwned
      <3> QED BY <1>1, <1>2, <1>4, <2>1, <3>1 DEF OwnsGeneration, Requested
    <2>3. ASSUME NEW p \in QueueIds', p # q, items'[p].request.run = items'[q].request.run
          PROVE  items'[p].llm_generation # items'[q].llm_generation
      <3>1. CASE p \in QueueIds
        BY <1>1, <1>4, <2>1, <2>3, <3>1 DEF GenerationsAreOwned
      <3>2. CASE p \notin QueueIds
        BY <1>3, <3>2
      <3> QED BY <3>1, <3>2
    <2> QED BY <2>2, <2>3
  <1>5. ASSUME NEW r \in Runs, NEW c \in Claimants, NEW q \in QueueIds,
               claim_hard_redirect(r, c, runs[r].llm_generation, q)
        PROVE  GenerationsAreOwned'
    <2> DEFINE generation == runs[r].llm_generation
               new == [items[q] EXCEPT !.claimed_by = c, !.resolved_semantic = "redirect_current",
                                       !.reason_code = "redirect_claimed",
                                       !.llm_generation = generation + 1]
    <2>1. Requested(items[q]) = "redirect_current" /\ items[q].request.run = r
      BY <1>5 DEF claim_hard_redirect, IsFirst, UnclaimedRedirects, list_pending
    <2>2. Update(q, new) /\ runs' = [runs EXCEPT ![r].llm_generation = generation + 1]
      BY <1>5 DEF claim_hard_redirect
    <2>3. QueueIds' = QueueIds
      BY <2>2 DEF Update, QueueIds
    <2>4. /\ items'[q].llm_generation = generation + 1
          /\ \A p \in QueueIds \ {q} : items'[p] = items[p]
      BY <2>2 DEF Update, TypeOK, QueueIds, Item
    <2>5. runs'[r].llm_generation = generation + 1
      BY <2>2 DEF TypeOK, LiveRunState
    <2> HIDE DEF generation, new
    <2>6. generation \in Nat /\ generation = runs[r].llm_generation
      BY <1>2 DEF generation
    <2>7. \A p \in QueueIds : items[p].request.run = r => items[p].llm_generation <= generation
      BY <1>1, <2>6 DEF GenerationsAreOwned
    <2> SUFFICES ASSUME NEW x \in QueueIds, items'[x].llm_generation # 0
                 PROVE  /\ OwnsGeneration(items'[x], runs')
                        /\ \A p \in QueueIds :
                              /\ p # x
                              /\ items'[p].request.run = items'[x].request.run
                              => items'[p].llm_generation # items'[x].llm_generation
      BY <2>3 DEF GenerationsAreOwned, OwnsGeneration
    <2>8. CASE x = q
      <3>1. OwnsGeneration(items'[x], runs')
        BY <1>1, <2>1, <2>4, <2>5, <2>6, <2>8 DEF OwnsGeneration, SourcesAreReached, Requested
      <3>2. \A p \in QueueIds : /\ p # x
                                /\ items'[p].request.run = items'[x].request.run
                                => items'[p].llm_generation # items'[x].llm_generation
        BY <1>1, <2>1, <2>4, <2>6, <2>7, <2>8
      <3> QED BY <3>1, <3>2
    <2>9. CASE x # q
      <3>1. /\ Requested(items[x]) = "redirect_current" /\ items[x].request.run \in Runs
            /\ items[x].source_generation < items[x].llm_generation
            /\ items[x].llm_generation <= runs[items[x].request.run].llm_generation
            /\ items'[x] = items[x]
        BY <2>4, <2>9 DEF GenerationsAreOwned
      <3>2. OwnsGeneration(items'[x], runs')
        BY <1>1, <1>2, <3>1 DEF OwnsGeneration
      <3>3. ASSUME NEW p \in QueueIds, p # x, items'[p].request.run = items'[x].request.run
            PROVE  items'[p].llm_generation # items'[x].llm_generation
        <4>1. CASE p = q
          BY <1>1, <2>1, <2>4, <2>6, <2>7, <3>1, <3>3, <4>1
        <4>2. CASE p # q
          BY <2>4, <3>1, <3>3, <4>2 DEF GenerationsAreOwned
        <4> QED BY <4>1, <4>2
      <3> QED BY <3>2, <3>3
    <2> QED BY <2>8, <2>9
  <1> QED BY <1>4, <1>5, GenerationsKept

\* Whatever callers do, also with an enqueue that is not atomic: an idempotency key names
\* one row for ever, which a replay is answered with, and a generation of the model belongs
\* to one redirect, accepted before it and fenced by it.
THEOREM QueueNames == Spec => []NamesAreUnique
  <1>1. Init => NamesInv
    <2>1. Init => TypeOK
      BY BoundsAssumption DEF Init, TypeOK, LiveRunState, LiveMessagePhase
    <2> QED BY <2>1 DEF Init, NamesInv, SourcesAreReached, GenerationsAreOwned, KeysAreUnique,
                        QueueIds
  <1>2. NamesInv /\ [Next]_vars => NamesInv'
    BY TypeStep, SourcesStep, OwnedStep, KeysStep DEF NamesInv
  <1> QED BY <1>1, <1>2, NamesInvImplies, PTL DEF Spec

-----------------------------------------------------------------------------
(***************************************************************************)
(* The store implements the contract: what a host sees of a row is its run *)
(* and its place, and of a run whether its turn is open, ended or stopped. *)
(* QueueInv supplies what the mapping needs: a hard redirect does not take *)
(* a NEXT row back, and a second terminal commit finds nothing current.    *)
(***************************************************************************)
View(i) == [run |-> i.request.run, place |-> Place(i)]
TurnOf(s) == IF s.stopped THEN "stopped" ELSE IF s.phase = "terminal" THEN "ended" ELSE "open"

HostsSeeNothing == UNCHANGED Contract!contractVars

LEMMA PlaceCases ==
    ASSUME NEW i \in Item
    PROVE  /\ ~IsMessage(i) => Place(i) = "control"
           /\ IsMessage(i) /\ i.status = "applied" => Place(i) = "delivered"
           /\ IsMessage(i) /\ i.status \in {"cancelled", "failed"} => Place(i) = "dropped"
           /\ IsMessage(i) /\ i.status = "queued" /\ i.resolved_semantic = "queue_next" => Place(i) = "next"
           /\ IsMessage(i) /\ i.status = "queued" /\ i.resolved_semantic # "queue_next" => Place(i) = "current"
           /\ Place(i) \in {"control", "delivered", "dropped", "next", "current"}
           /\ Place(i) \in {"next", "current"} => IsMessage(i) /\ i.status = "queued"
           /\ Place(i) = "next" => i.resolved_semantic = "queue_next"
           /\ Place(i) = "current" => i.resolved_semantic # "queue_next"
  <1>1. i.status \in {"queued", "applied", "cancelled", "failed"}
    BY DEF Item, CommandQueueStatus
  <1>2. CASE ~IsMessage(i)
    BY <1>2 DEF Place
  <1>3. CASE IsMessage(i) /\ i.status = "applied"
    BY <1>3 DEF Place
  <1>4. CASE IsMessage(i) /\ i.status \in {"cancelled", "failed"}
    BY <1>4 DEF Place
  <1>5. CASE IsMessage(i) /\ i.status = "queued"
    BY <1>5 DEF Place
  <1> QED BY <1>1, <1>2, <1>3, <1>4, <1>5

LEMMA SameView ==
    ASSUME NEW i, NEW j, j.request = i.request, j.status = i.status,
           j.resolved_semantic = i.resolved_semantic
    PROVE  View(j) = View(i)
  BY DEF View, Place, IsMessage, Requested

LEMMA UnseenStep ==
    ASSUME count' = count,
           \A q \in QueueIds : View(items'[q]) = View(items[q]),
           \A r \in Runs : TurnOf(runs'[r]) = TurnOf(runs[r])
    PROVE  HostsSeeNothing
  <1>1. [q \in QueueIds |-> View(items[q])]' = [q \in QueueIds |-> View(items[q])]
    BY DEF QueueIds
  <1>2. [r \in Runs |-> TurnOf(runs[r])]' = [r \in Runs |-> TurnOf(runs[r])]
    OBVIOUS
  <1> QED BY <1>1, <1>2 DEF HostsSeeNothing, Contract!contractVars, View, TurnOf

\* One row changes: it is settled, or hosts see no difference.
LEMMA OneRowStep ==
    ASSUME TypeOK, NEW q \in QueueIds, NEW new, Update(q, new), UNCHANGED runs,
           new.request = items[q].request,
           \/ Place(new) = Place(items[q])
           \/ Place(items[q]) \in {"current", "next"} /\ Place(new) \in {"delivered", "dropped"}
    PROVE  Contract!ContractNext \/ HostsSeeNothing
  <1>1. /\ count' = count /\ items'[q] = new
        /\ \A p \in QueueIds : p # q => items'[p] = items[p]
    BY DEF Update, TypeOK, QueueIds
  <1>2. CASE Place(new) = Place(items[q])
    <2>1. \A p \in QueueIds : View(items'[p]) = View(items[p])
      BY <1>1, <1>2 DEF View
    <2> QED BY <1>1, <2>1, UnseenStep
  <1>3. CASE Place(items[q]) \in {"current", "next"} /\ Place(new) \in {"delivered", "dropped"}
    <2> DEFINE rows == [p \in QueueIds |-> View(items[p])]
    <2>1. rows' = [rows EXCEPT ![q] = View(new)]
      BY <1>1 DEF QueueIds
    <2>2. View(new) = [run |-> rows[q].run, place |-> Place(new)] /\ rows[q].place = Place(items[q])
      BY DEF View
    <2>3. [r \in Runs |-> TurnOf(runs[r])]' = [r \in Runs |-> TurnOf(runs[r])]
      OBVIOUS
    <2>4. Contract!Resolve(q, Place(new))
      BY <1>1, <1>3, <2>1, <2>2, <2>3
         DEF Contract!Resolve, Contract!Pending, Contract!Row, View, TurnOf
    <2> QED BY <1>3, <2>4 DEF Contract!ContractNext, QueueIds
  <1> QED BY <1>2, <1>3

\* A row is added: an open turn accepts a message, and other controls are recorded.
LEMMA AcceptStep ==
    ASSUME TypeOK, NEW new, Insert(items, new), UNCHANGED runs,
           Place(new) \in {"current", "next", "control"}, new.request.run \in Runs \cup {NoRun},
           Place(new) # "control" /\ new.request.run \in Runs => TurnOf(runs[new.request.run]) = "open"
    PROVE  Contract!ContractNext
  <1> DEFINE rows == [p \in QueueIds |-> View(items[p])]
             r == new.request.run
  <1>1. count \in Nat
    BY BoundsAssumption DEF TypeOK
  <1>2. rows' = [p \in 1..(count + 1) |-> IF p = count + 1 THEN View(new) ELSE rows[p]]
    BY <1>1 DEF Insert, QueueIds
  <1>3. View(new) = [run |-> r, place |-> Place(new)]
    BY DEF View
  <1>4. count < MaxItems /\ count' = count + 1
    BY DEF Insert
  <1>5. [s \in Runs |-> TurnOf(runs[s])]' = [s \in Runs |-> TurnOf(runs[s])]
    OBVIOUS
  <1>6. Contract!Accept(r, Place(new))
    BY <1>2, <1>3, <1>4, <1>5
       DEF Contract!Accept, Contract!Grow, Contract!Row, Contract!Pending, View, TurnOf
  <1> QED BY <1>6 DEF Contract!ContractNext, Contract!Pending

\* The rows of r at one of the places, and no others, have moved.
Moved(r, places, to, rows) ==
    \A q \in QueueIds :
        View(rows[q]) = IF items[q].request.run = r /\ Place(items[q]) \in places
                        THEN [run |-> r, place |-> to] ELSE View(items[q])

LEMMA MoveRows ==
    ASSUME NEW r, NEW places, NEW to, NEW rows, Moved(r, places, to, rows)
    PROVE  [q \in QueueIds |-> View(rows[q])] = Contract!Move(r, places, to)
  <1>1. \A q \in QueueIds : View(items[q]).run = items[q].request.run
                            /\ View(items[q]).place = Place(items[q])
    BY DEF View
  <1>2. Contract!Move(r, places, to) =
            [q \in 1..count |->
                IF View(items[q]).run = r /\ View(items[q]).place \in places
                THEN [run |-> r, place |-> to] ELSE View(items[q])]
    BY DEF Contract!Move, Contract!Row, View, QueueIds
  <1> QED BY <1>1, <1>2 DEF Moved, QueueIds

LEMMA UpdatedFields ==
    ASSUME NEW i \in Item
    PROVE  /\ LET j == Failed(i, "run_stopped") IN
                 j \in Item /\ j.request = i.request /\ j.status = "failed"
           /\ \A phase : LET j == Applied(i, phase) IN j \in Item /\ j.request = i.request
           /\ LET j == Promoted(i) IN
                 /\ j \in Item /\ j.request = i.request /\ j.status = i.status
                 /\ j.resolved_semantic = "queue_next"
  <1>1. /\ Failed(i, "run_stopped") \in Item /\ Promoted(i) \in Item
        /\ \A phase : Applied(i, phase) \in Item
    BY RowUpdateTypes DEF ReasonCode
  <1>2. Failed(i, "run_stopped").request = i.request /\ Failed(i, "run_stopped").status = "failed"
    BY DEF Failed, Item
  <1>3. \A phase : Applied(i, phase).request = i.request
    BY DEF Applied, Item
  <1>4. /\ Promoted(i).request = i.request /\ Promoted(i).status = i.status
        /\ Promoted(i).resolved_semantic = "queue_next"
    BY DEF Promoted, Item
  <1> QED BY <1>1, <1>2, <1>3, <1>4

LEMMA SettledPlaces ==
    ASSUME NEW i \in Item, i.status = "queued", NEW j \in Item, j.request = i.request,
           j.status \in {"applied", "cancelled", "failed"}
    PROVE  \/ Place(j) = Place(i)
           \/ Place(i) \in {"current", "next"} /\ Place(j) \in {"delivered", "dropped"}
  <1>1. IsMessage(j) <=> IsMessage(i)
    BY DEF IsMessage, Requested
  <1>2. CASE IsMessage(i)
    BY <1>1, <1>2, PlaceCases
  <1>3. CASE ~IsMessage(i)
    BY <1>1, <1>3, PlaceCases
  <1> QED BY <1>2, <1>3

LEMMA SettleStep ==
    ASSUME TypeOK, NEW q \in QueueIds, NEW new \in Item, Update(q, new), UNCHANGED runs,
           items[q].status = "queued", new.request = items[q].request,
           new.status \in {"applied", "cancelled", "failed"}
    PROVE  Contract!ContractNext \/ HostsSeeNothing
  <1>1. items[q] \in Item
    BY DEF TypeOK, QueueIds
  <1> QED BY <1>1, SettledPlaces, OneRowStep

LEMMA ClaimStep ==
    ASSUME TypeOK, NEW q \in QueueIds, NEW new, Update(q, new), UNCHANGED runs,
           new.request = items[q].request, new.status = items[q].status,
           new.resolved_semantic = items[q].resolved_semantic
    PROVE  Contract!ContractNext \/ HostsSeeNothing
  <1>1. Place(new) = Place(items[q])
    BY SameView DEF View
  <1> QED BY <1>1, OneRowStep

LEMMA FreshPlace ==
    ASSUME NEW req \in Requests, NEW generation \in Nat
    PROVE  LET new == NewItem(req, generation) IN
           /\ new \in Item /\ new.request = req
           /\ Place(new) \in {"current", "next", "control"}
           /\ requested_semantic_for_request(req) \notin MessageSemantic => Place(new) = "control"
  <1> DEFINE new == NewItem(req, generation)
  <1>1. new \in Item
    BY NewItemType
  <1>2. new.request = req /\ new.status = "queued"
    BY DEF NewItem
  <1> HIDE DEF new
  <1>3. /\ Place(new) \in {"current", "next", "control"}
        /\ requested_semantic_for_request(req) \notin MessageSemantic => Place(new) = "control"
    BY <1>1, <1>2, PlaceCases DEF IsMessage, Requested
  <1> QED BY <1>1, <1>2, <1>3 DEF new

LEMMA AdmitContract ==
    ASSUME QueueInv, NEW req \in Requests, admit(req)
    PROVE  Contract!ContractNext
  <1> DEFINE r == req.run
             new == NewItem(req, runs[r].llm_generation)
  <1>0. TypeOK
    BY DEF QueueInv
  <1>1. /\ r \in Runs
        /\ runs[r].phase \notin {"absent", "unknown", "terminal"}
        /\ ~runs[r].stopped
    BY RequestsAssumption DEF admit, AdmitAnswer, DedupeAnswer, ControlRequest
  <1>2. TurnOf(runs[r]) = "open"
    BY <1>1 DEF TurnOf
  <1>3. runs[r].llm_generation \in Nat
    BY <1>0, <1>1 DEF TypeOK, LiveRunState
  <1>4. CASE requested_semantic_for_request(req) # "stop"
    <2>1. UNCHANGED runs /\ Insert(items, new)
      BY <1>4 DEF admit
    <2>2. new.request = req /\ Place(new) \in {"current", "next", "control"}
      BY <1>3, FreshPlace
    <2> HIDE DEF new
    <2> QED BY <1>0, <1>1, <1>2, <2>1, <2>2, AcceptStep
  <1>5. CASE requested_semantic_for_request(req) = "stop"
    <2> DEFINE stop == [new EXCEPT !.reason_code = "stop_accepted"]
               rows == [p \in QueueIds |-> View(items[p])]
               dropped == StopPreempts(r)
    <2>1. /\ runs' = [runs EXCEPT ![r].stopped = TRUE]
          /\ Insert(dropped, stop)
      BY <1>5 DEF admit
    <2>2. View(stop) = [run |-> r, place |-> "control"]
      <3>1. stop.request = req
        BY DEF NewItem
      <3>2. stop \in Item
        BY <1>3, NewItemType
      <3> HIDE DEF stop
      <3>3. ~IsMessage(stop)
        BY <1>5, <3>1 DEF IsMessage, Requested, MessageSemantic
      <3> QED BY <3>1, <3>2, <3>3, PlaceCases DEF View
    <2>3. Moved(r, {"current", "next"}, "dropped", dropped)
      <3> SUFFICES ASSUME NEW q \in QueueIds
                   PROVE  View(dropped[q]) =
                            IF items[q].request.run = r /\ Place(items[q]) \in {"current", "next"}
                            THEN [run |-> r, place |-> "dropped"] ELSE View(items[q])
        BY DEF Moved
      <3>1. items[q] \in Item
        BY <1>0 DEF TypeOK, QueueIds
      <3>2. CASE items[q].request.run = r /\ Place(items[q]) \in {"current", "next"}
        <4>1. dropped[q] = Failed(items[q], "run_stopped")
          BY <3>1, <3>2, PlaceCases DEF StopPreempts, list_pending, Queued
        <4>2. /\ dropped[q] \in Item /\ dropped[q].request = items[q].request
              /\ dropped[q].status = "failed"
          BY <3>1, <4>1, UpdatedFields
        <4>3. IsMessage(dropped[q])
          BY <3>1, <3>2, <4>2, PlaceCases DEF IsMessage, Requested
        <4> HIDE DEF dropped
        <4> QED BY <3>2, <4>2, <4>3, PlaceCases DEF View
      <3>3. CASE ~(items[q].request.run = r /\ Place(items[q]) \in {"current", "next"})
        <4>1. dropped[q] = items[q]
          BY <3>1, <3>3, PlaceCases DEF StopPreempts, list_pending, Queued
        <4> QED BY <3>3, <4>1
      <3> QED BY <3>2, <3>3
    <2>4. [q \in QueueIds |-> View(dropped[q])] = Contract!Move(r, {"current", "next"}, "dropped")
      <3> HIDE DEF dropped
      <3> QED BY <2>3, MoveRows
    <2>5. count \in Nat
      BY <1>0, BoundsAssumption DEF TypeOK
    <2> HIDE DEF dropped, stop
    <2>6. rows' = [p \in 1..(count + 1) |->
                     IF p = count + 1 THEN View(stop)
                     ELSE Contract!Move(r, {"current", "next"}, "dropped")[p]]
      <3>1. \A p \in QueueIds : Contract!Move(r, {"current", "next"}, "dropped")[p] = View(dropped[p])
        BY <2>4
      <3> QED BY <2>1, <2>5, <3>1 DEF Insert, QueueIds
    <2>7. count < MaxItems /\ count' = count + 1
      BY <2>1 DEF Insert
    <2>8. [s \in Runs |-> TurnOf(runs[s])]' = [[s \in Runs |-> TurnOf(runs[s])] EXCEPT ![r] = "stopped"]
      <3>1. runs'[r].stopped /\ \A s \in Runs \ {r} : runs'[s] = runs[s]
        BY <1>0, <1>1, <2>1 DEF TypeOK, LiveRunState
      <3> QED BY <1>1, <3>1 DEF TurnOf
    <2>9. Contract!Stop(r)
      BY <1>1, <1>2, <2>2, <2>6, <2>7, <2>8
         DEF Contract!Stop, Contract!Grow, Contract!Row, Contract!Pending, View, TurnOf
    <2> QED BY <1>1, <2>9 DEF Contract!ContractNext
  <1> QED BY <1>4, <1>5

LEMMA EnqueueUnroutedContract ==
    ASSUME QueueInv, NEW req \in Requests, ~RoutesToAdmit(req), EnqueueUnrouted(req)
    PROVE  Contract!ContractNext
  <1> DEFINE new == NewItem(req, 0)
  <1>1. TypeOK /\ Insert(items, new) /\ UNCHANGED runs
    BY DEF EnqueueUnrouted, QueueInv
  <1>2. /\ new.request = req /\ Place(new) \in {"current", "next", "control"}
        /\ requested_semantic_for_request(req) \notin MessageSemantic => Place(new) = "control"
    BY FreshPlace
  <1>3. req.run \in Runs \cup {NoRun}
    BY RequestsAssumption DEF ControlRequest
  <1>4. ASSUME Place(new) # "control", req.run \in Runs PROVE TurnOf(runs[req.run]) = "open"
    <2>1. runs[req.run].phase = "absent"
      BY <1>2, <1>4, NullsAssumption DEF RoutesToAdmit, MessageSemantic
    <2> QED BY <1>4, <2>1 DEF QueueInv, StoppedIsKnown, TurnOf
  <1> HIDE DEF new
  <1> QED BY <1>1, <1>2, <1>3, <1>4, AcceptStep

LEMMA CommitTerminalContract ==
    ASSUME QueueInv, NEW r \in Runs, NEW stopped \in BOOLEAN, commit_terminal(r, stopped)
    PROVE  Contract!ContractNext \/ HostsSeeNothing
  <1> DEFINE stop == stopped \/ runs[r].stopped
  <1>0. TypeOK /\ stop \in BOOLEAN
    BY DEF QueueInv
  <1>1. /\ runs'[r].phase = "terminal" /\ runs'[r].stopped = stop
        /\ \A s \in Runs \ {r} : runs'[s] = runs[s]
        /\ count' = count
    BY <1>0 DEF commit_terminal, TypeOK, LiveRunState
  <1>2. \A q \in QueueIds : items[q] \in Item /\ RowInv(items[q], runs)
    BY DEF QueueInv, TypeOK, QueueIds
  <1>3. \A q \in QueueIds : items'[q] = IF q \in list_pending(r)
                                        THEN AtTerminal(items[q], stop, runs[r].phase) ELSE items[q]
    BY DEF commit_terminal
  <1>4. [s \in Runs |-> TurnOf(runs[s])]' =
            [[s \in Runs |-> TurnOf(runs[s])] EXCEPT ![r] = IF stop THEN "stopped" ELSE "ended"]
    BY <1>1 DEF TurnOf
  <1> HIDE DEF stop
  <1>5. CASE stop
    <2>1. Moved(r, {"current", "next"}, "dropped", items')
      <3> SUFFICES ASSUME NEW q \in QueueIds
                   PROVE  View(items'[q]) =
                            IF items[q].request.run = r /\ Place(items[q]) \in {"current", "next"}
                            THEN [run |-> r, place |-> "dropped"] ELSE View(items[q])
        BY DEF Moved
      <3> DEFINE i == items[q]
                 j == items'[q]
      <3>1. CASE q \in list_pending(r) /\ IsMessage(i)
        <4>1. Requested(i) # "stop" /\ i.request.run = r /\ i.status = "queued"
          BY <3>1 DEF IsMessage, MessageSemantic, list_pending, Queued
        <4>2. j = Failed(i, "run_stopped")
          BY <1>3, <1>5, <3>1, <4>1 DEF AtTerminal
        <4>3. j \in Item /\ j.request = i.request /\ j.status = "failed"
          BY <1>2, <4>2, UpdatedFields
        <4> HIDE DEF j
        <4>4. IsMessage(j)
          BY <3>1, <4>3 DEF IsMessage, Requested
        <4>5. Place(j) = "dropped" /\ Place(i) \in {"current", "next"}
          BY <1>2, <3>1, <4>1, <4>3, <4>4, PlaceCases
        <4> QED BY <4>1, <4>3, <4>5 DEF View, j
      <3>2. CASE q \in list_pending(r) /\ ~IsMessage(i)
        <4>1. j \in {i, Applied(i, runs[r].phase)}
          BY <1>3, <1>5, <3>2 DEF AtTerminal
        <4>2. j.request = i.request /\ j \in Item
          BY <1>2, <4>1, UpdatedFields
        <4> HIDE DEF j
        <4>3. ~IsMessage(j)
          BY <3>2, <4>2 DEF IsMessage, Requested
        <4>4. Place(j) = "control" /\ Place(i) = "control"
          BY <1>2, <3>2, <4>2, <4>3, PlaceCases
        <4> QED BY <4>2, <4>4 DEF View, j
      <3>3. CASE q \notin list_pending(r)
        <4>1. ~(i.request.run = r /\ Place(i) \in {"current", "next"})
          BY <1>2, <3>3, PlaceCases DEF list_pending, Queued
        <4> QED BY <1>3, <3>3, <4>1
      <3> QED BY <3>1, <3>2, <3>3
    <2>2. [q \in QueueIds |-> View(items'[q])] = Contract!Move(r, {"current", "next"}, "dropped")
      BY <2>1, MoveRows
    <2>3. [q \in QueueIds |-> View(items[q])]' = Contract!Move(r, {"current", "next"}, "dropped")
      BY <1>1, <2>2 DEF QueueIds
    <2>4. Contract!Stop(r)
      BY <1>1, <1>4, <1>5, <2>3 DEF Contract!Stop, Contract!Pending, View, TurnOf
    <2> QED BY <2>4 DEF Contract!ContractNext
  <1>6. CASE ~stop
    <2>1. ~runs[r].stopped
      BY <1>6 DEF stop
    <2>2. Moved(r, {"current"}, "next", items')
      <3> SUFFICES ASSUME NEW q \in QueueIds
                   PROVE  View(items'[q]) =
                            IF items[q].request.run = r /\ Place(items[q]) \in {"current"}
                            THEN [run |-> r, place |-> "next"] ELSE View(items[q])
        BY DEF Moved
      <3> DEFINE i == items[q]
                 j == items'[q]
      <3>1. CASE q \in list_pending(r) /\ IsMessage(i) /\ Requested(i) # "queue_next"
        <4>1. i.request.run = r /\ i.status = "queued"
          BY <3>1 DEF list_pending, Queued
        <4>2. j = Promoted(i)
          BY <1>3, <1>6, <3>1 DEF AtTerminal
        <4>3. /\ j \in Item /\ j.request = i.request /\ j.status = "queued"
              /\ j.resolved_semantic = "queue_next"
          BY <1>2, <4>1, <4>2, UpdatedFields
        <4> HIDE DEF j
        <4>4. IsMessage(j)
          BY <3>1, <4>3 DEF IsMessage, Requested
        <4>5. Place(j) = "next" /\ Place(i) \in {"current", "next"}
          BY <1>2, <3>1, <4>1, <4>3, <4>4, PlaceCases
        <4> QED BY <4>1, <4>3, <4>5 DEF View, j
      <3>2. CASE q \in list_pending(r) /\ ~(IsMessage(i) /\ Requested(i) # "queue_next")
        <4>1. j = i
          BY <1>3, <1>6, <3>2 DEF AtTerminal
        <4>2. Place(i) # "current"
          BY <1>2, <3>2, PlaceCases DEF RowInv
        <4> QED BY <4>1, <4>2
      <3>3. CASE q \notin list_pending(r)
        <4>1. ~(i.request.run = r /\ Place(i) \in {"current"})
          BY <1>2, <3>3, PlaceCases DEF list_pending, Queued
        <4> QED BY <1>3, <3>3, <4>1
      <3> QED BY <3>1, <3>2, <3>3
    <2>3. CASE runs[r].phase # "terminal"
      <3>1. [q \in QueueIds |-> View(items'[q])] = Contract!Move(r, {"current"}, "next")
        BY <2>2, MoveRows
      <3>2. [q \in QueueIds |-> View(items[q])]' = Contract!Move(r, {"current"}, "next")
        BY <1>1, <3>1 DEF QueueIds
      <3>3. TurnOf(runs[r]) = "open"
        BY <2>1, <2>3 DEF TurnOf
      <3>4. Contract!End(r)
        BY <1>1, <1>4, <1>6, <3>2, <3>3 DEF Contract!End, View, TurnOf
      <3> QED BY <3>4 DEF Contract!ContractNext
    <2>4. CASE runs[r].phase = "terminal"
      <3>1. \A q \in QueueIds : View(items'[q]) = View(items[q])
        <4> SUFFICES ASSUME NEW q \in QueueIds, items[q].request.run = r
                     PROVE  Place(items[q]) # "current"
          BY <2>2 DEF Moved
        <4> QED BY <1>2, <2>4, PlaceCases DEF RowInv
      <3>2. \A s \in Runs : TurnOf(runs'[s]) = TurnOf(runs[s])
        BY <1>1, <1>6, <2>1, <2>4 DEF TurnOf
      <3> QED BY <1>1, <3>1, <3>2, UnseenStep
    <2> QED BY <2>3, <2>4
  <1> QED BY <1>5, <1>6

LEMMA ContractStep ==
    ASSUME AtomicEnqueue, QueueInv, [Next]_vars
    PROVE  Contract!ContractNext \/ HostsSeeNothing
  <1> DEFINE Goal == Contract!ContractNext \/ HostsSeeNothing
  <1>0. TypeOK
    BY DEF QueueInv
  <1>1. \A q \in QueueIds : items[q] \in Item /\ RowInv(items[q], runs)
    BY DEF QueueInv, TypeOK, QueueIds
  <1>2. ASSUME NEW q \in QueueIds, cancel(q) \/ cancel_next(q) PROVE Goal
    <2>1. PICK reason \in ReasonCode : Update(q, Cancelled(items[q], reason))
      BY <1>2 DEF cancel, cancel_next, ReasonCode
    <2>2. UNCHANGED runs /\ items[q].status = "queued"
      BY <1>2 DEF cancel, cancel_next, Queued
    <2>3. Cancelled(items[q], reason) \in Item
      BY <1>1, RowUpdateTypes
    <2>4. /\ Cancelled(items[q], reason).status = "cancelled"
          /\ Cancelled(items[q], reason).request = items[q].request
      BY <1>1 DEF Cancelled, Item
    <2> QED BY <1>0, <2>1, <2>2, <2>3, <2>4, SettleStep
  <1>3. CASE HostStep
    <2>1. ASSUME NEW req \in Requests, enqueue(req) PROVE Goal
      BY <2>1, AdmitContract, EnqueueUnroutedContract DEF enqueue
    <2>2. ASSUME NEW req \in Requests, EnqueueLocked(req) PROVE Goal
      BY <2>2 DEF EnqueueLocked, QueueInv
    <2> QED BY <1>2, <1>3, <2>1, <2>2, AdmitContract DEF HostStep
  <1>4. ASSUME NEW r \in Runs, NEW phase \in ActivePhase, set_run_phase(r, phase) PROVE Goal
    <2>1. \A s \in Runs : TurnOf(runs'[s]) = TurnOf(runs[s])
      BY <1>0, <1>4 DEF set_run_phase, TypeOK, LiveRunState, ActivePhase, TurnOf
    <2> QED BY <1>4, <2>1, UnseenStep DEF set_run_phase
  <1>5. ASSUME NEW r \in Runs, NEW c, NEW q \in QueueIds, claim_for_boundary(r, c, q) PROVE Goal
    <2> DEFINE new == [items[q] EXCEPT !.claimed_by = c]
    <2>1. /\ new.request = items[q].request /\ new.status = items[q].status
          /\ new.resolved_semantic = items[q].resolved_semantic
      BY <1>1 DEF Item
    <2>2. Update(q, new) /\ UNCHANGED runs
      BY <1>5 DEF claim_for_boundary
    <2> HIDE DEF new
    <2> QED BY <1>0, <2>1, <2>2, ClaimStep
  <1>6. ASSUME NEW r \in Runs, NEW c, NEW q \in QueueIds,
               claim_hard_redirect(r, c, runs[r].llm_generation, q)
        PROVE  Goal
    <2> DEFINE new == [items[q] EXCEPT !.claimed_by = c, !.resolved_semantic = "redirect_current",
                                       !.reason_code = "redirect_claimed",
                                       !.llm_generation = runs[r].llm_generation + 1]
    <2>1. /\ Requested(items[q]) = "redirect_current" /\ items[q].request.run = r
          /\ items[q].status = "queued" /\ runs[r].phase = "llm_in_flight"
      BY <1>6 DEF claim_hard_redirect, IsFirst, UnclaimedRedirects, list_pending, Queued
    <2>2. items[q].resolved_semantic # "queue_next"
      BY <1>1, <2>1 DEF RowInv
    <2>3. /\ new.request = items[q].request /\ new.status = items[q].status
          /\ new.resolved_semantic = "redirect_current"
      BY <1>1 DEF Item
    <2>4. Update(q, new) /\ runs' = [runs EXCEPT ![r].llm_generation = runs[r].llm_generation + 1]
      BY <1>6 DEF claim_hard_redirect
    <2> HIDE DEF new
    <2>5. View(new) = View(items[q])
      BY <2>2, <2>3 DEF View, Place, IsMessage, Requested
    <2>6. count' = count /\ \A p \in QueueIds : (p = q /\ items'[p] = new) \/ items'[p] = items[p]
      BY <1>0, <2>4 DEF Update, TypeOK, QueueIds
    <2>7. \A s \in Runs : TurnOf(runs'[s]) = TurnOf(runs[s])
      BY <1>0, <2>4 DEF TypeOK, LiveRunState, TurnOf
    <2>8. \A p \in QueueIds : View(items'[p]) = View(items[p])
      BY <2>5, <2>6
    <2> QED BY <2>6, <2>7, <2>8, UnseenStep
  <1>7. ASSUME NEW q \in QueueIds, NEW c, NEW phase, mark_applied(q, c, phase) PROVE Goal
    <2> DEFINE new == Applied(items[q], phase)
    <2>1. new \in Item /\ new.request = items[q].request
      BY <1>1, UpdatedFields
    <2>2. new.status = "applied"
      BY <1>1 DEF Applied, Item
    <2>3. Update(q, new) /\ UNCHANGED runs /\ items[q].status = "queued"
      BY <1>7 DEF mark_applied, Queued
    <2> HIDE DEF new
    <2> QED BY <1>0, <2>1, <2>2, <2>3, SettleStep
  <1>8. ASSUME NEW q \in QueueIds, mark_failed(q, "error") PROVE Goal
    <2> DEFINE new == Failed(items[q], "error")
    <2>1. new \in Item
      BY <1>1, RowUpdateTypes DEF ReasonCode
    <2>2. new.status = "failed" /\ new.request = items[q].request
      BY <1>1 DEF Failed, Item
    <2>3. Update(q, new) /\ UNCHANGED runs /\ items[q].status = "queued"
      BY <1>8 DEF mark_failed, Queued
    <2> HIDE DEF new
    <2> QED BY <1>0, <2>1, <2>2, <2>3, SettleStep
  <1>9. ASSUME NEW q \in QueueIds, NEW c, release_claim(q, c) PROVE Goal
    <2> DEFINE new == [items[q] EXCEPT !.claimed_by = Nobody]
    <2>1. /\ new.request = items[q].request /\ new.status = items[q].status
          /\ new.resolved_semantic = items[q].resolved_semantic
      BY <1>1 DEF Item
    <2>2. Update(q, new) /\ UNCHANGED runs
      BY <1>9 DEF release_claim
    <2> HIDE DEF new
    <2> QED BY <1>0, <2>1, <2>2, ClaimStep
  <1>10. CASE WorkerStep
    BY <1>4, <1>5, <1>6, <1>7, <1>8, <1>9, <1>10, CommitTerminalContract DEF WorkerStep, stop_run
  <1>11. ASSUME NEW r \in Runs, NEW c, NEW q \in QueueIds, claim_next_handoff(r, c, q) PROVE Goal
    <2> DEFINE new == [items[q] EXCEPT !.claimed_by = c, !.handoff_id = TRUE]
    <2>1. /\ new.request = items[q].request /\ new.status = items[q].status
          /\ new.resolved_semantic = items[q].resolved_semantic
      BY <1>1 DEF Item
    <2>2. Update(q, new) /\ UNCHANGED runs
      BY <1>11 DEF claim_next_handoff
    <2> HIDE DEF new
    <2> QED BY <1>0, <2>1, <2>2, ClaimStep
  <1>12. ASSUME NEW c, NEW q \in QueueIds, NEW turn \in Turns, complete_handoff(q, c, turn)
         PROVE  Goal
    <2> DEFINE new == [items[q] EXCEPT !.status = "applied", !.destination_turn_id = turn,
                                       !.reason_code = "next_handoff_completed",
                                       !.claimed_by = Nobody]
    <2>1. new \in Item
      BY <1>1 DEF Item, CommandQueueStatus, ReasonCode
    <2>2. new.status = "applied" /\ new.request = items[q].request
      BY <1>1 DEF Item
    <2>3. Update(q, new) /\ UNCHANGED runs /\ items[q].status = "queued"
      BY <1>12 DEF complete_handoff, Queued
    <2> HIDE DEF new
    <2> QED BY <1>0, <2>1, <2>2, <2>3, SettleStep
  <1>13. CASE DispatcherStep
    BY <1>11, <1>12, <1>13 DEF DispatcherStep
  <1>14. CASE UNCHANGED vars
    <2>1. UNCHANGED <<items, count, runs>>
      BY <1>14 DEF vars
    <2> QED BY <2>1, UnseenStep
  <1> QED BY <1>3, <1>10, <1>13, <1>14 DEF Next

\* For the stores whose enqueue is atomic, every step is one of the contract's four as hosts
\* see it, or nothing to them: an accepted message has one fate, and Stop and the end of a
\* turn take all pending messages with them in that step.
THEOREM QueueImplementsContract ==
    ASSUME AtomicEnqueue
    PROVE  Spec => ImplementsContract
  <1>1. Init => QueueInv
    <2>1. Init => TypeOK
      BY BoundsAssumption DEF Init, TypeOK, LiveRunState, LiveMessagePhase
    <2> QED BY <2>1 DEF Init, QueueInv, StoppedIsKnown, QueueIds
  <1>2. QueueInv /\ [Next]_vars => QueueInv'
    BY QueueInvStep
  <1>3. Init => Contract!ContractInit
    BY DEF Init, Contract!ContractInit, Contract!Row, QueueIds
  <1>4. QueueInv /\ [Next]_vars => [Contract!ContractNext]_Contract!contractVars
    BY ContractStep DEF HostsSeeNothing
  <1> QED BY <1>1, <1>2, <1>3, <1>4, PTL DEF Spec, ImplementsContract, Contract!ContractSpec

=============================================================================
