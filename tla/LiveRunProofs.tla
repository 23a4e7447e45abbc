---------------------------- MODULE LiveRunProofs ----------------------------
(***************************************************************************)
(* Theorems about LiveRun: its contexts keep their types, and a run's      *)
(* turn, its hosts and its dispatchers touch the command queue only        *)
(* through the queue's own operations, so what CommandQueueProofs proves   *)
(* of the queue holds of every run that uses it; no two workers apply one  *)
(* control; and the messages of a run driven by one worker are delivered   *)
(* once.                                                                   *)
(***************************************************************************)
EXTENDS LiveRun, CommandQueueProofs

(***************************************************************************)
(* The inductive invariant.  n is the number of rows and phase the run's   *)
(* phase.  A control a worker holds is a row of the queue; a running turn  *)
(* has reported a phase; a boundary that has claimed a control began in an *)
(* active phase, because a drain that begins in a terminal run claims      *)
(* nothing; and the two counters have room for the step they count.        *)
(***************************************************************************)
Reported == ActivePhase \cup {"terminal"}
InBoundary == {"claimed", "persisted"}
InRedirect == {"redirected", "redirect_saved"}
InLlmStep == {"drain", "stopping", "drained", "await", "answered"} \cup InBoundary \cup InRedirect

TurnOK(t, n, phase) ==
    /\ t \in RunContext
    /\ t.messages \subseteq 1..n
    /\ t.pc \in InBoundary \cup InRedirect => t.held \in 1..n
    /\ t.pc \notin {"new", "crashed"} => phase \in Reported
    /\ t.pc = "drain" => /\ t.boundary_phase \in Reported
                         /\ t.boundary_phase = "terminal" => phase = "terminal"
    /\ t.pc \in InBoundary => t.boundary_phase \in ActivePhase
    /\ t.pc \in InLlmStep => t.llm_steps < MaxLlmSteps
    /\ t.pc \in {"await"} \cup InRedirect => t.redirects < 3

LiveInv ==
    /\ TypeOK
    /\ turns \in [Workers -> RunContext]
    /\ \A w \in Workers : TurnOK(turns[w], count, runs[Run].phase)
    /\ saved \subseteq QueueIds
    /\ handed \subseteq QueueIds

\* What a step of the queue may do to what a turn knows of it.
QueueMoves ==
    /\ count' \in {count, count + 1}
    /\ \/ runs'[Run].phase = runs[Run].phase
       \/ runs'[Run].phase = "terminal"
       \/ runs'[Run].phase \in ActivePhase /\ runs[Run].phase # "terminal"

LEMMA QueueStepMoves ==
    ASSUME TypeOK, [Next]_vars
    PROVE  QueueMoves
  <1>1. CASE UNCHANGED <<count, runs>>
    BY <1>1 DEF QueueMoves
  <1>2. ASSUME NEW rows, NEW new, Insert(rows, new) PROVE count' = count + 1
    BY <1>2 DEF Insert
  <1>3. ASSUME NEW req \in Requests, admit(req) PROVE QueueMoves
    <2>1. count' = count + 1
      BY <1>2, <1>3 DEF admit
    <2>2. runs' = [runs EXCEPT ![req.run].stopped = TRUE] \/ runs' = runs
      BY <1>3 DEF admit
    <2>3. runs'[Run].phase = runs[Run].phase
      BY <2>2, WorkersAssumption DEF TypeOK, LiveRunState
    <2> QED BY <2>1, <2>3 DEF QueueMoves
  <1>4. ASSUME NEW req \in Requests, EnqueueUnrouted(req) PROVE QueueMoves
    BY <1>2, <1>4 DEF EnqueueUnrouted, QueueMoves
  <1>5. CASE HostStep
    BY <1>1, <1>3, <1>4, <1>5 DEF HostStep, enqueue, EnqueueLocked, cancel, cancel_next, Update
  <1>6. ASSUME NEW r \in Runs, NEW phase \in ActivePhase, set_run_phase(r, phase)
        PROVE  QueueMoves
    BY <1>6, WorkersAssumption DEF set_run_phase, QueueMoves, TypeOK, LiveRunState
  <1>7. ASSUME NEW r \in Runs, NEW c, NEW q, claim_hard_redirect(r, c, runs[r].llm_generation, q)
        PROVE  QueueMoves
    BY <1>7, WorkersAssumption DEF claim_hard_redirect, Update, QueueMoves, TypeOK, LiveRunState
  <1>8. ASSUME NEW r \in Runs, NEW stopped \in BOOLEAN, commit_terminal(r, stopped)
        PROVE  QueueMoves
    BY <1>8, WorkersAssumption DEF commit_terminal, QueueMoves, TypeOK, LiveRunState
  <1>9. CASE WorkerStep
    BY <1>1, <1>6, <1>7, <1>8, <1>9 DEF WorkerStep, stop_run, Update, claim_for_boundary,
       mark_applied, mark_failed, release_claim
  <1>10. CASE DispatcherStep
    BY <1>1, <1>10 DEF DispatcherStep, Update, claim_next_handoff, complete_handoff
  <1> QED BY <1>1, <1>5, <1>9, <1>10 DEF Next, vars

\* A turn that stands still is not disturbed by the queue.
LEMMA TurnStands ==
    ASSUME LiveInv, QueueMoves, NEW t, TurnOK(t, count, runs[Run].phase)
    PROVE  TurnOK(t, count', runs'[Run].phase)
  <1>1. count \in Nat /\ (count' = count \/ count' = count + 1)
    BY DEF LiveInv, TypeOK, QueueMoves
  <1>2. 1..count \subseteq 1..count'
    BY <1>1
  <1>3. runs[Run].phase \in Reported => runs'[Run].phase \in Reported
    BY DEF QueueMoves, Reported
  <1>4. runs[Run].phase = "terminal" => runs'[Run].phase = "terminal"
    BY DEF QueueMoves
  <1> QED BY <1>2, <1>3, <1>4 DEF TurnOK

\* One worker moves, over any step of the queue.
LEMMA WorkerMoves ==
    ASSUME LiveInv, [Next]_vars, NEW w \in Workers, NEW t, Become(w, t),
           TurnOK(t, count', runs'[Run].phase),
           saved' \subseteq 1..count', UNCHANGED handed
    PROVE  LiveInv'
  <1>1. TypeOK' /\ QueueMoves
    BY TypeStep, QueueStepMoves DEF LiveInv
  <1>2. turns' \in [Workers -> RunContext]
    BY DEF LiveInv, Become, TurnOK
  <1>3. \A v \in Workers : TurnOK(turns[v], count', runs'[Run].phase)
    BY <1>1, TurnStands DEF LiveInv
  <1>4. \A v \in Workers : TurnOK(turns'[v], count', runs'[Run].phase)
    BY <1>3 DEF LiveInv, Become
  <1>5. handed' \subseteq 1..count'
    <2>1. count \in Nat /\ (count' = count \/ count' = count + 1)
      BY <1>1 DEF LiveInv, TypeOK, QueueMoves
    <2> QED BY <2>1 DEF LiveInv, QueueIds
  <1> QED BY <1>1, <1>2, <1>4, <1>5 DEF LiveInv, QueueIds

\* The parts of LiveInv that the steps of one worker use.
LEMMA WorkerFacts ==
    ASSUME LiveInv, NEW w \in Workers
    PROVE  /\ turns[w] \in RunContext
           /\ TurnOK(turns[w], count, runs[Run].phase)
           /\ w \in Claimants
           /\ Run \in Runs
           /\ saved \subseteq 1..count
           /\ count \in Nat
           /\ QueueMoves => saved \subseteq 1..count' /\ 1..count \subseteq 1..count'
  <1>1. count \in Nat /\ saved \subseteq 1..count
    BY DEF LiveInv, TypeOK, QueueIds
  <1>2. QueueMoves => saved \subseteq 1..count' /\ 1..count \subseteq 1..count'
    BY <1>1 DEF QueueMoves
  <1> QED BY <1>1, <1>2, WorkersAssumption DEF LiveInv

LEMMA ReportPhaseStep ==
    ASSUME LiveInv, NEW phase \in ActivePhase, ReportPhase(phase)
    PROVE  [Next]_vars /\ runs'[Run].phase \in Reported
  <1>1. CASE runs[Run].phase = "terminal"
    BY <1>1 DEF ReportPhase, Keep, vars, Reported
  <1>2. CASE runs[Run].phase # "terminal"
    <2>1. set_run_phase(Run, phase)
      BY <1>2 DEF ReportPhase
    <2>2. Next
      BY <2>1, WorkersAssumption DEF Next, WorkerStep
    <2>3. runs'[Run].phase = phase
      BY <2>1, WorkersAssumption DEF set_run_phase, LiveInv, TypeOK, LiveRunState
    <2> QED BY <2>2, <2>3 DEF Reported
  <1> QED BY <1>1, <1>2

\* Moving to a program point that promises nothing new about the control held, the
\* boundary or the redirects.
LEMMA GoToOK ==
    ASSUME NEW t, NEW n, NEW phase, TurnOK(t, n, phase),
           NEW pc \in Pc \ ({"new", "drain", "await"} \cup InBoundary \cup InRedirect),
           phase \in Reported,
           pc \in InLlmStep => t.llm_steps < MaxLlmSteps
    PROVE  TurnOK([t EXCEPT !.pc = pc], n, phase)
  BY DEF TurnOK, RunContext, Pc, LoopHead, InBoundary, InRedirect, InLlmStep

LEMMA EndTurnStep ==
    ASSUME LiveInv, NEW w \in Workers, NEW stopped \in BOOLEAN, EndTurn(w, stopped)
    PROVE  [Next]_vars /\ LiveInv'
  <1>1. [Next]_vars
    BY WorkersAssumption DEF EndTurn, Next, WorkerStep, stop_run
  <1>2. QueueMoves
    BY <1>1, QueueStepMoves DEF LiveInv
  <1>3. TurnOK(turns[w], count', runs'[Run].phase)
    BY <1>2, TurnStands, WorkerFacts
  <1>4. runs'[Run].phase \in Reported
    BY WorkersAssumption DEF EndTurn, commit_terminal, LiveInv, TypeOK, LiveRunState, Reported
  <1>5. "ended" \in Pc \ ({"new", "drain", "await"} \cup InBoundary \cup InRedirect)
    BY DEF Pc, InBoundary, InRedirect, LoopHead
  <1>6. TurnOK([turns[w] EXCEPT !.pc = "ended"], count', runs'[Run].phase)
    BY <1>3, <1>4, <1>5, GoToOK DEF InLlmStep, InBoundary, InRedirect
  <1>7. saved' \subseteq 1..count'
    BY <1>2, WorkerFacts DEF EndTurn
  <1> QED BY <1>1, <1>6, <1>7, WorkerMoves DEF EndTurn, GoTo

\* The steps of a turn that report a phase or leave the queue alone, and move the worker
\* from one point of the loop to another.
LEMMA PlainMove ==
    ASSUME LiveInv, NEW w \in Workers, NEW t, Become(w, t), [Next]_vars,
           TurnOK(turns[w], count', runs'[Run].phase) => TurnOK(t, count', runs'[Run].phase),
           saved' \in {saved, turns[w].messages}, UNCHANGED handed
    PROVE  LiveInv'
  <1>1. QueueMoves
    BY QueueStepMoves DEF LiveInv
  <1>2. TurnOK(t, count', runs'[Run].phase)
    BY <1>1, TurnStands, WorkerFacts
  <1>3. saved' \subseteq 1..count'
    BY <1>1, WorkerFacts DEF TurnOK
  <1> QED BY <1>2, <1>3, WorkerMoves

\* A control that was held, applied or rejected leaves the boundary's phase alone.
LEMMA BackToDrainOK ==
    ASSUME NEW t, NEW n, NEW phase, TurnOK(t, n, phase), t.pc \in InBoundary
    PROVE  TurnOK([t EXCEPT !.pc = "drain"], n, phase)
  BY DEF TurnOK, RunContext, Pc, LoopHead, InBoundary, InRedirect, InLlmStep, Reported, ActivePhase

LEMMA MarkStep ==
    ASSUME LiveInv, NEW w \in Workers, NEW phase \in ActivePhase, Mark(w, phase),
           turns[w].pc \in InBoundary \cup InRedirect
    PROVE  [Next]_vars
  <1>1. turns[w].held \in QueueIds /\ w \in Claimants
    BY WorkerFacts DEF TurnOK, QueueIds
  <1>2. CASE mark_applied(turns[w].held, w, phase)
    BY <1>1, <1>2 DEF Next, WorkerStep
  <1>3. CASE Keep
    BY <1>3 DEF Keep, vars
  <1> QED BY <1>2, <1>3 DEF Mark

LEMMA BoundaryStep ==
    ASSUME LiveInv, NEW w \in Workers,
           \/ BeginDrain(w) \/ \E q \in QueueIds : ClaimControl(w, q)
           \/ _apply_control_item(w) \/ RejectControl(w) \/ MarkControl(w)
           \/ StopFromBoundary(w) \/ DrainEnds(w) \/ _park_steering_pause(w)
    PROVE  [Next]_vars /\ LiveInv'
  <1> DEFINE t == turns[w]
  <1>0. /\ t \in RunContext /\ TurnOK(t, count, runs[Run].phase)
        /\ w \in Claimants /\ Run \in Runs /\ count \in Nat
    BY WorkerFacts
  <1>1. ASSUME BeginDrain(w) PROVE [Next]_vars /\ LiveInv'
    <2> DEFINE u == [t EXCEPT !.pc = "drain", !.boundary_phase = runs[Run].phase]
    <2>1. [Next]_vars
      BY <1>1 DEF BeginDrain, Keep, vars
    <2>2. /\ Become(w, u) /\ UNCHANGED <<saved, handed, count, runs>>
          /\ t.pc = "llm_call" /\ t.llm_steps < MaxLlmSteps
      BY <1>1 DEF BeginDrain, Keep, At
    <2>3. runs[Run].phase \in LiveMessagePhase
      BY <1>0 DEF LiveInv, TypeOK, LiveRunState
    <2>4. TurnOK(u, count, runs[Run].phase)
      BY <1>0, <2>2, <2>3 DEF TurnOK, RunContext, Pc, LoopHead, InBoundary, InRedirect, InLlmStep
    <2> HIDE DEF u
    <2> QED BY <2>1, <2>2, <2>4, PlainMove
  <1>2. ASSUME NEW q \in QueueIds, ClaimControl(w, q) PROVE [Next]_vars /\ LiveInv'
    <2> DEFINE u == [t EXCEPT !.pc = "claimed", !.held = q]
    <2>1. [Next]_vars
      BY <1>0, <1>2 DEF ClaimControl, Next, WorkerStep
    <2>2. /\ Become(w, u) /\ UNCHANGED <<saved, handed, count, runs>>
          /\ t.pc = "drain" /\ runs[Run].phase # "terminal"
      BY <1>2 DEF ClaimControl, claim_for_boundary, Update, At
    <2>3. q \in 1..count /\ q \in 0..MaxItems
      BY <1>0, BoundsAssumption DEF QueueIds, LiveInv, TypeOK
    <2>4. TurnOK(u, count, runs[Run].phase)
      <3>1. t.boundary_phase \in ActivePhase /\ t.llm_steps < MaxLlmSteps
        BY <1>0, <2>2 DEF TurnOK, Reported, InLlmStep
      <3> QED
        BY <1>0, <2>2, <2>3, <3>1 DEF TurnOK, RunContext, Pc, LoopHead, InBoundary, InRedirect, InLlmStep
    <2> HIDE DEF u
    <2> QED BY <2>1, <2>2, <2>4, PlainMove
  <1>3. ASSUME _apply_control_item(w) PROVE [Next]_vars /\ LiveInv'
    <2> DEFINE q == t.held
               messages == IF IsMessage(items[q]) THEN t.messages \cup {q} ELSE t.messages
               pausing == t.pausing \/ items[q].request.kind = "pause"
               aborted == t.aborted \/ items[q].request.kind = "interrupt"
               u == [t EXCEPT !.pc = "persisted", !.messages = messages,
                              !.pausing = pausing, !.aborted = aborted]
    <2>1. /\ t.pc = "claimed" /\ Become(w, u) /\ saved' = messages /\ UNCHANGED handed
          /\ Keep \/ \E p \in QueueIds : cancel_next(p)
      BY <1>3 DEF _apply_control_item, At
    <2>2. [Next]_vars
      BY <2>1 DEF Keep, vars, Next, HostStep
    <2>3. UNCHANGED <<count, runs>>
      BY <2>1 DEF Keep, cancel_next, Update
    <2>4. messages \subseteq 1..count /\ messages \subseteq 1..MaxItems
      <3>1. t.held \in 1..count /\ t.messages \subseteq 1..count
        BY <1>0, <2>1 DEF TurnOK, InBoundary
      <3>2. count <= MaxItems
        BY BoundsAssumption DEF LiveInv, TypeOK
      <3> QED BY <1>0, <3>1, <3>2, BoundsAssumption
    <2>5. pausing \in BOOLEAN /\ aborted \in BOOLEAN
      OBVIOUS
    <2>6. TurnOK(u, count, runs[Run].phase)
      <3> HIDE DEF messages, pausing, aborted
      <3>1. u \in RunContext
        BY <1>0, <2>4, <2>5 DEF RunContext, Pc
      <3>2. /\ u.pc = "persisted" /\ u.messages = messages /\ u.held = t.held
            /\ u.boundary_phase = t.boundary_phase /\ u.llm_steps = t.llm_steps
        BY <1>0 DEF RunContext
      <3> HIDE DEF u
      <3> QED BY <1>0, <2>1, <2>4, <3>1, <3>2 DEF TurnOK, InBoundary, InRedirect, InLlmStep
    <2>7. saved' \subseteq 1..count'
      BY <2>1, <2>3, <2>4
    <2> HIDE DEF u, messages, pausing, aborted
    <2> QED BY <2>1, <2>2, <2>3, <2>6, <2>7, WorkerMoves
  <1>4. ASSUME RejectControl(w) PROVE [Next]_vars /\ LiveInv'
    <2>1. t.pc = "claimed" /\ Become(w, [t EXCEPT !.pc = "drain"]) /\ UNCHANGED <<saved, handed>>
      BY <1>4 DEF RejectControl, GoTo, At
    <2>2. t.held \in QueueIds
      BY <1>0, <2>1 DEF TurnOK, InBoundary, QueueIds
    <2>3. mark_failed(t.held, "error") \/ Keep
      BY <1>4 DEF RejectControl
    <2>4. [Next]_vars
      BY <2>2, <2>3 DEF Keep, vars, Next, WorkerStep
    <2>5. t.pc \in InBoundary
      BY <2>1 DEF InBoundary
    <2> QED BY <2>1, <2>4, <2>5, BackToDrainOK, PlainMove
  <1>5. ASSUME MarkControl(w) PROVE [Next]_vars /\ LiveInv'
    <2>1. /\ t.pc = "persisted" /\ Mark(w, t.boundary_phase) /\ UNCHANGED <<saved, handed>>
          /\ \E pc \in {"stopping", "drain"} : Become(w, [t EXCEPT !.pc = pc])
      BY <1>5 DEF MarkControl, GoTo, At
    <2>2. t.boundary_phase \in ActivePhase /\ t.pc \in InBoundary /\ t.llm_steps < MaxLlmSteps
      BY <1>0, <2>1 DEF TurnOK, InBoundary, InLlmStep
    <2>3. [Next]_vars
      BY <2>1, <2>2, MarkStep
    <2>4. ASSUME NEW n, NEW phase, TurnOK(t, n, phase)
          PROVE  TurnOK([t EXCEPT !.pc = "stopping"], n, phase)
      <3>1. "stopping" \in Pc \ ({"new", "drain", "await"} \cup InBoundary \cup InRedirect)
        BY DEF Pc, InBoundary, InRedirect, LoopHead
      <3>2. phase \in Reported
        BY <2>1, <2>4 DEF TurnOK
      <3> QED BY <2>2, <2>4, <3>1, <3>2, GoToOK
    <2>5. CASE Become(w, [t EXCEPT !.pc = "stopping"])
      BY <2>1, <2>3, <2>4, <2>5, PlainMove
    <2>6. CASE Become(w, [t EXCEPT !.pc = "drain"])
      BY <2>1, <2>2, <2>3, <2>6, BackToDrainOK, PlainMove
    <2> QED BY <2>1, <2>5, <2>6
  <1>6. ASSUME NEW n, NEW phase, TurnOK(t, n, phase), t.pc \in {"drain", "stopping"}
        PROVE  TurnOK([t EXCEPT !.pc = "drained"], n, phase)
    <2>1. "drained" \in Pc \ ({"new", "drain", "await"} \cup InBoundary \cup InRedirect)
      BY DEF Pc, InBoundary, InRedirect, LoopHead
    <2>2. phase \in Reported /\ t.llm_steps < MaxLlmSteps
      BY <1>6 DEF TurnOK, InLlmStep
    <2> QED BY <1>6, <2>1, <2>2, GoToOK
  <1>7. ASSUME StopFromBoundary(w) PROVE [Next]_vars /\ LiveInv'
    <2>1. [Next]_vars
      BY <1>0, <1>7 DEF StopFromBoundary, Next, WorkerStep
    <2> QED BY <1>6, <1>7, <2>1, PlainMove DEF StopFromBoundary, GoTo, At
  <1>8. ASSUME DrainEnds(w) PROVE [Next]_vars /\ LiveInv'
    <2>1. [Next]_vars
      BY <1>8 DEF DrainEnds, Keep, vars
    <2> QED BY <1>6, <1>8, <2>1, PlainMove DEF DrainEnds, GoTo, At
  <1>9. ASSUME _park_steering_pause(w) PROVE [Next]_vars /\ LiveInv'
    <2> DEFINE u == [t EXCEPT !.pc = "paused", !.pausing = FALSE]
    <2>1. /\ Become(w, u) /\ saved' = t.messages /\ UNCHANGED handed /\ t.pc = "drained"
          /\ ReportPhase("approval_pause")
      BY <1>9 DEF _park_steering_pause, At
    <2>2. [Next]_vars
      BY <2>1, ReportPhaseStep DEF ActivePhase
    <2>3. ASSUME NEW n, NEW phase, TurnOK(t, n, phase) PROVE TurnOK(u, n, phase)
      BY <1>0, <2>1, <2>3 DEF TurnOK, RunContext, Pc, LoopHead, InBoundary, InRedirect, InLlmStep
    <2> HIDE DEF u
    <2> QED BY <2>1, <2>2, <2>3, PlainMove
  <1> QED BY <1>1, <1>2, <1>3, <1>4, <1>5, <1>7, <1>8, <1>9

LEMMA BeginCallType ==
    ASSUME NEW t \in RunContext, NEW asked \in SUBSET (1..MaxItems), NEW generation \in Nat
    PROVE  [t EXCEPT !.pc = "await", !.asked = asked, !.redirects = 0,
                     !.generation = generation] \in RunContext
  <1>1. [t EXCEPT !.pc = "await", !.asked = asked] \in RunContext
    BY DEF RunContext, Pc
  <1>2. ASSUME NEW u \in RunContext
        PROVE  [u EXCEPT !.redirects = 0, !.generation = generation] \in RunContext
    <2>1. [u EXCEPT !.redirects = 0] \in RunContext
      BY DEF RunContext
    <2>2. ASSUME NEW v \in RunContext PROVE [v EXCEPT !.generation = generation] \in RunContext
      BY DEF RunContext
    <2>3. [u EXCEPT !.redirects = 0, !.generation = generation] =
          [[u EXCEPT !.redirects = 0] EXCEPT !.generation = generation]
      OBVIOUS
    <2> QED BY <2>1, <2>2, <2>3
  <1>3. [t EXCEPT !.pc = "await", !.asked = asked, !.redirects = 0, !.generation = generation] =
        [[t EXCEPT !.pc = "await", !.asked = asked] EXCEPT !.redirects = 0,
                                                          !.generation = generation]
    OBVIOUS
  <1> QED BY <1>1, <1>2, <1>3

LEMMA LlmCallStep ==
    ASSUME LiveInv, NEW w \in Workers,
           \/ BeginCall(w) \/ CallReturns(w) \/ SaveAnswer(w) \/ CallFenced(w)
           \/ \E q \in QueueIds : CallRedirected(w, q)
           \/ _apply_redirect_correction(w) \/ MarkRedirect(w)
    PROVE  [Next]_vars /\ LiveInv'
  <1> DEFINE t == turns[w]
  <1>0. /\ t \in RunContext /\ TurnOK(t, count, runs[Run].phase)
        /\ w \in Claimants /\ Run \in Runs /\ count \in Nat
    BY WorkerFacts
  <1>g. runs[Run].llm_generation \in Nat
    BY <1>0 DEF LiveInv, TypeOK, LiveRunState
  <1>1. ASSUME BeginCall(w) PROVE [Next]_vars /\ LiveInv'
    <2> DEFINE u == [t EXCEPT !.pc = "await", !.asked = t.messages, !.redirects = 0,
                              !.generation = runs[Run].llm_generation]
    <2>1. /\ Become(w, u) /\ UNCHANGED <<saved, handed>> /\ t.pc = "drained"
          /\ ReportPhase("llm_in_flight")
      BY <1>1 DEF BeginCall, At
    <2>2. [Next]_vars
      BY <2>1, ReportPhaseStep DEF ActivePhase
    <2>3. u \in RunContext
      <3>1. t.messages \in SUBSET (1..MaxItems)
        BY <1>0 DEF RunContext
      <3> QED BY <1>0, <1>g, <3>1, BeginCallType
    <2>4. /\ u.pc = "await" /\ u.messages = t.messages /\ u.redirects = 0
          /\ u.llm_steps = t.llm_steps
      BY <1>0 DEF RunContext
    <2> HIDE DEF u
    <2>5. ASSUME NEW n, NEW phase, TurnOK(t, n, phase) PROVE TurnOK(u, n, phase)
      BY <2>1, <2>3, <2>4, <2>5 DEF TurnOK, InBoundary, InRedirect, InLlmStep
    <2> QED BY <2>1, <2>2, <2>5, PlainMove
  <1>2. ASSUME CallReturns(w) PROVE [Next]_vars /\ LiveInv'
    <2> DEFINE u == [t EXCEPT !.pc = "answered", !.answered = t.asked]
    <2>1. Become(w, u) /\ UNCHANGED <<saved, handed>> /\ t.pc = "await" /\ [Next]_vars
      BY <1>2 DEF CallReturns, At, Keep, vars
    <2>2. ASSUME NEW n, NEW phase, TurnOK(t, n, phase) PROVE TurnOK(u, n, phase)
      BY <1>0, <2>1, <2>2 DEF TurnOK, RunContext, Pc, LoopHead, InBoundary, InRedirect, InLlmStep
    <2> HIDE DEF u
    <2> QED BY <2>1, <2>2, PlainMove
  <1>3. ASSUME SaveAnswer(w) PROVE [Next]_vars /\ LiveInv'
    <2> DEFINE u == [t EXCEPT !.pc = "tool_stage", !.llm_steps = t.llm_steps + 1]
    <2>1. /\ Become(w, u) /\ saved' = t.messages /\ UNCHANGED handed /\ t.pc = "answered"
          /\ [Next]_vars
      BY <1>3 DEF SaveAnswer, At, Keep, vars
    <2>2. t.llm_steps + 1 \in 0..MaxLlmSteps
      BY <1>0, <2>1, TurnAssumption DEF TurnOK, RunContext, InLlmStep
    <2>3. ASSUME NEW n, NEW phase, TurnOK(t, n, phase) PROVE TurnOK(u, n, phase)
      BY <1>0, <2>1, <2>2, <2>3 DEF TurnOK, RunContext, Pc, LoopHead, InBoundary, InRedirect, InLlmStep
    <2> HIDE DEF u
    <2> QED BY <2>1, <2>3, PlainMove
  <1>4. ASSUME CallFenced(w) PROVE [Next]_vars /\ LiveInv'
    <2> DEFINE u == [t EXCEPT !.pc = "fenced"]
    <2>1. Become(w, u) /\ UNCHANGED <<saved, handed>> /\ t.pc = "await" /\ [Next]_vars
      BY <1>4 DEF CallFenced, GoTo, At, Keep, vars
    <2>2. ASSUME NEW n, NEW phase, TurnOK(t, n, phase) PROVE TurnOK(u, n, phase)
      BY <1>0, <2>1, <2>2 DEF TurnOK, RunContext, Pc, LoopHead, InBoundary, InRedirect, InLlmStep
    <2> HIDE DEF u
    <2> QED BY <2>1, <2>2, PlainMove
  <1>5. ASSUME NEW q \in QueueIds, CallRedirected(w, q) PROVE [Next]_vars /\ LiveInv'
    <2> DEFINE u == [t EXCEPT !.pc = "redirected", !.held = q, !.generation = t.generation + 1]
    <2>1. /\ Become(w, u) /\ UNCHANGED <<saved, handed, count>> /\ t.pc = "await"
          /\ claim_hard_redirect(Run, w, t.generation, q)
      BY <1>5 DEF CallRedirected, claim_hard_redirect, Update, At
    <2>2. t.generation = runs[Run].llm_generation
      BY <2>1 DEF claim_hard_redirect
    <2>3. [Next]_vars
      BY <1>0, <2>1, <2>2 DEF Next, WorkerStep
    <2>4. q \in 1..count /\ q \in 0..MaxItems
      BY <1>0, BoundsAssumption DEF QueueIds, LiveInv, TypeOK
    <2>5. u \in RunContext
      <3>1. t.generation + 1 \in Nat
        BY <1>0 DEF RunContext
      <3> QED BY <1>0, <2>4, <3>1 DEF RunContext, Pc
    <2>6. /\ u.pc = "redirected" /\ u.messages = t.messages /\ u.held = q
          /\ u.redirects = t.redirects /\ u.llm_steps = t.llm_steps
      BY <1>0 DEF RunContext
    <2> HIDE DEF u
    <2>7. ASSUME NEW phase, TurnOK(t, count, phase) PROVE TurnOK(u, count, phase)
      BY <2>1, <2>4, <2>5, <2>6, <2>7 DEF TurnOK, InBoundary, InRedirect, InLlmStep
    <2> QED BY <2>1, <2>3, <2>7, PlainMove
  <1>6. ASSUME _apply_redirect_correction(w) PROVE [Next]_vars /\ LiveInv'
    <2> DEFINE messages == t.messages \cup {t.held}
               u == [t EXCEPT !.pc = "redirect_saved", !.messages = messages]
    <2>1. /\ Become(w, u) /\ saved' = messages /\ UNCHANGED <<handed, count, runs>>
          /\ t.pc = "redirected" /\ [Next]_vars
      BY <1>6 DEF _apply_redirect_correction, At, Keep, vars
    <2>2. messages \subseteq 1..count /\ messages \subseteq 1..MaxItems
      <3>1. t.held \in 1..count /\ t.messages \subseteq 1..count
        BY <1>0, <2>1 DEF TurnOK, InRedirect
      <3>2. count <= MaxItems
        BY BoundsAssumption DEF LiveInv, TypeOK
      <3> QED BY <1>0, <3>1, <3>2, BoundsAssumption
    <2> HIDE DEF messages
    <2>3. TurnOK(u, count, runs[Run].phase)
      BY <1>0, <2>1, <2>2 DEF TurnOK, RunContext, Pc, LoopHead, InBoundary, InRedirect, InLlmStep
    <2> HIDE DEF u
    <2> QED BY <2>1, <2>2, <2>3, WorkerMoves
  <1>7. ASSUME MarkRedirect(w) PROVE [Next]_vars /\ LiveInv'
    <2> DEFINE u == AfterRedirect(t, t.redirects + 1)
    <2>1. /\ Become(w, u) /\ UNCHANGED <<saved, handed>> /\ t.pc = "redirect_saved"
          /\ Mark(w, "llm_in_flight")
      BY <1>7 DEF MarkRedirect, At
    <2>2. [Next]_vars
      BY <2>1, MarkStep DEF ActivePhase, InRedirect
    <2>3. t.redirects + 1 \in 0..3
      BY <1>0, <2>1 DEF TurnOK, RunContext, InRedirect
    <2>4. ASSUME NEW n, NEW phase, TurnOK(t, n, phase) PROVE TurnOK(u, n, phase)
      <3>1. CASE t.redirects + 1 < 3
        <4> DEFINE v == [t EXCEPT !.pc = "await", !.redirects = t.redirects + 1,
                                  !.asked = t.messages]
        <4>1. u = v
          BY <3>1 DEF AfterRedirect
        <4>2. TurnOK(v, n, phase)
          BY <1>0, <2>1, <2>3, <2>4, <3>1 DEF TurnOK, RunContext, Pc, LoopHead, InBoundary, InRedirect, InLlmStep
        <4> QED BY <4>1, <4>2
      <3>2. CASE ~(t.redirects + 1 < 3) /\ t.llm_steps = 0
        <4> DEFINE v == [t EXCEPT !.pc = "raised"]
        <4>1. u = v
          BY <3>2 DEF AfterRedirect
        <4>2. TurnOK(v, n, phase)
          BY <1>0, <2>1, <2>4 DEF TurnOK, RunContext, Pc, LoopHead, InBoundary, InRedirect, InLlmStep
        <4> QED BY <4>1, <4>2
      <3>3. CASE ~(t.redirects + 1 < 3) /\ t.llm_steps # 0
        <4> DEFINE v == [t EXCEPT !.pc = "answered", !.redirects = t.redirects + 1]
        <4>1. u = v
          BY <3>3 DEF AfterRedirect
        <4>2. TurnOK(v, n, phase)
          BY <1>0, <2>1, <2>3, <2>4 DEF TurnOK, RunContext, Pc, LoopHead, InBoundary, InRedirect, InLlmStep
        <4> QED BY <4>1, <4>2
      <3> QED BY <3>1, <3>2, <3>3
    <2> HIDE DEF u
    <2> QED BY <2>1, <2>2, <2>4, PlainMove
  <1> QED BY <1>1, <1>2, <1>3, <1>4, <1>5, <1>6, <1>7

LEMMA LoopStep ==
    ASSUME LiveInv, NEW w \in Workers,
           \/ StartRun(w) \/ _execute_tool_stage(w) \/ ParkInterrupt(w)
           \/ \E next \in {"llm_call", "finalize"} : ToolStageEnds(w, next)
           \/ _execute_finalize(w) \/ _resume_after_finalize(w)
           \/ Crash(w) \/ HostAbort(w) \/ \E next \in LoopHead : ResumeTurn(w, next)
    PROVE  [Next]_vars /\ LiveInv'
  <1> DEFINE t == turns[w]
             Plain == LoopHead \cup {"tools", "finalizing", "parked"}
  <1>0. /\ t \in RunContext /\ TurnOK(t, count, runs[Run].phase) /\ Run \in Runs
    BY WorkerFacts
  <1>1. ASSUME StartRun(w) PROVE [Next]_vars /\ LiveInv'
    <2> DEFINE u == [t EXCEPT !.pc = "llm_call", !.generation = runs[Run].llm_generation]
    <2>1. Become(w, u) /\ UNCHANGED <<saved, handed>> /\ ReportPhase("llm_in_flight")
      BY <1>1 DEF StartRun
    <2>2. [Next]_vars /\ runs'[Run].phase \in Reported
      BY <2>1, ReportPhaseStep DEF ActivePhase
    <2>3. runs[Run].llm_generation \in Nat
      BY <1>0 DEF LiveInv, TypeOK, LiveRunState
    <2>4. ASSUME NEW n, NEW phase, TurnOK(t, n, phase), phase \in Reported
          PROVE  TurnOK(u, n, phase)
      <3>1. u \in RunContext /\ u.pc = "llm_call" /\ u.messages = t.messages
        BY <1>0, <2>3 DEF RunContext, Pc, LoopHead
      <3> HIDE DEF u
      <3> QED BY <2>4, <3>1 DEF TurnOK, InBoundary, InRedirect, InLlmStep
    <2> HIDE DEF u
    <2> QED BY <2>1, <2>2, <2>4, PlainMove
  <1>2. ASSUME NEW pc \in Plain, NEW n, NEW phase, TurnOK(t, n, phase), t.pc \notin {"new", "crashed"}
        PROVE  TurnOK([t EXCEPT !.pc = pc], n, phase)
    <2>1. pc \in Pc \ ({"new", "drain", "await"} \cup InBoundary \cup InRedirect) /\ pc \notin InLlmStep
      BY DEF Pc, LoopHead, InBoundary, InRedirect, InLlmStep
    <2>2. phase \in Reported
      BY <1>2 DEF TurnOK
    <2> QED BY <1>2, <2>1, <2>2, GoToOK
  <1>3. ASSUME NEW phase \in ActivePhase, NEW pc \in Plain, ReportPhase(phase) \/ Keep,
               t.pc \notin {"new", "crashed"}, Become(w, [t EXCEPT !.pc = pc]),
               saved' \in {saved, t.messages}, UNCHANGED handed
        PROVE  [Next]_vars /\ LiveInv'
    <2>1. [Next]_vars
      BY <1>3, ReportPhaseStep DEF Keep, vars
    <2>2. TurnOK(t, count', runs'[Run].phase) =>
              TurnOK([t EXCEPT !.pc = pc], count', runs'[Run].phase)
      BY <1>2, <1>3
    <2> QED BY <1>3, <2>1, <2>2, PlainMove
  <1>4. ASSUME _execute_tool_stage(w) PROVE [Next]_vars /\ LiveInv'
    BY <1>3, <1>4 DEF _execute_tool_stage, GoTo, At, ActivePhase
  <1>5. ASSUME ParkInterrupt(w) PROVE [Next]_vars /\ LiveInv'
    BY <1>3, <1>5 DEF ParkInterrupt, GoTo, At, ActivePhase
  <1>6. ASSUME NEW next \in {"llm_call", "finalize"}, ToolStageEnds(w, next)
        PROVE  [Next]_vars /\ LiveInv'
    <2>1. next \in Plain /\ "tool_in_flight" \in ActivePhase
      BY DEF LoopHead, ActivePhase
    <2>2. Become(w, [t EXCEPT !.pc = next]) /\ t.pc = "tools"
      BY <1>6 DEF ToolStageEnds, GoTo, At
    <2> QED BY <1>3, <1>6, <2>1, <2>2 DEF ToolStageEnds
  <1>7. ASSUME _execute_finalize(w) PROVE [Next]_vars /\ LiveInv'
    BY <1>3, <1>7 DEF _execute_finalize, GoTo, At, ActivePhase
  <1>8. ASSUME _resume_after_finalize(w) PROVE [Next]_vars /\ LiveInv'
    BY <1>3, <1>8 DEF _resume_after_finalize, GoTo, At, ActivePhase, LoopHead
  <1>9. ASSUME Crash(w) PROVE [Next]_vars /\ LiveInv'
    <2> DEFINE u == [t EXCEPT !.pc = "crashed"]
    <2>1. Become(w, u) /\ UNCHANGED <<saved, handed>> /\ [Next]_vars
      BY <1>9 DEF Crash, GoTo, Keep, vars
    <2>2. ASSUME NEW n, NEW phase, TurnOK(t, n, phase) PROVE TurnOK(u, n, phase)
      BY <1>0, <2>2 DEF TurnOK, RunContext, Pc, LoopHead, InBoundary, InRedirect, InLlmStep
    <2> HIDE DEF u
    <2> QED BY <2>1, <2>2, PlainMove
  <1>10. ASSUME HostAbort(w) PROVE [Next]_vars /\ LiveInv'
    <2> DEFINE u == [t EXCEPT !.aborted = TRUE]
    <2>1. Become(w, u) /\ UNCHANGED <<saved, handed>> /\ [Next]_vars
      BY <1>10 DEF HostAbort, Keep, vars
    <2>2. ASSUME NEW n, NEW phase, TurnOK(t, n, phase) PROVE TurnOK(u, n, phase)
      BY <1>0, <2>2 DEF TurnOK, RunContext
    <2> HIDE DEF u
    <2> QED BY <2>1, <2>2, PlainMove
  <1>11. ASSUME NEW next \in LoopHead, ResumeTurn(w, next) PROVE [Next]_vars /\ LiveInv'
    <2> DEFINE u == [t EXCEPT !.pc = next, !.messages = saved, !.aborted = FALSE]
    <2>1. /\ Become(w, u) /\ UNCHANGED <<saved, handed>> /\ t.pc \in {"paused", "parked"}
          /\ \E phase \in {"tool_in_flight", "llm_in_flight"} : ReportPhase(phase)
      BY <1>11 DEF ResumeTurn, At
    <2>2. [Next]_vars
      BY <2>1, ReportPhaseStep DEF ActivePhase
    <2>3. QueueMoves
      BY <2>2, QueueStepMoves DEF LiveInv
    <2>4. saved \subseteq 1..count' /\ saved \subseteq 1..MaxItems
      <3>1. count \in Nat /\ count <= MaxItems /\ saved \subseteq 1..count
        BY BoundsAssumption DEF LiveInv, TypeOK, QueueIds
      <3> QED BY <2>3, <3>1, WorkerFacts, BoundsAssumption
    <2>5. ASSUME NEW phase, TurnOK(t, count', phase) PROVE TurnOK(u, count', phase)
      BY <1>0, <2>1, <2>4, <2>5 DEF TurnOK, RunContext, Pc, LoopHead, InBoundary, InRedirect, InLlmStep
    <2> HIDE DEF u
    <2> QED BY <2>1, <2>2, <2>5, PlainMove
  <1> QED BY <1>1, <1>4, <1>5, <1>6, <1>7, <1>8, <1>9, <1>10, <1>11

LEMMA DispatchStep ==
    ASSUME LiveInv, NEW d \in Dispatchers, NEW q \in QueueIds,
           \/ ClaimNext(d, q) \/ create_next_turn(d, q) \/ FailHandoff(d, q)
           \/ \E turn \in Turns : CompleteHandoff(d, q, turn)
    PROVE  [Next]_vars /\ UNCHANGED <<turns, saved>> /\ handed' \subseteq QueueIds
  <1>1. d \in Claimants /\ Run \in Runs /\ handed \subseteq QueueIds
    BY WorkersAssumption DEF LiveInv
  <1>2. CASE ClaimNext(d, q)
    BY <1>1, <1>2 DEF ClaimNext, Next, DispatcherStep
  <1>3. CASE create_next_turn(d, q)
    BY <1>1, <1>3 DEF create_next_turn, Keep, vars
  <1>4. CASE FailHandoff(d, q)
    BY <1>1, <1>4 DEF FailHandoff, Next, WorkerStep
  <1>5. ASSUME NEW turn \in Turns, CompleteHandoff(d, q, turn)
        PROVE  [Next]_vars /\ UNCHANGED <<turns, saved, handed>>
    BY <1>1, <1>5 DEF CompleteHandoff, Next, DispatcherStep
  <1> QED BY <1>1, <1>2, <1>3, <1>4, <1>5

\* Every step of a live run is a step of the queue, or leaves the queue alone, and keeps
\* the invariant.
LEMMA LiveStep ==
    ASSUME LiveInv, [LiveNext]_liveVars
    PROVE  [Next]_vars /\ LiveInv'
  <1>1. ASSUME [Next]_vars, UNCHANGED <<turns, saved>>, handed' \subseteq QueueIds
        PROVE  LiveInv'
    <2>1. TypeOK' /\ QueueMoves
      BY <1>1, TypeStep, QueueStepMoves DEF LiveInv
    <2>2. \A v \in Workers : TurnOK(turns[v], count', runs'[Run].phase)
      BY <2>1, TurnStands DEF LiveInv
    <2>3. count \in Nat /\ 1..count \subseteq 1..count'
      BY <2>1 DEF QueueMoves, LiveInv, TypeOK
    <2> QED BY <1>1, <2>1, <2>2, <2>3 DEF LiveInv, QueueIds
  <1>2. CASE UNCHANGED liveVars
    BY <1>1, <1>2 DEF liveVars, vars, LiveInv
  <1>3. CASE HostStep /\ UNCHANGED <<turns, saved, handed>>
    BY <1>1, <1>3 DEF Next, LiveInv
  <1>4. ASSUME NEW w \in Workers,
               \/ TurnStep(w) \/ Crash(w) \/ HostAbort(w)
               \/ \E next \in LoopHead : ResumeTurn(w, next)
               \/ \E stopped \in BOOLEAN : EndParked(w, stopped)
        PROVE  [Next]_vars /\ LiveInv'
    <2>1. turns[w].aborted \in BOOLEAN
      BY WorkerFacts DEF RunContext
    <2>2. ASSUME NEW stopped \in BOOLEAN, EndTurn(w, stopped) PROVE [Next]_vars /\ LiveInv'
      BY <2>2, EndTurnStep
    <2>3. CASE _terminal_from_limits(w) \/ StepTimesOut(w)
      BY <2>1, <2>2, <2>3 DEF _terminal_from_limits, StepTimesOut
    <2>4. CASE CallAborted(w) \/ CallFails(w) \/ Finish(w)
               \/ \E stopped \in BOOLEAN : EndParked(w, stopped)
      BY <2>2, <2>4 DEF CallAborted, CallFails, Finish, EndParked
    <2> QED BY <1>4, <2>3, <2>4, BoundaryStep, LlmCallStep, LoopStep DEF TurnStep
  <1>5. ASSUME NEW d \in Dispatchers, NEW q \in QueueIds,
               \/ ClaimNext(d, q) \/ create_next_turn(d, q) \/ FailHandoff(d, q)
               \/ \E turn \in Turns : CompleteHandoff(d, q, turn)
        PROVE  [Next]_vars /\ LiveInv'
    BY <1>1, <1>5, DispatchStep
  <1> QED BY <1>2, <1>3, <1>4, <1>5 DEF LiveNext

LEMMA LiveInitInv == LiveInit => LiveInv
  <1> SUFFICES ASSUME LiveInit PROVE LiveInv
    OBVIOUS
  <1>1. TypeOK
    BY BoundsAssumption DEF LiveInit, Init, TypeOK, LiveRunState, LiveMessagePhase
  <1>2. PICK handle \in BOOLEAN :
          turns = [w \in Workers |->
                      [pc |-> "new", held |-> 0, messages |-> {}, asked |-> {},
                       answered |-> {}, redirects |-> 0, generation |-> 0,
                       boundary_phase |-> "unknown", pausing |-> FALSE,
                       handle |-> handle, aborted |-> FALSE, llm_steps |-> 0]]
    BY DEF LiveInit
  <1> DEFINE t == [pc |-> "new", held |-> 0, messages |-> {}, asked |-> {},
                   answered |-> {}, redirects |-> 0, generation |-> 0,
                   boundary_phase |-> "unknown", pausing |-> FALSE,
                   handle |-> handle, aborted |-> FALSE, llm_steps |-> 0]
  <1>3. t \in RunContext
    BY BoundsAssumption, TurnAssumption DEF RunContext, Pc, LiveMessagePhase
  <1>4. t.pc = "new" /\ t.messages = {}
    OBVIOUS
  <1>5. \A w \in Workers : turns[w] = t
    BY <1>2
  <1>6. turns \in [Workers -> RunContext]
    BY <1>2, <1>3
  <1> HIDE DEF t
  <1>7. TurnOK(t, count, runs[Run].phase)
    BY <1>3, <1>4 DEF TurnOK, InBoundary, InRedirect, InLlmStep
  <1> QED BY <1>1, <1>5, <1>6, <1>7 DEF LiveInv, LiveInit

\* The type invariant of LiveRun for every set of workers, dispatchers and requests: a turn
\* stays within its model calls, a step within its redirects, and what a worker holds, its
\* transcript, the checkpoint and the handed-over messages are rows of the queue.
THEOREM LiveTypeCorrect == LiveSpec => []LiveTypeOK
  <1>1. LiveInv /\ [LiveNext]_liveVars => LiveInv'
    BY LiveStep
  <1>2. LiveInv => LiveTypeOK
    BY DEF LiveInv, LiveTypeOK
  <1> QED BY <1>1, <1>2, LiveInitInv, PTL DEF LiveSpec

\* Refinement: the step loop, the boundary drain, the redirected model call, the hosts and
\* the dispatchers of a run perform steps of CommandQueue and no other change to its rows
\* and run states, however workers interleave, crash, park and resume.
THEOREM LiveRunUsesTheQueue == LiveSpec => UsesTheQueue
  <1>1. LiveInv /\ [LiveNext]_liveVars => LiveInv' /\ [Next]_vars
    BY LiveStep
  <1>2. LiveInit => Init
    BY DEF LiveInit
  <1> QED BY <1>1, <1>2, LiveInitInv, PTL DEF LiveSpec, UsesTheQueue, Spec

\* What the queue guarantees holds of every live run over an atomic store: a stopped run
\* leaves no message pending, an ended one only NEXT messages, and a NEXT message waits
\* for the end of the turn.
THEOREM LiveRunQueueSafety ==
    ASSUME AtomicEnqueue
    PROVE  LiveSpec => []MessagesHaveTheirPlace
  BY LiveRunUsesTheQueue, QueueSafety, PTL DEF UsesTheQueue

\* The other guarantees of the queue reach every live run the same way: an idempotency key
\* names one row and a generation one redirect; nothing that is settled, claimed, ended or
\* stopped goes back; and over an atomic store hosts see the contract of live messages.
THEOREM LiveRunQueueGuarantees ==
    /\ LiveSpec => []NamesAreUnique
    /\ LiveSpec => OnlyForward
    /\ AtomicEnqueue => (LiveSpec => ImplementsContract)
  <1>1. LiveSpec => []NamesAreUnique
    BY LiveRunUsesTheQueue, QueueNames, PTL DEF UsesTheQueue
  <1>2. LiveSpec => OnlyForward
    BY LiveRunUsesTheQueue, QueueOnlyForward, PTL DEF UsesTheQueue
  <1>3. ASSUME AtomicEnqueue PROVE LiveSpec => ImplementsContract
    BY <1>3, LiveRunUsesTheQueue, QueueImplementsContract, PTL DEF UsesTheQueue
  <1> QED BY <1>1, <1>2, <1>3

-----------------------------------------------------------------------------
(***************************************************************************)
(* Two workers of one run.  A control that a worker is applying is claimed *)
(* by that worker, or has been settled meanwhile (a Stop), or the run is   *)
(* over and the claim was taken back by the promotion: in each case no     *)
(* boundary and no model call of another worker can claim it.              *)
(***************************************************************************)
HeldIsOurs(w) ==
    Applying(w) =>
        /\ turns[w].held \in QueueIds
        /\ \/ ~Queued(turns[w].held)
           \/ items[turns[w].held].claimed_by = w
           \/ runs[Run].phase = "terminal"

\* A run gives up a claim by settling the row or by ending; nobody calls release_claim.
ClaimsAreKept ==
    \A q \in QueueIds : items[q].claimed_by # Nobody =>
        \/ items'[q].claimed_by = items[q].claimed_by
        \/ items'[q].status # "queued"
        \/ runs'[Run].phase = "terminal"

\* The row of a claim or of a settlement is the only one that changes.
LEMMA OneRowKeepsClaims ==
    ASSUME TypeOK, NEW q \in QueueIds, NEW new, Update(q, new),
           items[q].claimed_by = Nobody \/ new.status # "queued" \/ new.claimed_by = items[q].claimed_by
    PROVE  ClaimsAreKept
  <1>1. \A p \in QueueIds : items'[p] = IF p = q THEN new ELSE items[p]
    BY DEF Update, TypeOK, QueueIds
  <1> QED BY <1>1 DEF ClaimsAreKept

\* Settling a row and claiming a free one, by whatever operation.
LEMMA SettlingKeepsClaims ==
    ASSUME TypeOK, NEW q \in QueueIds,
           \/ \E error : mark_failed(q, error)
           \/ \E c, phase : mark_applied(q, c, phase)
           \/ \E c, turn : complete_handoff(q, c, turn)
           \/ cancel(q) \/ cancel_next(q)
    PROVE  ClaimsAreKept
  <1>0. items[q] \in Item
    BY DEF TypeOK, QueueIds
  <1>1. ASSUME NEW error, mark_failed(q, error) PROVE ClaimsAreKept
    <2>1. Failed(items[q], error).status = "failed"
      BY <1>0 DEF Failed, Item
    <2> QED BY <1>1, <2>1, OneRowKeepsClaims DEF mark_failed
  <1>2. ASSUME NEW c, NEW phase, mark_applied(q, c, phase) PROVE ClaimsAreKept
    <2>1. Applied(items[q], phase).status = "applied"
      BY <1>0 DEF Applied, Item
    <2> QED BY <1>2, <2>1, OneRowKeepsClaims DEF mark_applied
  <1>3. ASSUME NEW c, NEW turn, complete_handoff(q, c, turn) PROVE ClaimsAreKept
    <2> DEFINE new == [items[q] EXCEPT !.status = "applied", !.destination_turn_id = turn,
                                       !.reason_code = "next_handoff_completed",
                                       !.claimed_by = Nobody]
    <2>1. new.status = "applied" /\ Update(q, new)
      BY <1>0, <1>3 DEF complete_handoff, Item
    <2> HIDE DEF new
    <2> QED BY <2>1, OneRowKeepsClaims
  <1>4. ASSUME cancel(q) \/ cancel_next(q) PROVE ClaimsAreKept
    <2>1. items[q].claimed_by = Nobody /\ \E new : Update(q, new)
      BY <1>4 DEF cancel, cancel_next, Unclaimed
    <2> QED BY <2>1, OneRowKeepsClaims
  <1> QED BY <1>1, <1>2, <1>3, <1>4

LEMMA ClaimingKeepsClaims ==
    ASSUME TypeOK, NEW q \in QueueIds, NEW c,
           \/ claim_for_boundary(Run, c, q)
           \/ \E generation : claim_hard_redirect(Run, c, generation, q)
           \/ claim_next_handoff(Run, c, q)
    PROVE  ClaimsAreKept
  <1>0. items[q] \in Item
    BY DEF TypeOK, QueueIds
  <1>1. CASE claim_for_boundary(Run, c, q)
    BY <1>1, OneRowKeepsClaims DEF claim_for_boundary, IsFirst, BoundaryEligible, Unclaimed
  <1>2. ASSUME NEW generation, claim_hard_redirect(Run, c, generation, q) PROVE ClaimsAreKept
    BY <1>2, OneRowKeepsClaims DEF claim_hard_redirect, IsFirst, UnclaimedRedirects, Unclaimed
  <1>3. CASE claim_next_handoff(Run, c, q)
    <2> DEFINE new == [items[q] EXCEPT !.claimed_by = c, !.handoff_id = TRUE]
    <2>1. items[q].claimed_by \in {Nobody, c} /\ Update(q, new) /\ new.claimed_by = c
      BY <1>0, <1>3 DEF claim_next_handoff, IsFirst, HandoffEligible, Item
    <2> HIDE DEF new
    <2> QED BY <2>1, OneRowKeepsClaims
  <1> QED BY <1>1, <1>2, <1>3

LEMMA InsertingKeepsClaims ==
    ASSUME TypeOK, NEW req, admit(req) \/ EnqueueUnrouted(req)
    PROVE  ClaimsAreKept
  <1>1. ASSUME NEW rows, NEW new, Insert(rows, new), NEW q \in QueueIds
        PROVE  items'[q] = rows[q]
    BY <1>1 DEF Insert, TypeOK, QueueIds
  <1>2. CASE EnqueueUnrouted(req)
    BY <1>1, <1>2 DEF EnqueueUnrouted, ClaimsAreKept
  <1>3. CASE admit(req)
    <2>1. ASSUME NEW q \in QueueIds
          PROVE  items'[q] = items[q] \/ items'[q].status = "failed"
      <3>1. items[q] \in Item
        BY DEF TypeOK, QueueIds
      <3>2. Failed(items[q], "run_stopped").status = "failed"
        BY <3>1 DEF Failed, Item
      <3>3. items'[q] = items[q] \/ items'[q] = StopPreempts(req.run)[q]
        BY <1>1, <1>3 DEF admit
      <3>4. StopPreempts(req.run)[q] \in {items[q], Failed(items[q], "run_stopped")}
        BY DEF StopPreempts
      <3> QED BY <3>2, <3>3, <3>4
    <2> QED BY <2>1 DEF ClaimsAreKept
  <1> QED BY <1>2, <1>3

\* Whatever happens in a live run, claims are kept until they are settled or the run ends.
LEMMA LiveRunKeepsClaims ==
    ASSUME LiveInv, [LiveNext]_liveVars
    PROVE  ClaimsAreKept
  <1>0. TypeOK /\ Run \in Runs
    BY WorkersAssumption DEF LiveInv
  <1>1. ASSUME items' = items PROVE ClaimsAreKept
    BY <1>1 DEF ClaimsAreKept
  <1>2. ASSUME NEW stopped, commit_terminal(Run, stopped) PROVE ClaimsAreKept
    <2>1. runs'[Run].phase = "terminal"
      BY <1>0, <1>2 DEF commit_terminal, TypeOK, LiveRunState
    <2> QED BY <2>1 DEF ClaimsAreKept
  <1>3. CASE HostStep
    <2>1. ASSUME NEW req \in Requests, admit(req) \/ enqueue(req) \/ EnqueueLocked(req)
          PROVE  ClaimsAreKept
      BY <1>0, <1>1, <2>1, InsertingKeepsClaims DEF enqueue, EnqueueLocked
    <2> QED BY <1>0, <1>3, <2>1, SettlingKeepsClaims DEF HostStep
  <1>4. ASSUME NEW w \in Workers, NEW phase, Mark(w, phase),
               turns[w].pc \in InBoundary \cup InRedirect
        PROVE  ClaimsAreKept
    <2>1. turns[w].held \in QueueIds
      BY <1>4, WorkerFacts DEF TurnOK, QueueIds
    <2> QED BY <1>0, <1>1, <1>4, <2>1, SettlingKeepsClaims DEF Mark, Keep
  <1>5. ASSUME NEW phase, ReportPhase(phase) PROVE ClaimsAreKept
    BY <1>1, <1>5 DEF ReportPhase, Keep, set_run_phase
  <1>6. ASSUME NEW w \in Workers, NEW stopped, EndTurn(w, stopped) PROVE ClaimsAreKept
    BY <1>2, <1>6 DEF EndTurn
  <1>7. ASSUME NEW w \in Workers, TurnStep(w) PROVE ClaimsAreKept
    <2>1. CASE \/ _terminal_from_limits(w) \/ CallAborted(w) \/ CallFails(w) \/ Finish(w)
               \/ StepTimesOut(w)
      BY <1>6, <2>1 DEF _terminal_from_limits, CallAborted, CallFails, Finish, StepTimesOut
    <2>2. CASE \/ StartRun(w) \/ _park_steering_pause(w) \/ BeginCall(w) \/ _execute_tool_stage(w)
               \/ ParkInterrupt(w) \/ _execute_finalize(w)
      BY <1>5, <2>2 DEF StartRun, _park_steering_pause, BeginCall, _execute_tool_stage,
                        ParkInterrupt, _execute_finalize
    <2>3. CASE \/ BeginDrain(w) \/ DrainEnds(w) \/ CallReturns(w) \/ SaveAnswer(w) \/ CallFenced(w)
               \/ _apply_redirect_correction(w) \/ _resume_after_finalize(w)
               \/ \E next \in {"llm_call", "finalize"} : ToolStageEnds(w, next)
      BY <1>1, <2>3 DEF BeginDrain, DrainEnds, CallReturns, SaveAnswer, CallFenced,
                        _apply_redirect_correction, _resume_after_finalize, ToolStageEnds, Keep
    <2>4. CASE \E q \in QueueIds : ClaimControl(w, q) \/ CallRedirected(w, q)
      BY <1>0, <2>4, ClaimingKeepsClaims DEF ClaimControl, CallRedirected
    <2>5. CASE _apply_control_item(w)
      BY <1>0, <1>1, <2>5, SettlingKeepsClaims DEF _apply_control_item, Keep
    <2>6. CASE RejectControl(w)
      <3>1. turns[w].held \in QueueIds
        BY <2>6, WorkerFacts DEF RejectControl, At, TurnOK, InBoundary, QueueIds
      <3> QED BY <1>0, <1>1, <2>6, <3>1, SettlingKeepsClaims DEF RejectControl, Keep
    <2>7. CASE MarkControl(w) \/ MarkRedirect(w)
      BY <1>4, <2>7 DEF MarkControl, MarkRedirect, At, InBoundary, InRedirect
    <2>8. CASE StopFromBoundary(w)
      BY <1>2, <2>8 DEF StopFromBoundary, stop_run
    <2> QED BY <1>7, <2>1, <2>2, <2>3, <2>4, <2>5, <2>6, <2>7, <2>8 DEF TurnStep
  <1>8. ASSUME NEW w \in Workers,
               \/ Crash(w) \/ HostAbort(w) \/ \E next \in LoopHead : ResumeTurn(w, next)
               \/ \E stopped \in BOOLEAN : EndParked(w, stopped)
        PROVE  ClaimsAreKept
    BY <1>1, <1>5, <1>6, <1>8 DEF Crash, HostAbort, ResumeTurn, EndParked, Keep
  <1>9. ASSUME NEW d \in Dispatchers, NEW q \in QueueIds,
               \/ ClaimNext(d, q) \/ create_next_turn(d, q) \/ FailHandoff(d, q)
               \/ \E turn \in Turns : CompleteHandoff(d, q, turn)
        PROVE  ClaimsAreKept
    BY <1>0, <1>1, <1>9, ClaimingKeepsClaims, SettlingKeepsClaims
       DEF ClaimNext, create_next_turn, FailHandoff, CompleteHandoff, Keep
  <1>10. CASE UNCHANGED liveVars
    BY <1>1, <1>10 DEF liveVars
  <1> QED BY <1>3, <1>7, <1>8, <1>9, <1>10 DEF LiveNext

Takes(w, q) == ClaimControl(w, q) \/ CallRedirected(w, q)

\* A worker that moves leaves the others where they are.
LEMMA BecomeMoves ==
    ASSUME LiveInv, NEW w \in Workers, NEW t, Become(w, t)
    PROVE  turns'[w] = t /\ \A v \in Workers : v # w => turns'[v] = turns[v]
  BY DEF LiveInv, Become

\* A worker is applying a control because it was, the same one, or because it takes one.
LEMMA ApplyingBegins ==
    ASSUME LiveInv, [LiveNext]_liveVars, NEW v \in Workers, Applying(v)'
    PROVE  \/ Applying(v) /\ turns'[v].held = turns[v].held
           \/ \E q \in QueueIds : Takes(v, q) /\ turns'[v].held = q
  <1> DEFINE Goal == \/ Applying(v) /\ turns'[v].held = turns[v].held
                     \/ \E q \in QueueIds : Takes(v, q) /\ turns'[v].held = q
             Idle(t) == t.pc \notin {"claimed", "persisted", "redirected", "redirect_saved"}
  <1>1. ASSUME turns' = turns \/ turns'[v] = turns[v] PROVE Goal
    BY <1>1 DEF Applying
  <1>2. ASSUME NEW w \in Workers, NEW t, Become(w, t), Idle(t) PROVE Goal
    BY <1>1, <1>2, BecomeMoves DEF Applying
  <1>3. ASSUME NEW w \in Workers, NEW pc, GoTo(w, pc),
               pc \notin {"claimed", "persisted", "redirected", "redirect_saved"}
        PROVE  Goal
    <2>1. [turns[w] EXCEPT !.pc = pc].pc = pc
      BY WorkerFacts DEF RunContext
    <2> QED BY <1>2, <1>3, <2>1 DEF GoTo
  <1>4. ASSUME NEW w \in Workers, TurnStep(w) PROVE Goal
    <2>0. turns[w] \in RunContext
      BY WorkerFacts
    <2>1. CASE \/ _terminal_from_limits(w) \/ CallAborted(w) \/ CallFails(w) \/ Finish(w)
               \/ StepTimesOut(w)
      BY <1>3, <2>1 DEF _terminal_from_limits, CallAborted, CallFails, Finish, StepTimesOut, EndTurn
    <2>2. CASE \/ _execute_tool_stage(w) \/ ParkInterrupt(w) \/ _execute_finalize(w)
               \/ DrainEnds(w) \/ CallFenced(w) \/ _resume_after_finalize(w)
               \/ RejectControl(w) \/ MarkControl(w) \/ StopFromBoundary(w)
               \/ \E next \in {"llm_call", "finalize"} : ToolStageEnds(w, next)
      BY <1>3, <2>2 DEF _execute_tool_stage, ParkInterrupt, _execute_finalize, DrainEnds, CallFenced,
                        _resume_after_finalize, RejectControl, MarkControl, StopFromBoundary,
                        ToolStageEnds
    <2>3. CASE StartRun(w) \/ BeginDrain(w)
      BY <1>2, <2>0, <2>3 DEF StartRun, BeginDrain, RunContext
    <2>4. CASE _park_steering_pause(w) \/ BeginCall(w)
      BY <1>2, <2>0, <2>4 DEF _park_steering_pause, BeginCall, RunContext
    <2>5. CASE CallReturns(w) \/ SaveAnswer(w)
      BY <1>2, <2>0, <2>5 DEF CallReturns, SaveAnswer, RunContext
    <2>6. CASE MarkRedirect(w)
      <3> DEFINE t == turns[w]
                 n == t.redirects + 1
      <3>1. \/ Become(w, [t EXCEPT !.pc = "await", !.redirects = n, !.asked = t.messages])
            \/ Become(w, [t EXCEPT !.pc = "raised"])
            \/ Become(w, [t EXCEPT !.pc = "answered", !.redirects = n])
        BY <2>6 DEF MarkRedirect, AfterRedirect
      <3> HIDE DEF n
      <3> QED BY <1>2, <2>0, <3>1 DEF RunContext
    <2>7. CASE _apply_redirect_correction(w)
      <3> DEFINE u == [turns[w] EXCEPT !.pc = "redirect_saved",
                                       !.messages = turns[w].messages \cup {turns[w].held}]
      <3>1. Become(w, u) /\ Applying(w)
        BY <2>7 DEF _apply_redirect_correction, At, Applying
      <3>2. u.held = turns[w].held
        BY <2>0 DEF RunContext
      <3> HIDE DEF u
      <3> QED BY <1>1, <3>1, <3>2, BecomeMoves
    <2>8. CASE _apply_control_item(w)
      <3> DEFINE t == turns[w]
                 messages == IF IsMessage(items[t.held]) THEN t.messages \cup {t.held} ELSE t.messages
                 u == [t EXCEPT !.pc = "persisted", !.messages = messages,
                                !.pausing = @ \/ items[t.held].request.kind = "pause",
                                !.aborted = @ \/ items[t.held].request.kind = "interrupt"]
      <3>1. Become(w, u) /\ Applying(w)
        BY <2>8 DEF _apply_control_item, At, Applying
      <3>2. u.held = t.held
        <4> HIDE DEF messages
        <4> QED BY <2>0 DEF RunContext
      <3> HIDE DEF u
      <3> QED BY <1>1, <3>1, <3>2, BecomeMoves
    <2>9. ASSUME NEW q \in QueueIds, Takes(w, q) PROVE Goal
      <3>1. turns'[w].held = q
        <4> DEFINE c == [turns[w] EXCEPT !.pc = "claimed", !.held = q]
                   g == turns[w].generation + 1
                   r == [turns[w] EXCEPT !.pc = "redirected", !.held = q, !.generation = g]
        <4>1. Become(w, c) \/ Become(w, r)
          BY <2>9 DEF Takes, ClaimControl, CallRedirected
        <4> HIDE DEF g
        <4>2. c.held = q /\ r.held = q
          BY <2>0 DEF RunContext
        <4> HIDE DEF c, r
        <4> QED BY <4>1, <4>2, BecomeMoves
      <3>2. \A x \in Workers : x # w => turns'[x] = turns[x]
        BY <2>9, BecomeMoves DEF Takes, ClaimControl, CallRedirected
      <3> QED BY <1>1, <2>9, <3>1, <3>2
    <2> QED BY <1>4, <2>1, <2>2, <2>3, <2>4, <2>5, <2>6, <2>7, <2>8, <2>9 DEF TurnStep, Takes
  <1>5. ASSUME NEW w \in Workers, Crash(w) \/ \E stopped \in BOOLEAN : EndParked(w, stopped)
        PROVE  Goal
    BY <1>3, <1>5 DEF Crash, EndParked, EndTurn
  <1>6. ASSUME NEW w \in Workers, NEW next \in LoopHead, ResumeTurn(w, next) PROVE Goal
    BY <1>2, <1>6, WorkerFacts DEF ResumeTurn, LoopHead, RunContext
  <1>7. ASSUME NEW w \in Workers, HostAbort(w) PROVE Goal
    <2> DEFINE u == [turns[w] EXCEPT !.aborted = TRUE]
    <2>1. Become(w, u) /\ u.pc = turns[w].pc /\ u.held = turns[w].held
      BY <1>7, WorkerFacts DEF HostAbort, RunContext
    <2> HIDE DEF u
    <2> QED BY <1>1, <2>1, BecomeMoves DEF Applying
  <1>8. ASSUME NEW d \in Dispatchers, NEW q \in QueueIds,
               \/ ClaimNext(d, q) \/ create_next_turn(d, q) \/ FailHandoff(d, q)
               \/ \E turn \in Turns : CompleteHandoff(d, q, turn)
        PROVE  Goal
    BY <1>1, <1>8 DEF ClaimNext, create_next_turn, FailHandoff, CompleteHandoff
  <1>9. ASSUME NEW w \in Workers,
               \/ TurnStep(w) \/ Crash(w) \/ HostAbort(w)
               \/ \E next \in LoopHead : ResumeTurn(w, next)
               \/ \E stopped \in BOOLEAN : EndParked(w, stopped)
        PROVE  Goal
    BY <1>4, <1>5, <1>6, <1>7, <1>9
  <1>10. ASSUME UNCHANGED liveVars PROVE Goal
    BY <1>1, <1>10 DEF liveVars
  <1>11. ASSUME HostStep /\ UNCHANGED <<turns, saved, handed>> PROVE Goal
    BY <1>1, <1>11
  <1> HIDE DEF Goal
  <1>12. Goal
    BY <1>8, <1>9, <1>10, <1>11 DEF LiveNext
  <1> QED BY <1>12 DEF Goal

\* A row is taken only if it is free and its run goes on, and then it is its taker's.
LEMMA TakesAFreeRow ==
    ASSUME LiveInv, NEW w \in Workers, NEW q \in QueueIds, Takes(w, q)
    PROVE  /\ items[q].status = "queued" /\ items[q].claimed_by = Nobody
           /\ runs[Run].phase # "terminal"
           /\ items'[q].claimed_by = w
           /\ items[q].request.run = Run
           /\ items'[q].request = items[q].request
           /\ items'[q].status = "queued"
           /\ Requested(items[q]) # "queue_next"
           /\ items'[q].resolved_semantic \in {items[q].resolved_semantic, "redirect_current"}
           /\ \A p \in QueueIds : p # q => items'[p] = items[p]
           /\ \A r \in Runs : /\ runs'[r].phase = runs[r].phase
                              /\ runs'[r].stopped = runs[r].stopped
           /\ count' = count
  <1>0. items[q] \in Item /\ items \in [QueueIds -> Item] /\ runs \in [Runs -> LiveRunState] /\ Run \in Runs
    BY WorkersAssumption DEF LiveInv, TypeOK, QueueIds
  <1>1. CASE ClaimControl(w, q)
    <2>1. claim_for_boundary(Run, w, q)
      BY <1>1 DEF ClaimControl
    <2>2. /\ items' = [items EXCEPT ![q] = [items[q] EXCEPT !.claimed_by = w]]
          /\ runs' = runs /\ count' = count
      BY <2>1 DEF claim_for_boundary, Update
    <2>3. /\ items[q].status = "queued" /\ items[q].claimed_by = Nobody
          /\ items[q].request.run = Run /\ Requested(items[q]) # "queue_next"
          /\ runs[Run].phase # "terminal"
      BY <2>1 DEF claim_for_boundary, IsFirst, BoundaryEligible, list_pending, Queued, Unclaimed
    <2>4. items'[q] = [items[q] EXCEPT !.claimed_by = w] /\ \A p \in QueueIds : p # q => items'[p] = items[p]
      BY <1>0, <2>2
    <2> QED BY <1>0, <2>2, <2>3, <2>4 DEF Item
  <1>2. CASE CallRedirected(w, q)
    <2> DEFINE generation == turns[w].generation
               new == [items[q] EXCEPT !.claimed_by = w, !.resolved_semantic = "redirect_current",
                                       !.reason_code = "redirect_claimed",
                                       !.llm_generation = generation + 1]
    <2>1. claim_hard_redirect(Run, w, generation, q)
      BY <1>2 DEF CallRedirected
    <2>2. /\ items' = [items EXCEPT ![q] = new] /\ count' = count
          /\ runs' = [runs EXCEPT ![Run].llm_generation = generation + 1]
      BY <2>1 DEF claim_hard_redirect, Update
    <2>3. /\ items[q].status = "queued" /\ items[q].claimed_by = Nobody
          /\ items[q].request.run = Run /\ Requested(items[q]) # "queue_next"
          /\ runs[Run].phase # "terminal"
      BY <2>1 DEF claim_hard_redirect, IsFirst, UnclaimedRedirects, list_pending, Queued, Unclaimed
    <2> HIDE DEF generation
    <2>4. /\ new.claimed_by = w /\ new.request = items[q].request /\ new.status = items[q].status
          /\ new.resolved_semantic = "redirect_current"
      BY <1>0 DEF Item
    <2>5. items'[q] = new /\ \A p \in QueueIds : p # q => items'[p] = items[p]
      BY <1>0, <2>2
    <2>6. \A r \in Runs : runs'[r].phase = runs[r].phase /\ runs'[r].stopped = runs[r].stopped
      BY <1>0, <2>2 DEF LiveRunState
    <2> HIDE DEF new
    <2> QED BY <2>2, <2>3, <2>4, <2>5, <2>6
  <1> QED BY <1>1, <1>2 DEF Takes

WorkersInv == LiveInv /\ \A w \in Workers : HeldIsOurs(w)

LEMMA HeldStep ==
    ASSUME WorkersInv, [LiveNext]_liveVars
    PROVE  \A w \in Workers : HeldIsOurs(w)'
  <1>0. LiveInv
    BY DEF WorkersInv
  <1>1. TypeOK /\ [Next]_vars
    BY <1>0, LiveStep DEF LiveInv
  <1> SUFFICES ASSUME NEW w \in Workers, Applying(w)'
               PROVE  /\ turns'[w].held \in QueueIds'
                      /\ \/ items'[turns'[w].held].status # "queued"
                         \/ items'[turns'[w].held].claimed_by = w
                         \/ runs'[Run].phase = "terminal"
    BY DEF HeldIsOurs, Queued
  <1>2. CASE Applying(w) /\ turns'[w].held = turns[w].held
    <2> DEFINE q == turns[w].held
    <2>1. /\ q \in QueueIds
          /\ items[q].status # "queued" \/ items[q].claimed_by = w \/ runs[Run].phase = "terminal"
      BY <1>2 DEF WorkersInv, HeldIsOurs, Queued
    <2>2. q \in QueueIds' /\ RowMoves(items[q], items'[q])
      BY <1>1, <2>1, RowsMove
    <2>3. runs[Run].phase = "terminal" => runs'[Run].phase = "terminal"
      BY <1>1, RunsMove, WorkersAssumption
    <2>4. items[q].status # "queued" => items'[q].status # "queued"
      BY <2>2 DEF RowMoves
    <2>5. w # Nobody
      BY WorkersAssumption, NullsAssumption
    <2>6. items[q].claimed_by = w =>
             \/ items'[q].claimed_by = w \/ items'[q].status # "queued"
             \/ runs'[Run].phase = "terminal"
      BY <1>0, <2>1, <2>5, LiveRunKeepsClaims DEF ClaimsAreKept
    <2> QED BY <1>2, <2>1, <2>2, <2>3, <2>4, <2>6
  <1>3. CASE \E q \in QueueIds : Takes(w, q) /\ turns'[w].held = q
    BY <1>0, <1>3, TakesAFreeRow DEF QueueIds
  <1> QED BY <1>0, <1>2, <1>3, ApplyingBegins

\* Two workers of one run never apply the same control, at a boundary or in a model call,
\* however many workers there are, wherever they crash and whoever ends the run meanwhile.
THEOREM LiveRunWorkers == LiveSpec => []AppliedByOneWorker
  <1> DEFINE Inv == WorkersInv /\ AppliedByOneWorker
  <1>1. LiveInit => Inv
    <2> SUFFICES ASSUME LiveInit PROVE Inv
      OBVIOUS
    <2>1. \A w \in Workers : ~Applying(w)
      BY DEF LiveInit, Applying
    <2> QED BY <2>1, LiveInitInv DEF WorkersInv, HeldIsOurs, AppliedByOneWorker
  <1>2. ASSUME Inv, [LiveNext]_liveVars PROVE Inv'
    <2>0. LiveInv /\ LiveInv'
      BY <1>2, LiveStep DEF WorkersInv
    <2>1. WorkersInv'
      BY <1>2, <2>0, HeldStep DEF WorkersInv
    <2>2. ASSUME NEW v \in Workers, NEW w \in Workers, v # w, NEW q \in QueueIds, Takes(w, q),
                 Applying(v)', turns'[v].held = q
          PROVE  FALSE
      <3>1. turns'[v] = turns[v]
        BY <2>0, <2>2, BecomeMoves DEF Takes, ClaimControl, CallRedirected
      <3>2. /\ ~Queued(q) \/ items[q].claimed_by = v \/ runs[Run].phase = "terminal"
        BY <1>2, <2>2, <3>1 DEF WorkersInv, HeldIsOurs, Applying
      <3>3. v # Nobody
        BY WorkersAssumption, NullsAssumption
      <3> QED BY <2>0, <2>2, <3>2, <3>3, TakesAFreeRow DEF Queued
    <2>3. ASSUME NEW v \in Workers, NEW w \in Workers, v # w, Applying(v)', Applying(w)'
          PROVE  turns'[v].held # turns'[w].held
      <3>1. CASE \E q \in QueueIds : Takes(w, q) /\ turns'[w].held = q
        BY <2>2, <2>3, <3>1
      <3>2. CASE \E q \in QueueIds : Takes(v, q) /\ turns'[v].held = q
        BY <2>2, <2>3, <3>2
      <3>3. CASE /\ Applying(v) /\ turns'[v].held = turns[v].held
                 /\ Applying(w) /\ turns'[w].held = turns[w].held
        BY <1>2, <2>3, <3>3 DEF AppliedByOneWorker
      <3> QED BY <1>2, <2>0, <2>3, <3>1, <3>2, <3>3, ApplyingBegins
    <2>4. AppliedByOneWorker'
      BY <2>3 DEF AppliedByOneWorker
    <2> QED BY <2>1, <2>4
  <1>3. Inv => AppliedByOneWorker
    OBVIOUS
  <1> QED BY <1>1, <1>2, <1>3, PTL DEF LiveSpec

-----------------------------------------------------------------------------
(***************************************************************************)
(* Delivery, for a run driven by one worker w whose attempt id is nobody   *)
(* else's.  The worker's transcript is the saved one.  A message enters it *)
(* while the worker holds its row, and until the row is marked applied the *)
(* claim keeps it from cancellation, promotion and hand-over; the run does *)
(* not end meanwhile, since only the worker ends it.                       *)
(***************************************************************************)
HeldDelivery(w) ==
    LET q == turns[w].held IN
    /\ Applying(w) =>
          /\ runs[Run].phase # "terminal"
          /\ items[q].request.run = Run
          /\ Queued(q) => items[q].claimed_by = w /\ items[q].resolved_semantic # "queue_next"
          /\ items[q].status = "failed" => runs[Run].stopped
    /\ turns[w].pc \in {"claimed", "redirected"} => q \notin saved
    /\ turns[w].pc \in {"persisted", "redirect_saved"} /\ IsMessage(items[q]) => q \in saved

Shown == {"persisted", "redirect_saved", "crashed"}

SavedDelivery(w) ==
    \A m \in saved :
        /\ items[m].request.run = Run
        /\ Queued(m) => /\ items[m].claimed_by = w /\ items[m].resolved_semantic # "queue_next"
                        /\ turns[w].held = m /\ turns[w].pc \in Shown
        /\ items[m].status = "failed" => runs[Run].stopped
        /\ m \notin handed

NextComesLate ==
    /\ handed # {} => runs[Run].phase = "terminal"
    /\ \A q \in QueueIds :
          /\ items[q].claimed_by \in Dispatchers => runs[Run].phase = "terminal"
          /\ items[q].request.run = Run /\ items[q].resolved_semantic = "queue_next" =>
                Requested(items[q]) = "queue_next" \/ runs[Run].phase = "terminal"

DeliveryInv(w) ==
    /\ LiveInv
    /\ saved = turns[w].messages
    /\ HeldDelivery(w)
    /\ SavedDelivery(w)
    /\ NextComesLate
    /\ AppliedIsSaved

\* The row the worker holds, and the rows of the transcript, are rows of the queue.
LEMMA DeliveryFacts ==
    ASSUME NEW w, Workers = {w}, DeliveryInv(w)
    PROVE  /\ w \in Workers /\ w # Nobody /\ Run \in Runs
           /\ turns[w] \in RunContext
           /\ Applying(w) => turns[w].held \in QueueIds
           /\ saved \subseteq QueueIds
           /\ \A q \in QueueIds : items[q] \in Item
  <1>1. w \in Workers /\ LiveInv
    BY DEF DeliveryInv
  <1>2. w # Nobody /\ Run \in Runs
    BY <1>1, WorkersAssumption, NullsAssumption
  <1>3. Applying(w) => turns[w].held \in QueueIds
    BY <1>1, WorkerFacts DEF TurnOK, InBoundary, InRedirect, Applying, QueueIds
  <1> QED BY <1>1, <1>2, <1>3 DEF LiveInv, TypeOK, QueueIds

\* What hosts and dispatchers do to a row: nothing to one that is settled; a Stop fails it;
\* otherwise it is free, or a dispatcher's, and is applied only by completing its hand-over.
EnvRow(q) ==
    \/ items'[q] = items[q]
    \/ /\ items[q].status = "queued"
       /\ items'[q].request = items[q].request
       /\ items'[q].resolved_semantic = items[q].resolved_semantic
       /\ \/ /\ items'[q].status = "failed" /\ items'[q].claimed_by = Nobody
             /\ items[q].request.run = Run => runs'[Run].stopped
          \/ /\ items[q].claimed_by \in Dispatchers \cup {Nobody}
             /\ items'[q].claimed_by \in Dispatchers \cup {Nobody}
             /\ items'[q].claimed_by \in Dispatchers => runs'[Run].phase = "terminal"
             /\ items'[q].status = "applied" => items'[q].reason_code = "next_handoff_completed"

\* A step of the environment disturbs no delivery.
LEMMA EnvKeepsDelivery ==
    ASSUME NEW w, Workers = {w}, w \notin Dispatchers, DeliveryInv(w), LiveInv', [Next]_vars,
           \A q \in QueueIds : EnvRow(q),
           runs'[Run].phase = runs[Run].phase,
           UNCHANGED <<turns, saved>>,
           \A q \in handed' : q \in handed \/ (q \in QueueIds /\ Queued(q) /\ items[q].claimed_by \in Dispatchers)
    PROVE  DeliveryInv(w)'
  <1>0. /\ w \in Workers /\ w # Nobody /\ Run \in Runs
        /\ Applying(w) => turns[w].held \in QueueIds
        /\ saved \subseteq QueueIds
    BY DeliveryFacts
  <1>1. runs[Run].stopped => runs'[Run].stopped
    BY <1>0, RunsMove DEF DeliveryInv, LiveInv
  <1>2. \A q \in QueueIds : items'[q].request = items[q].request /\ (IsMessage(items'[q]) <=> IsMessage(items[q]))
                            /\ Requested(items'[q]) = Requested(items[q])
    BY DEF EnvRow, IsMessage, Requested
  <1>3. Applying(w)' <=> Applying(w)
    BY DEF Applying
  <1>4. HeldDelivery(w)'
    <2> DEFINE q == turns[w].held
    <2>1. ASSUME Applying(w) PROVE EnvRow(q) /\ HeldDelivery(w) /\ q \in QueueIds
      BY <1>0, <2>1 DEF DeliveryInv
    <2>2. ASSUME Applying(w)
          PROVE  /\ runs'[Run].phase # "terminal"
                 /\ items'[q].request.run = Run
                 /\ items'[q].status = "queued" =>
                        items'[q].claimed_by = w /\ items'[q].resolved_semantic # "queue_next"
                 /\ items'[q].status = "failed" => runs'[Run].stopped
      <3>1. CASE items'[q] = items[q]
        BY <1>1, <2>1, <2>2, <3>1 DEF HeldDelivery, Queued
      <3>2. CASE items'[q] # items[q]
        <4>1. items[q].claimed_by = w /\ items[q].status = "queued"
          BY <2>1, <2>2, <3>2 DEF EnvRow, HeldDelivery, Queued
        <4>2. items'[q].status = "failed" /\ runs'[Run].stopped
          BY <1>0, <2>1, <2>2, <3>2, <4>1 DEF EnvRow, HeldDelivery
        <4> QED BY <1>2, <2>1, <2>2, <4>2 DEF HeldDelivery
      <3> QED BY <3>1, <3>2
    <2>3. turns[w].pc \in {"claimed", "redirected"} => q \notin saved'
      BY DEF DeliveryInv, HeldDelivery
    <2>4. turns[w].pc \in {"persisted", "redirect_saved"} /\ IsMessage(items'[q]) => q \in saved'
      <3>1. turns[w].pc \in {"persisted", "redirect_saved"} => Applying(w)
        BY DEF Applying
      <3> QED BY <1>0, <1>2, <3>1 DEF DeliveryInv, HeldDelivery
    <2> QED BY <1>3, <2>2, <2>3, <2>4 DEF HeldDelivery, Queued
  <1>5. SavedDelivery(w)'
    <2> SUFFICES ASSUME NEW m \in saved
                 PROVE  /\ items'[m].request.run = Run
                        /\ items'[m].status = "queued" =>
                               /\ items'[m].claimed_by = w /\ items'[m].resolved_semantic # "queue_next"
                               /\ turns[w].held = m /\ turns[w].pc \in Shown
                        /\ items'[m].status = "failed" => runs'[Run].stopped
                        /\ m \notin handed'
      BY DEF SavedDelivery, Queued
    <2>1. m \in QueueIds /\ EnvRow(m)
      BY <1>0
    <2>2. /\ items[m].request.run = Run /\ m \notin handed
          /\ items[m].status = "queued" =>
                 /\ items[m].claimed_by = w /\ items[m].resolved_semantic # "queue_next"
                 /\ turns[w].held = m /\ turns[w].pc \in Shown
          /\ items[m].status = "failed" => runs[Run].stopped
      BY DEF DeliveryInv, SavedDelivery, Queued
    <2>3. m \notin handed'
      BY <2>2 DEF Queued
    <2>4. CASE items'[m] = items[m]
      BY <1>1, <2>2, <2>3, <2>4
    <2>5. CASE items'[m] # items[m]
      <3>1. items'[m].status = "failed" /\ runs'[Run].stopped
        BY <1>0, <2>1, <2>2, <2>5 DEF EnvRow
      <3> QED BY <1>2, <2>1, <2>2, <2>3, <3>1
    <2> QED BY <2>4, <2>5
  <1>6. \A q \in QueueIds' : q \notin QueueIds =>
           /\ items'[q].status = "queued" /\ items'[q].claimed_by = Nobody
           /\ items'[q].resolved_semantic = Requested(items'[q])
    BY RowIsInserted DEF InsertedRow, DeliveryInv, LiveInv
  <1>7. NextComesLate'
    <2>1. handed' # {} => runs'[Run].phase = "terminal"
      BY DEF DeliveryInv, NextComesLate
    <2>2. ASSUME NEW q \in QueueIds'
          PROVE  /\ items'[q].claimed_by \in Dispatchers => runs'[Run].phase = "terminal"
                 /\ items'[q].request.run = Run /\ items'[q].resolved_semantic = "queue_next" =>
                       Requested(items'[q]) = "queue_next" \/ runs'[Run].phase = "terminal"
      <3>1. CASE q \notin QueueIds
        BY <1>6, <3>1, NullsAssumption, WorkersAssumption
      <3>2. CASE q \in QueueIds
        <4>1. /\ items[q].claimed_by \in Dispatchers => runs[Run].phase = "terminal"
              /\ items[q].request.run = Run /\ items[q].resolved_semantic = "queue_next" =>
                    Requested(items[q]) = "queue_next" \/ runs[Run].phase = "terminal"
          BY <3>2 DEF DeliveryInv, NextComesLate
        <4>2. Nobody \notin Dispatchers
          BY NullsAssumption, WorkersAssumption
        <4> QED BY <1>2, <3>2, <4>1, <4>2 DEF EnvRow
      <3> QED BY <3>1, <3>2
    <2> QED BY <2>1, <2>2 DEF NextComesLate
  <1>8. AppliedIsSaved'
    <2> SUFFICES ASSUME NEW q \in QueueIds', items'[q].status = "applied", IsMessage(items'[q]),
                        items'[q].reason_code # "next_handoff_completed"
                 PROVE  q \in saved
      BY DEF AppliedIsSaved, HandedOver
    <2>1. q \in QueueIds /\ EnvRow(q)
      BY <1>6
    <2>2. items'[q] = items[q]
      BY <2>1 DEF EnvRow
    <2> QED BY <2>1, <2>2 DEF DeliveryInv, AppliedIsSaved, HandedOver
  <1> QED BY <1>4, <1>5, <1>7, <1>8 DEF DeliveryInv

LEMMA EnvUpdate ==
    ASSUME TypeOK, NEW q \in QueueIds, NEW new, Update(q, new), items'[q] = new => EnvRow(q)
    PROVE  \A p \in QueueIds : EnvRow(p)
  <1>1. items'[q] = new /\ \A p \in QueueIds : p # q => items'[p] = items[p]
    BY DEF Update, TypeOK, QueueIds
  <1> QED BY <1>1 DEF EnvRow

\* The steps of hosts.
LEMMA HostDelivery ==
    ASSUME NEW w, Workers = {w}, w \notin Dispatchers, DeliveryInv(w), LiveInv',
           HostStep, UNCHANGED <<turns, saved, handed>>
    PROVE  DeliveryInv(w)'
  <1>0. TypeOK /\ Run \in Runs /\ \A q \in QueueIds : items[q] \in Item
    BY DeliveryFacts DEF DeliveryInv, LiveInv
  <1>1. [Next]_vars
    BY DEF Next
  <1>2. ASSUME NEW rows, NEW new, Insert(rows, new), NEW q \in QueueIds
        PROVE  items'[q] = rows[q]
    BY <1>0, <1>2 DEF Insert, TypeOK, QueueIds
  <1>3. ASSUME NEW req \in Requests, admit(req)
        PROVE  runs'[Run].phase = runs[Run].phase /\ \A q \in QueueIds : EnvRow(q)
    <2>1. runs'[Run].phase = runs[Run].phase
      <3>1. CASE runs' = runs
        BY <3>1
      <3>2. CASE runs' = [runs EXCEPT ![req.run].stopped = TRUE]
        <4>1. runs'[Run] \in {runs[Run], [runs[Run] EXCEPT !.stopped = TRUE]}
          BY <1>0, <3>2 DEF TypeOK
        <4>2. [runs[Run] EXCEPT !.stopped = TRUE].phase = runs[Run].phase
          BY <1>0 DEF TypeOK, LiveRunState
        <4> QED BY <4>1, <4>2
      <3> QED BY <1>3, <3>1, <3>2 DEF admit
    <2>2. ASSUME NEW q \in QueueIds PROVE EnvRow(q)
      <3>1. CASE requested_semantic_for_request(req) # "stop"
        BY <1>2, <1>3, <3>1 DEF admit, EnvRow
      <3>2. CASE requested_semantic_for_request(req) = "stop"
        <4>1. items'[q] = StopPreempts(req.run)[q]
          BY <1>2, <1>3, <3>2 DEF admit
        <4>2. CASE items'[q] = items[q]
          BY <4>2 DEF EnvRow
        <4>3. CASE items'[q] # items[q]
          <5>1. /\ items[q].status = "queued" /\ items[q].request.run = req.run
                /\ items'[q] = Failed(items[q], "run_stopped")
            BY <4>1, <4>3 DEF StopPreempts, list_pending, Queued
          <5>2. LET j == Failed(items[q], "run_stopped") IN
                /\ j.request = items[q].request /\ j.resolved_semantic = items[q].resolved_semantic
                /\ j.status = "failed" /\ j.claimed_by = Nobody
            BY <1>0 DEF Failed, Item
          <5>3. req.run = Run => runs'[Run].stopped
            BY <1>0, <1>3, <3>2 DEF admit, TypeOK, LiveRunState
          <5> QED BY <5>1, <5>2, <5>3 DEF EnvRow
        <4> QED BY <4>2, <4>3
      <3> QED BY <3>1, <3>2
    <2> QED BY <2>1, <2>2
  <1>4. ASSUME NEW req \in Requests, EnqueueUnrouted(req)
        PROVE  runs'[Run].phase = runs[Run].phase /\ \A q \in QueueIds : EnvRow(q)
    BY <1>2, <1>4 DEF EnqueueUnrouted, EnvRow
  <1>5. ASSUME UNCHANGED <<items, runs>>
        PROVE  runs'[Run].phase = runs[Run].phase /\ \A q \in QueueIds : EnvRow(q)
    BY <1>5 DEF EnvRow
  <1>6. ASSUME NEW q \in QueueIds, cancel(q) \/ cancel_next(q)
        PROVE  runs'[Run].phase = runs[Run].phase /\ \A p \in QueueIds : EnvRow(p)
    <2>1. PICK reason : Update(q, Cancelled(items[q], reason))
      BY <1>6 DEF cancel, cancel_next
    <2>2. items[q].status = "queued" /\ items[q].claimed_by = Nobody /\ runs' = runs
      BY <1>6 DEF cancel, cancel_next, Queued, Unclaimed
    <2>3. LET j == Cancelled(items[q], reason) IN
          /\ j.request = items[q].request /\ j.resolved_semantic = items[q].resolved_semantic
          /\ j.status = "cancelled" /\ j.claimed_by = items[q].claimed_by
      BY <1>0 DEF Cancelled, Item
    <2>4. Nobody \notin Dispatchers
      BY NullsAssumption, WorkersAssumption
    <2>5. items'[q] = Cancelled(items[q], reason) => EnvRow(q)
      BY <2>2, <2>3, <2>4 DEF EnvRow
    <2> QED BY <1>0, <2>1, <2>2, <2>5, EnvUpdate
  <1>7. runs'[Run].phase = runs[Run].phase /\ \A q \in QueueIds : EnvRow(q)
    <2>1. ASSUME NEW req \in Requests, admit(req) \/ enqueue(req) \/ EnqueueLocked(req)
          PROVE  runs'[Run].phase = runs[Run].phase /\ \A q \in QueueIds : EnvRow(q)
      BY <1>3, <1>4, <1>5, <2>1 DEF enqueue, EnqueueLocked
    <2> QED BY <1>6, <2>1 DEF HostStep
  <1> QED BY <1>1, <1>7, EnvKeepsDelivery

\* The steps of dispatchers.
LEMMA DispatcherDelivery ==
    ASSUME NEW w, Workers = {w}, w \notin Dispatchers, DeliveryInv(w), LiveInv',
           NEW d \in Dispatchers, NEW q \in QueueIds,
           \/ ClaimNext(d, q) \/ create_next_turn(d, q) \/ FailHandoff(d, q)
           \/ \E turn \in Turns : CompleteHandoff(d, q, turn)
    PROVE  DeliveryInv(w)'
  <1>0. TypeOK /\ Run \in Runs /\ items[q] \in Item /\ Nobody \notin Dispatchers
    BY DeliveryFacts, NullsAssumption, WorkersAssumption DEF DeliveryInv, LiveInv
  <1>1. [Next]_vars /\ UNCHANGED <<turns, saved>>
    BY DispatchStep DEF DeliveryInv
  <1>2. CASE ClaimNext(d, q)
    <2> DEFINE new == [items[q] EXCEPT !.claimed_by = d, !.handoff_id = TRUE]
    <2>1. /\ items[q].status = "queued" /\ items[q].claimed_by \in {Nobody, d}
          /\ runs[Run].phase = "terminal" /\ UNCHANGED <<runs, handed>> /\ Update(q, new)
      BY <1>2 DEF ClaimNext, claim_next_handoff, IsFirst, HandoffEligible, list_pending, Queued
    <2>2. /\ new.request = items[q].request /\ new.resolved_semantic = items[q].resolved_semantic
          /\ new.status = items[q].status /\ new.claimed_by = d
      BY <1>0 DEF Item
    <2> HIDE DEF new
    <2>3. items'[q] = new => EnvRow(q)
      BY <2>1, <2>2 DEF EnvRow
    <2> QED BY <1>0, <1>1, <2>1, <2>3, EnvUpdate, EnvKeepsDelivery
  <1>3. CASE create_next_turn(d, q)
    <2>1. /\ handed' = handed \cup {q} /\ Queued(q) /\ items[q].claimed_by = d
          /\ UNCHANGED <<items, runs>>
      BY <1>3 DEF create_next_turn, HoldsNext, Keep
    <2> QED BY <1>1, <2>1, EnvKeepsDelivery DEF EnvRow
  <1>4. CASE FailHandoff(d, q)
    <2> DEFINE new == Failed(items[q], "error")
    <2>1. /\ items[q].status = "queued" /\ items[q].claimed_by = d
          /\ UNCHANGED <<runs, handed>> /\ Update(q, new)
      BY <1>4 DEF FailHandoff, HoldsNext, mark_failed, Queued
    <2>2. /\ new.request = items[q].request /\ new.resolved_semantic = items[q].resolved_semantic
          /\ new.status = "failed" /\ new.claimed_by = Nobody
      BY <1>0 DEF Item, Failed
    <2> HIDE DEF new
    <2>3. items'[q] = new => EnvRow(q)
      BY <1>0, <2>1, <2>2 DEF EnvRow
    <2> QED BY <1>0, <1>1, <2>1, <2>3, EnvUpdate, EnvKeepsDelivery
  <1>5. ASSUME NEW turn \in Turns, CompleteHandoff(d, q, turn) PROVE DeliveryInv(w)'
    <2> DEFINE new == [items[q] EXCEPT !.status = "applied", !.destination_turn_id = turn,
                                       !.reason_code = "next_handoff_completed",
                                       !.claimed_by = Nobody]
    <2>1. /\ items[q].status = "queued" /\ items[q].claimed_by = d
          /\ UNCHANGED <<runs, handed>> /\ Update(q, new)
      BY <1>5 DEF CompleteHandoff, complete_handoff, Queued
    <2>2. /\ new.request = items[q].request /\ new.resolved_semantic = items[q].resolved_semantic
          /\ new.status = "applied" /\ new.claimed_by = Nobody
          /\ new.reason_code = "next_handoff_completed"
      BY <1>0 DEF Item
    <2> HIDE DEF new
    <2>3. items'[q] = new => EnvRow(q)
      BY <1>0, <2>1, <2>2 DEF EnvRow
    <2> QED BY <1>0, <1>1, <2>1, <2>3, EnvUpdate, EnvKeepsDelivery
  <1> QED BY <1>2, <1>3, <1>4, <1>5

\* Steps of the worker that leave the rows alone and its transcript as it was.
LEMMA QuietDelivery ==
    ASSUME NEW w, Workers = {w}, DeliveryInv(w), LiveInv',
           NEW t, Become(w, t), UNCHANGED <<items, count, saved, handed>>,
           runs'[Run].stopped = runs[Run].stopped,
           runs'[Run].phase = "terminal" <=> runs[Run].phase = "terminal",
           t.messages = saved,
           \/ t.pc = turns[w].pc /\ t.held = turns[w].held
           \/ /\ t.pc \notin {"claimed", "persisted", "redirected", "redirect_saved"}
              /\ turns[w].pc \in Shown => t.pc = "crashed" /\ t.held = turns[w].held
    PROVE  DeliveryInv(w)'
  <1>0. w \in Workers
    OBVIOUS
  <1>1. turns'[w] = t
    BY <1>0, BecomeMoves DEF DeliveryInv
  <1>2. QueueIds' = QueueIds
    BY DEF QueueIds
  <1>3. HeldDelivery(w)'
    BY <1>1 DEF DeliveryInv, HeldDelivery, Applying, Queued, IsMessage, Requested
  <1>4. SavedDelivery(w)'
    BY <1>1 DEF DeliveryInv, SavedDelivery, Queued, Shown
  <1>5. NextComesLate' /\ AppliedIsSaved'
    BY <1>2 DEF DeliveryInv, NextComesLate, AppliedIsSaved, IsMessage, Requested, HandedOver
  <1> QED BY <1>1, <1>3, <1>4, <1>5 DEF DeliveryInv

\* The end of the run settles or promotes rows the transcript does not hold.
LEMMA TerminalDelivery ==
    ASSUME NEW w, Workers = {w}, DeliveryInv(w), LiveInv', NEW stopped \in BOOLEAN,
           commit_terminal(Run, stopped), NEW t, Become(w, t), UNCHANGED <<saved, handed>>,
           t.messages = saved, turns[w].pc \notin Shown,
           t.pc \notin {"claimed", "persisted", "redirected", "redirect_saved"}
    PROVE  DeliveryInv(w)'
  <1>0. /\ w \in Workers /\ Run \in Runs /\ saved \subseteq QueueIds
        /\ \A q \in QueueIds : items[q] \in Item
        /\ runs \in [Runs -> LiveRunState] /\ count' = count
    BY DeliveryFacts DEF DeliveryInv, LiveInv, TypeOK, commit_terminal
  <1>t. TypeOK /\ [Next]_vars
    <2>1. stopped = TRUE \/ stopped = FALSE
      OBVIOUS
    <2> QED BY <1>0, <2>1 DEF Next, WorkerStep, stop_run, DeliveryInv, LiveInv
  <1>1. turns'[w] = t
    BY <1>0, BecomeMoves DEF DeliveryInv
  <1>2. runs'[Run].phase = "terminal" /\ (runs[Run].stopped => runs'[Run].stopped)
    BY <1>0 DEF commit_terminal, LiveRunState
  <1>3. \A q \in QueueIds : items[q].status # "queued" => items'[q] = items[q]
    BY DEF commit_terminal, list_pending, Queued
  <1>4. HeldDelivery(w)'
    BY <1>1 DEF HeldDelivery, Applying
  <1>5. SavedDelivery(w)'
    <2> SUFFICES ASSUME NEW m \in saved
                 PROVE  /\ items'[m].request.run = Run /\ items'[m].status # "queued"
                        /\ items'[m].status = "failed" => runs'[Run].stopped
                        /\ m \notin handed
      BY DEF SavedDelivery, Queued
    <2>1. /\ items[m].request.run = Run /\ items[m].status # "queued" /\ m \notin handed
          /\ items[m].status = "failed" => runs[Run].stopped
      BY DEF DeliveryInv, SavedDelivery, Queued
    <2> QED BY <1>0, <1>2, <1>3, <2>1
  <1>6. NextComesLate'
    BY <1>2 DEF NextComesLate
  <1>7. AppliedIsSaved'
    <2> SUFFICES ASSUME NEW q \in QueueIds', items'[q].status = "applied", IsMessage(items'[q]),
                        items'[q].reason_code # "next_handoff_completed"
                 PROVE  q \in saved
      BY DEF AppliedIsSaved, HandedOver
    <2>1. q \in QueueIds
      BY <1>0 DEF QueueIds
    <2>2. CASE items'[q] = items[q]
      BY <2>1, <2>2 DEF DeliveryInv, AppliedIsSaved, HandedOver
    <2>3. CASE items'[q] # items[q]
      <3>1. items[q].status = "queued" /\ items'[q] = AtTerminal(items[q], stopped \/ runs[Run].stopped, runs[Run].phase)
        BY <2>1, <2>3 DEF commit_terminal, list_pending, Queued
      <3>2. CASE Requested(items[q]) = "stop"
        <4>1. items'[q].request = items[q].request
          BY <1>t, <2>1, RowsMove DEF RowMoves
        <4> QED BY <3>2, <4>1 DEF IsMessage, Requested, MessageSemantic
      <3>3. CASE Requested(items[q]) # "stop"
        <4>1. items'[q] \in {items[q], Failed(items[q], "run_stopped"), Promoted(items[q])}
          BY <3>1, <3>3 DEF AtTerminal
        <4>2. Failed(items[q], "run_stopped").status = "failed" /\ Promoted(items[q]).status = items[q].status
          BY <1>0, <2>1 DEF Failed, Promoted, Item
        <4> QED BY <3>1, <4>1, <4>2
      <3> QED BY <3>2, <3>3
    <2> QED BY <2>2, <2>3
  <1> QED BY <1>1, <1>4, <1>5, <1>6, <1>7 DEF DeliveryInv

\* The worker takes a free row: it is not in the transcript yet.
LEMMA TakesDelivery ==
    ASSUME NEW w, Workers = {w}, w \notin Dispatchers, DeliveryInv(w), LiveInv',
           NEW q \in QueueIds, Takes(w, q)
    PROVE  DeliveryInv(w)'
  <1>0. /\ w \in Workers /\ w # Nobody /\ Run \in Runs /\ turns[w] \in RunContext
        /\ LiveInv /\ saved \subseteq QueueIds
    BY DeliveryFacts DEF DeliveryInv
  <1>1. PICK pc, t :
           /\ pc \in {"claimed", "redirected"}
           /\ Become(w, t) /\ t.pc = pc /\ t.held = q /\ t.messages = turns[w].messages
           /\ UNCHANGED <<saved, handed>>
    <2>1. CASE ClaimControl(w, q)
      <3> DEFINE t == [turns[w] EXCEPT !.pc = "claimed", !.held = q]
      <3>1. t.pc = "claimed" /\ t.held = q /\ t.messages = turns[w].messages
        BY <1>0 DEF RunContext
      <3>2. Become(w, t) /\ UNCHANGED <<saved, handed>>
        BY <2>1 DEF ClaimControl
      <3> HIDE DEF t
      <3> QED BY <3>1, <3>2
    <2>2. CASE CallRedirected(w, q)
      <3> DEFINE g == turns[w].generation + 1
                 t == [turns[w] EXCEPT !.pc = "redirected", !.held = q, !.generation = g]
      <3>2. Become(w, t) /\ UNCHANGED <<saved, handed>>
        BY <2>2 DEF CallRedirected
      <3> HIDE DEF g
      <3>1. t.pc = "redirected" /\ t.held = q /\ t.messages = turns[w].messages
        BY <1>0 DEF RunContext
      <3> HIDE DEF t
      <3> QED BY <3>1, <3>2
    <2> QED BY <2>1, <2>2 DEF Takes
  <1>2. turns'[w] = t
    BY <1>0, <1>1, BecomeMoves
  <1>3. /\ items[q].status = "queued" /\ items[q].claimed_by = Nobody
        /\ runs[Run].phase # "terminal"
        /\ items'[q].claimed_by = w
        /\ items[q].request.run = Run
        /\ items'[q].request = items[q].request
        /\ items'[q].status = "queued"
        /\ Requested(items[q]) # "queue_next"
        /\ items'[q].resolved_semantic \in {items[q].resolved_semantic, "redirect_current"}
        /\ \A p \in QueueIds : p # q => items'[p] = items[p]
        /\ runs'[Run].phase = runs[Run].phase /\ runs'[Run].stopped = runs[Run].stopped
        /\ count' = count
    BY <1>0, TakesAFreeRow
  <1>4. items[q].resolved_semantic # "queue_next" /\ q \notin saved
    BY <1>0, <1>3 DEF DeliveryInv, NextComesLate, SavedDelivery, Queued
  <1>5. HeldDelivery(w)'
    BY <1>1, <1>2, <1>3, <1>4 DEF HeldDelivery, Queued
  <1>6. SavedDelivery(w)'
    <2> SUFFICES ASSUME NEW m \in saved
                 PROVE  /\ items'[m].request.run = Run /\ items'[m].status # "queued"
                        /\ items'[m].status = "failed" => runs'[Run].stopped
                        /\ m \notin handed
      BY <1>1 DEF SavedDelivery, Queued
    <2>1. items'[m] = items[m]
      BY <1>0, <1>3, <1>4
    <2>2. turns[w].pc \notin Shown
      BY DEF Takes, ClaimControl, CallRedirected, At, Shown
    <2> QED BY <1>3, <2>1, <2>2 DEF DeliveryInv, SavedDelivery, Queued
  <1>7. NextComesLate'
    <2>1. QueueIds' = QueueIds
      BY <1>3 DEF QueueIds
    <2>2. Requested(items'[q]) = Requested(items[q])
      BY <1>3 DEF Requested
    <2>3. ASSUME NEW p \in QueueIds
          PROVE  /\ items'[p].claimed_by \in Dispatchers => runs'[Run].phase = "terminal"
                 /\ items'[p].request.run = Run /\ items'[p].resolved_semantic = "queue_next" =>
                       Requested(items'[p]) = "queue_next" \/ runs'[Run].phase = "terminal"
      <3>1. CASE p = q
        BY <1>3, <1>4, <3>1
      <3>2. CASE p # q
        BY <1>3, <3>2 DEF DeliveryInv, NextComesLate
      <3> QED BY <3>1, <3>2
    <2> QED BY <1>1, <1>3, <2>1, <2>3 DEF DeliveryInv, NextComesLate
  <1>8. AppliedIsSaved'
    <2> SUFFICES ASSUME NEW p \in QueueIds, items'[p].status = "applied", IsMessage(items'[p]),
                        items'[p].reason_code # "next_handoff_completed"
                 PROVE  p \in saved
      BY <1>1, <1>3 DEF AppliedIsSaved, HandedOver, QueueIds
    <2>1. items'[p] = items[p]
      BY <1>3
    <2> QED BY <2>1 DEF DeliveryInv, AppliedIsSaved, HandedOver
  <1> QED BY <1>1, <1>2, <1>5, <1>6, <1>7, <1>8 DEF DeliveryInv

\* What the held row says enters the transcript while the claim is the worker's; the
\* control may cancel a NEXT message nobody has claimed.
LEMMA PersistDelivery ==
    ASSUME NEW w, Workers = {w}, w \notin Dispatchers, DeliveryInv(w), LiveInv',
           turns[w].pc \in {"claimed", "redirected"},
           NEW t, Become(w, t), t.pc \in {"persisted", "redirect_saved"}, t.held = turns[w].held,
           t.messages = saved', UNCHANGED <<handed, runs, count>>,
           saved' \in {saved, saved \cup {turns[w].held}},
           IsMessage(items[turns[w].held]) => turns[w].held \in saved',
           items' = items \/ \E p \in QueueIds : cancel_next(p)
    PROVE  DeliveryInv(w)'
  <1> DEFINE q == turns[w].held
  <1>0. /\ w \in Workers /\ w # Nobody /\ LiveInv /\ saved \subseteq QueueIds /\ q \in QueueIds
        /\ QueueIds' = QueueIds /\ Applying(w) /\ TypeOK
    BY DeliveryFacts DEF DeliveryInv, Applying, QueueIds, LiveInv
  <1>1. turns'[w] = t
    BY <1>0, BecomeMoves
  <1>2. /\ runs[Run].phase # "terminal" /\ items[q].request.run = Run
        /\ items[q].status = "queued" => items[q].claimed_by = w /\ items[q].resolved_semantic # "queue_next"
        /\ items[q].status = "failed" => runs[Run].stopped
        /\ q \notin saved /\ handed = {}
    BY <1>0 DEF DeliveryInv, HeldDelivery, NextComesLate, Queued
  <1>3. ASSUME NEW p \in QueueIds
        PROVE  \/ items'[p] = items[p]
               \/ /\ items[p].status = "queued" /\ items[p].claimed_by = Nobody
                  /\ items'[p].status = "cancelled" /\ items'[p].claimed_by = Nobody
                  /\ items'[p].request = items[p].request
                  /\ items'[p].resolved_semantic = items[p].resolved_semantic
    <2>1. CASE items' = items
      BY <2>1
    <2>2. ASSUME NEW z \in QueueIds, cancel_next(z)
          PROVE  \/ items'[p] = items[p]
                 \/ /\ items[p].status = "queued" /\ items[p].claimed_by = Nobody
                    /\ items'[p].status = "cancelled" /\ items'[p].claimed_by = Nobody
                    /\ items'[p].request = items[p].request
                    /\ items'[p].resolved_semantic = items[p].resolved_semantic
      <3>0. items[z] \in Item /\ items \in [QueueIds -> Item]
        BY <1>0 DEF TypeOK, QueueIds
      <3> DEFINE new == Cancelled(items[z], "cancelled_by_operator")
      <3>1. /\ new.status = "cancelled" /\ new.claimed_by = items[z].claimed_by
            /\ new.request = items[z].request /\ new.resolved_semantic = items[z].resolved_semantic
        BY <3>0 DEF Cancelled, Item
      <3>2. items' = [items EXCEPT ![z] = new] /\ items[z].status = "queued" /\ items[z].claimed_by = Nobody
        BY <2>2 DEF cancel_next, Update, Queued, Unclaimed
      <3> HIDE DEF new
      <3> QED BY <3>0, <3>1, <3>2
    <2> QED BY <2>1, <2>2
  <1>4. items'[q] = items[q]
    BY <1>0, <1>2, <1>3
  <1>5. ASSUME NEW m \in saved
        PROVE  items'[m] = items[m] /\ items[m].status # "queued"
    <2>1. items[m].status # "queued" /\ m \in QueueIds
      BY <1>0 DEF DeliveryInv, SavedDelivery, Queued, Shown
    <2> QED BY <1>3, <2>1
  <1> HIDE DEF q
  <1>6. HeldDelivery(w)'
    BY <1>1, <1>2, <1>4 DEF HeldDelivery, Queued, q
  <1>7. SavedDelivery(w)'
    <2> SUFFICES ASSUME NEW m \in saved'
                 PROVE  /\ items'[m].request.run = Run
                        /\ items'[m].status = "queued" =>
                               /\ items'[m].claimed_by = w /\ items'[m].resolved_semantic # "queue_next"
                               /\ t.held = m /\ t.pc \in Shown
                        /\ items'[m].status = "failed" => runs[Run].stopped
                        /\ m \notin handed
      BY <1>1 DEF SavedDelivery, Queued, Shown
    <2>1. CASE m \in saved
      BY <1>5, <2>1 DEF DeliveryInv, SavedDelivery, Queued
    <2>2. CASE m = q
      BY <1>2, <1>4, <2>2 DEF Shown, q
    <2> QED BY <2>1, <2>2 DEF q
  <1>8. NextComesLate'
    <2>1. ASSUME NEW p \in QueueIds
          PROVE  /\ items'[p].claimed_by \in Dispatchers => runs[Run].phase = "terminal"
                 /\ items'[p].request.run = Run /\ items'[p].resolved_semantic = "queue_next" =>
                       Requested(items'[p]) = "queue_next" \/ runs[Run].phase = "terminal"
      <3>1. /\ items[p].claimed_by \in Dispatchers => runs[Run].phase = "terminal"
            /\ items[p].request.run = Run /\ items[p].resolved_semantic = "queue_next" =>
                  Requested(items[p]) = "queue_next" \/ runs[Run].phase = "terminal"
        BY DEF DeliveryInv, NextComesLate
      <3>2. Requested(items'[p]) = Requested(items[p])
        BY <1>3 DEF Requested
      <3> QED BY <1>3, <3>1, <3>2
    <2> QED BY <1>0, <1>2, <2>1 DEF NextComesLate
  <1>9. AppliedIsSaved'
    <2> SUFFICES ASSUME NEW p \in QueueIds, items'[p].status = "applied", IsMessage(items'[p]),
                        items'[p].reason_code # "next_handoff_completed"
                 PROVE  p \in saved'
      BY <1>0 DEF AppliedIsSaved, HandedOver
    <2>1. items'[p] = items[p]
      BY <1>3
    <2>2. p \in saved
      BY <2>1 DEF DeliveryInv, AppliedIsSaved, HandedOver
    <2> QED BY <2>2
  <1> QED BY <1>1, <1>6, <1>7, <1>8, <1>9 DEF DeliveryInv

\* The worker settles the row it holds: as applied, if what it says is in the transcript;
\* as failed, if it is not.
LEMMA SettleDelivery ==
    ASSUME NEW w, Workers = {w}, DeliveryInv(w), LiveInv', Applying(w),
           NEW t, Become(w, t), t.messages = saved, UNCHANGED <<handed, runs, count, saved>>,
           t.pc \notin {"claimed", "persisted", "redirected", "redirect_saved"},
           \A p \in QueueIds : p # turns[w].held => items'[p] = items[p],
           LET i == items[turns[w].held]
               j == items'[turns[w].held]
           IN  \/ j = i /\ i.status # "queued"
               \/ /\ j.request = i.request /\ j.claimed_by = Nobody
                  /\ j.resolved_semantic = "queue_next" => i.resolved_semantic = "queue_next"
                  /\ \/ j.status = "applied" /\ turns[w].pc \in {"persisted", "redirect_saved"}
                     \/ j.status = "failed" /\ turns[w].pc \in {"claimed", "redirected"}
    PROVE  DeliveryInv(w)'
  <1> DEFINE q == turns[w].held
             i == items[q]
             j == items'[q]
  <1>0. /\ w \in Workers /\ LiveInv /\ saved \subseteq QueueIds /\ q \in QueueIds
        /\ QueueIds' = QueueIds /\ Nobody \notin Dispatchers
    BY DeliveryFacts, NullsAssumption, WorkersAssumption DEF DeliveryInv, QueueIds
  <1>1. turns'[w] = t
    BY <1>0, BecomeMoves
  <1>2. /\ turns[w].pc \in {"claimed", "redirected"} => q \notin saved
        /\ turns[w].pc \in {"persisted", "redirect_saved"} /\ IsMessage(i) => q \in saved
        /\ i.request.run = Run
    BY DEF DeliveryInv, HeldDelivery
  <1>3. \/ j = i /\ i.status # "queued"
        \/ /\ j.request = i.request /\ j.claimed_by = Nobody
           /\ j.resolved_semantic = "queue_next" => i.resolved_semantic = "queue_next"
           /\ \/ j.status = "applied" /\ turns[w].pc \in {"persisted", "redirect_saved"}
              \/ j.status = "failed" /\ q \notin saved
    BY <1>2
  <1>4. IsMessage(j) <=> IsMessage(i)
    BY <1>3 DEF IsMessage, Requested
  <1>5. Requested(j) = Requested(i)
    BY <1>3 DEF Requested
  <1>6. HeldDelivery(w)'
    BY <1>1 DEF HeldDelivery, Applying
  <1>7. SavedDelivery(w)'
    <2> SUFFICES ASSUME NEW m \in saved
                 PROVE  /\ items'[m].request.run = Run /\ items'[m].status # "queued"
                        /\ items'[m].status = "failed" => runs[Run].stopped
                        /\ m \notin handed
      BY DEF SavedDelivery, Queued
    <2>1. /\ items[m].request.run = Run /\ m \notin handed
          /\ items[m].status = "queued" => q = m
          /\ items[m].status = "failed" => runs[Run].stopped
      BY DEF DeliveryInv, SavedDelivery, Queued
    <2>2. CASE m # q
      BY <1>0, <2>1, <2>2
    <2>3. CASE m = q
      BY <1>2, <1>3, <2>1, <2>3
    <2> QED BY <2>2, <2>3
  <1>8. NextComesLate'
    <2>1. ASSUME NEW p \in QueueIds
          PROVE  /\ items'[p].claimed_by \in Dispatchers => runs[Run].phase = "terminal"
                 /\ items'[p].request.run = Run /\ items'[p].resolved_semantic = "queue_next" =>
                       Requested(items'[p]) = "queue_next" \/ runs[Run].phase = "terminal"
      <3>1. /\ items[p].claimed_by \in Dispatchers => runs[Run].phase = "terminal"
            /\ items[p].request.run = Run /\ items[p].resolved_semantic = "queue_next" =>
                  Requested(items[p]) = "queue_next" \/ runs[Run].phase = "terminal"
        BY DEF DeliveryInv, NextComesLate
      <3>2. CASE p # q
        BY <3>1, <3>2
      <3>3. CASE p = q
        BY <1>0, <1>2, <1>3, <1>5, <3>1, <3>3
      <3> QED BY <3>2, <3>3
    <2> QED BY <1>0, <2>1 DEF DeliveryInv, NextComesLate
  <1>9. AppliedIsSaved'
    <2> SUFFICES ASSUME NEW p \in QueueIds, items'[p].status = "applied", IsMessage(items'[p]),
                        items'[p].reason_code # "next_handoff_completed"
                 PROVE  p \in saved
      BY <1>0 DEF AppliedIsSaved, HandedOver
    <2>1. CASE items'[p] = items[p]
      BY <2>1 DEF DeliveryInv, AppliedIsSaved, HandedOver
    <2>2. CASE items'[p] # items[p]
      BY <1>2, <1>3, <1>4, <2>2
    <2> QED BY <2>1, <2>2
  <1> QED BY <1>1, <1>6, <1>7, <1>8, <1>9 DEF DeliveryInv

\* A reported phase neither ends the run nor stops it.
LEMMA ReportPhaseQuiet ==
    ASSUME LiveInv, NEW phase \in ActivePhase, ReportPhase(phase)
    PROVE  /\ UNCHANGED <<items, count>>
           /\ runs'[Run].stopped = runs[Run].stopped
           /\ runs'[Run].phase = "terminal" <=> runs[Run].phase = "terminal"
  <1>0. Run \in Runs /\ runs[Run] \in LiveRunState /\ runs \in [Runs -> LiveRunState]
    BY WorkersAssumption DEF LiveInv, TypeOK
  <1>1. CASE runs[Run].phase = "terminal"
    BY <1>1 DEF ReportPhase, Keep
  <1>2. CASE runs[Run].phase # "terminal"
    <2>1. runs'[Run] = [runs[Run] EXCEPT !.phase = phase] /\ UNCHANGED <<items, count>>
      BY <1>0, <1>2 DEF ReportPhase, set_run_phase
    <2>2. /\ [runs[Run] EXCEPT !.phase = phase].phase = phase
          /\ [runs[Run] EXCEPT !.phase = phase].stopped = runs[Run].stopped
      BY <1>0 DEF LiveRunState
    <2> QED BY <1>2, <2>1, <2>2 DEF ActivePhase
  <1> QED BY <1>1, <1>2

\* The worker's steps inside the boundary drain and the model call.
LEMMA ControlDelivery ==
    ASSUME NEW w, Workers = {w}, w \notin Dispatchers, DeliveryInv(w), LiveInv',
           \/ _apply_control_item(w) \/ RejectControl(w) \/ MarkControl(w)
           \/ _apply_redirect_correction(w) \/ MarkRedirect(w)
    PROVE  DeliveryInv(w)'
  <1> DEFINE q == turns[w].held
  <1>0. /\ w \in Workers /\ turns[w] \in RunContext /\ saved = turns[w].messages
        /\ Applying(w) => q \in QueueIds /\ items[q] \in Item
        /\ items \in [QueueIds -> Item]
    BY DeliveryFacts DEF DeliveryInv, LiveInv, TypeOK, QueueIds
  <1>1. CASE _apply_control_item(w)
    <2> DEFINE messages == IF IsMessage(items[q]) THEN saved \cup {q} ELSE saved
               pausing == turns[w].pausing \/ items[q].request.kind = "pause"
               aborted == turns[w].aborted \/ items[q].request.kind = "interrupt"
               t == [turns[w] EXCEPT !.pc = "persisted", !.messages = messages,
                                     !.pausing = pausing, !.aborted = aborted]
    <2>1. /\ turns[w].pc = "claimed" /\ Become(w, t) /\ saved' = messages /\ UNCHANGED handed
          /\ Keep \/ \E p \in QueueIds : cancel_next(p)
      BY <1>0, <1>1 DEF _apply_control_item, At
    <2>2. UNCHANGED <<runs, count>> /\ (items' = items \/ \E p \in QueueIds : cancel_next(p))
      BY <2>1 DEF Keep, cancel_next, Update
    <2>3. /\ messages \in {saved, saved \cup {q}}
          /\ IsMessage(items[q]) => q \in messages
      OBVIOUS
    <2> HIDE DEF messages, pausing, aborted
    <2>4. t.pc = "persisted" /\ t.held = q /\ t.messages = messages
      BY <1>0 DEF RunContext
    <2> HIDE DEF t
    <2> QED BY <2>1, <2>2, <2>3, <2>4, PersistDelivery
  <1>2. CASE _apply_redirect_correction(w)
    <2> DEFINE messages == saved \cup {q}
               t == [turns[w] EXCEPT !.pc = "redirect_saved", !.messages = messages]
    <2>1. /\ turns[w].pc = "redirected" /\ Become(w, t) /\ saved' = messages
          /\ UNCHANGED <<handed, runs, count, items>>
      BY <1>0, <1>2 DEF _apply_redirect_correction, At, Keep
    <2>2. t.pc = "redirect_saved" /\ t.held = q /\ t.messages = messages
      BY <1>0 DEF RunContext
    <2> HIDE DEF t
    <2> QED BY <2>1, <2>2, PersistDelivery
  <1>3. CASE RejectControl(w)
    <2> DEFINE t == [turns[w] EXCEPT !.pc = "drain"]
    <2>1. /\ turns[w].pc = "claimed" /\ Become(w, t) /\ UNCHANGED <<saved, handed>>
          /\ IF Queued(q) THEN mark_failed(q, "error") ELSE Keep
      BY <1>3 DEF RejectControl, At, GoTo
    <2>2. Applying(w) /\ q \in QueueIds /\ items[q] \in Item
      BY <1>0, <2>1 DEF Applying
    <2>3. t.pc = "drain" /\ t.messages = saved
      BY <1>0 DEF RunContext
    <2>4. UNCHANGED <<runs, count>> /\ \A p \in QueueIds : p # q => items'[p] = items[p]
      BY <1>0, <2>1 DEF mark_failed, Update, Keep
    <2>5. \/ items'[q] = items[q] /\ items[q].status # "queued"
          \/ items'[q] = Failed(items[q], "error")
      BY <1>0, <2>1, <2>2 DEF mark_failed, Update, Keep, Queued
    <2>6. LET j == Failed(items[q], "error") IN
          /\ j.request = items[q].request /\ j.claimed_by = Nobody /\ j.status = "failed"
          /\ j.resolved_semantic = items[q].resolved_semantic
      BY <2>2 DEF Failed, Item
    <2> HIDE DEF t
    <2> QED BY <2>1, <2>2, <2>3, <2>4, <2>5, <2>6, SettleDelivery
  <1>4. ASSUME NEW phase, Mark(w, phase), NEW t, Become(w, t), UNCHANGED <<saved, handed>>,
               turns[w].pc \in {"persisted", "redirect_saved"}, t.messages = saved,
               t.pc \notin {"claimed", "persisted", "redirected", "redirect_saved"}
        PROVE  DeliveryInv(w)'
    <2>1. Applying(w) /\ q \in QueueIds /\ items[q] \in Item
      BY <1>0, <1>4 DEF Applying
    <2>2. items[q].status = "queued" => items[q].claimed_by = w
      BY <2>1 DEF DeliveryInv, HeldDelivery, Queued
    <2>3. UNCHANGED <<runs, count>> /\ \A p \in QueueIds : p # q => items'[p] = items[p]
      BY <1>0, <1>4 DEF Mark, mark_applied, Update, Keep
    <2>4. \/ items'[q] = items[q] /\ items[q].status # "queued"
          \/ items'[q] = Applied(items[q], phase)
      BY <1>0, <1>4, <2>1, <2>2 DEF Mark, mark_applied, Update, Keep, Queued
    <2>5. LET j == Applied(items[q], phase) IN
          /\ j.request = items[q].request /\ j.claimed_by = Nobody /\ j.status = "applied"
          /\ j.resolved_semantic \in {"steer_current", items[q].resolved_semantic}
      BY <2>1 DEF Applied, Item
    <2> QED BY <1>4, <2>1, <2>3, <2>4, <2>5, SettleDelivery
  <1>5. CASE MarkControl(w)
    <2>1. PICK pc \in {"stopping", "drain"} :
             /\ turns[w].pc = "persisted" /\ Mark(w, turns[w].boundary_phase)
             /\ Become(w, [turns[w] EXCEPT !.pc = pc]) /\ UNCHANGED <<saved, handed>>
      BY <1>5 DEF MarkControl, At, GoTo
    <2>2. [turns[w] EXCEPT !.pc = pc].pc = pc /\ [turns[w] EXCEPT !.pc = pc].messages = saved
      BY <1>0 DEF RunContext
    <2> QED BY <1>4, <2>1, <2>2
  <1>6. CASE MarkRedirect(w)
    <2> DEFINE n == turns[w].redirects + 1
               t == AfterRedirect(turns[w], n)
    <2>1. /\ turns[w].pc = "redirect_saved" /\ Mark(w, "llm_in_flight") /\ Become(w, t)
          /\ UNCHANGED <<saved, handed>>
      BY <1>6 DEF MarkRedirect, At
    <2> HIDE DEF n
    <2>2. t.pc \in {"await", "raised", "answered"} /\ t.messages = saved
      BY <1>0 DEF AfterRedirect, RunContext
    <2> HIDE DEF t
    <2> QED BY <1>4, <2>1, <2>2
  <1> QED BY <1>1, <1>2, <1>3, <1>5, <1>6

\* The worker's other steps: the run goes on, or ends.
LEMMA LoopDelivery ==
    ASSUME NEW w, Workers = {w}, DeliveryInv(w), LiveInv',
           \/ TurnStep(w) \/ Crash(w) \/ HostAbort(w)
           \/ \E next \in LoopHead : ResumeTurn(w, next)
           \/ \E stopped \in BOOLEAN : EndParked(w, stopped),
           \A q \in QueueIds : ~Takes(w, q),
           ~_apply_control_item(w), ~RejectControl(w), ~MarkControl(w),
           ~_apply_redirect_correction(w), ~MarkRedirect(w)
    PROVE  DeliveryInv(w)'
  <1> DEFINE Idle == Pc \ ({"claimed", "persisted", "redirected", "redirect_saved"} \cup Shown)
  <1>0. /\ w \in Workers /\ turns[w] \in RunContext /\ saved = turns[w].messages /\ LiveInv
        /\ turns[w].aborted \in BOOLEAN
    BY DeliveryFacts DEF DeliveryInv, RunContext
  <1>1. \A pc : LET t == [turns[w] EXCEPT !.pc = pc] IN
                t.pc = pc /\ t.messages = saved /\ t.held = turns[w].held
    BY <1>0 DEF RunContext
  <1>2. ASSUME NEW t, Become(w, t), t.messages = saved, t.pc \in Idle, turns[w].pc \in Idle,
               saved' = saved, handed' = handed,
               Keep \/ \E phase \in ActivePhase : ReportPhase(phase)
        PROVE  DeliveryInv(w)'
    <2>1. /\ UNCHANGED <<items, count>>
          /\ runs'[Run].stopped = runs[Run].stopped
          /\ runs'[Run].phase = "terminal" <=> runs[Run].phase = "terminal"
      BY <1>0, <1>2, ReportPhaseQuiet DEF Keep
    <2> QED BY <1>2, <2>1, QuietDelivery
  <1>3. ASSUME NEW pc \in Idle, GoTo(w, pc), turns[w].pc \in Idle,
               saved' = saved, handed' = handed,
               Keep \/ \E phase \in ActivePhase : ReportPhase(phase)
        PROVE  DeliveryInv(w)'
    <2>1. Become(w, [turns[w] EXCEPT !.pc = pc])
      BY <1>3 DEF GoTo
    <2> QED BY <1>1, <1>2, <1>3, <2>1
  <1>4. ASSUME NEW stopped \in BOOLEAN, EndTurn(w, stopped), turns[w].pc \in Idle
        PROVE  DeliveryInv(w)'
    <2>1. /\ commit_terminal(Run, stopped) /\ Become(w, [turns[w] EXCEPT !.pc = "ended"])
          /\ UNCHANGED <<saved, handed>>
      BY <1>4 DEF EndTurn, GoTo
    <2> QED BY <1>1, <1>4, <2>1, TerminalDelivery
  <1>5. LoopHead \cup {"new", "drain", "stopping", "drained", "await", "answered", "tools",
                      "finalizing", "paused", "parked", "ended", "raised", "fenced"} \subseteq Idle
    BY DEF LoopHead, Pc, Shown
  <1> HIDE DEF Idle
  <1>6. ASSUME StopFromBoundary(w) PROVE DeliveryInv(w)'
    <2>1. /\ commit_terminal(Run, TRUE) /\ Become(w, [turns[w] EXCEPT !.pc = "drained"])
          /\ UNCHANGED <<saved, handed>> /\ turns[w].pc = "stopping"
      BY <1>6 DEF StopFromBoundary, stop_run, GoTo, At
    <2> QED BY <1>1, <2>1, TerminalDelivery DEF Shown
  <1>7. ASSUME Crash(w) PROVE DeliveryInv(w)'
    <2>1. Become(w, [turns[w] EXCEPT !.pc = "crashed"]) /\ UNCHANGED <<items, count, runs, saved, handed>>
      BY <1>7 DEF Crash, GoTo, Keep
    <2> QED BY <1>1, <2>1, QuietDelivery
  <1>8. ASSUME HostAbort(w) PROVE DeliveryInv(w)'
    <2> DEFINE t == [turns[w] EXCEPT !.aborted = TRUE]
    <2>1. Become(w, t) /\ UNCHANGED <<items, count, runs, saved, handed>>
      BY <1>8 DEF HostAbort, Keep
    <2>2. t.pc = turns[w].pc /\ t.held = turns[w].held /\ t.messages = saved
      BY <1>0 DEF RunContext
    <2> HIDE DEF t
    <2> QED BY <2>1, <2>2, QuietDelivery
  <1>9. ASSUME NEW next \in LoopHead, ResumeTurn(w, next) PROVE DeliveryInv(w)'
    <2> DEFINE t == [turns[w] EXCEPT !.pc = next, !.messages = saved, !.aborted = FALSE]
    <2>1. /\ Become(w, t) /\ UNCHANGED <<saved, handed>> /\ turns[w].pc \in {"paused", "parked"}
          /\ \E phase \in ActivePhase : ReportPhase(phase)
      BY <1>9 DEF ResumeTurn, At, ActivePhase
    <2>2. t.pc = next /\ t.messages = saved
      BY <1>0 DEF RunContext
    <2> HIDE DEF t
    <2> QED BY <1>2, <1>5, <2>1, <2>2
  <1>10. ASSUME StartRun(w) \/ BeginDrain(w) \/ BeginCall(w) \/ CallReturns(w) \/ SaveAnswer(w)
                \/ _park_steering_pause(w)
         PROVE  DeliveryInv(w)'
    <2>1. CASE StartRun(w)
      <3> DEFINE g == runs[Run].llm_generation
                 t == [turns[w] EXCEPT !.pc = "llm_call", !.generation = g]
      <3>1. /\ Become(w, t) /\ UNCHANGED <<saved, handed>> /\ turns[w].pc = "new"
            /\ \E phase \in ActivePhase : ReportPhase(phase)
        BY <2>1 DEF StartRun, At, ActivePhase
      <3> HIDE DEF g
      <3>2. t.pc = "llm_call" /\ t.messages = saved
        BY <1>0 DEF RunContext
      <3> HIDE DEF t
      <3> QED BY <1>2, <1>5, <3>1, <3>2 DEF LoopHead
    <2>2. CASE BeginDrain(w)
      <3> DEFINE p == runs[Run].phase
                 t == [turns[w] EXCEPT !.pc = "drain", !.boundary_phase = p]
      <3>1. Become(w, t) /\ UNCHANGED <<saved, handed>> /\ turns[w].pc = "llm_call" /\ Keep
        BY <2>2 DEF BeginDrain, At
      <3> HIDE DEF p
      <3>2. t.pc = "drain" /\ t.messages = saved
        BY <1>0 DEF RunContext
      <3> HIDE DEF t
      <3> QED BY <1>2, <1>5, <3>1, <3>2 DEF LoopHead
    <2>3. CASE BeginCall(w)
      <3> DEFINE g == runs[Run].llm_generation
                 a == turns[w].messages
                 t == [turns[w] EXCEPT !.pc = "await", !.asked = a, !.redirects = 0, !.generation = g]
      <3>1. /\ Become(w, t) /\ UNCHANGED <<saved, handed>> /\ turns[w].pc = "drained"
            /\ \E phase \in ActivePhase : ReportPhase(phase)
        BY <2>3 DEF BeginCall, At, ActivePhase
      <3> HIDE DEF g, a
      <3>2. t.pc = "await" /\ t.messages = saved
        BY <1>0 DEF RunContext
      <3> HIDE DEF t
      <3> QED BY <1>2, <1>5, <3>1, <3>2
    <2>4. CASE CallReturns(w)
      <3> DEFINE a == turns[w].asked
                 t == [turns[w] EXCEPT !.pc = "answered", !.answered = a]
      <3>1. Become(w, t) /\ UNCHANGED <<saved, handed>> /\ turns[w].pc = "await" /\ Keep
        BY <2>4 DEF CallReturns, At
      <3> HIDE DEF a
      <3>2. t.pc = "answered" /\ t.messages = saved
        BY <1>0 DEF RunContext
      <3> HIDE DEF t
      <3> QED BY <1>2, <1>5, <3>1, <3>2
    <2>5. CASE SaveAnswer(w)
      <3> DEFINE n == turns[w].llm_steps + 1
                 t == [turns[w] EXCEPT !.pc = "tool_stage", !.llm_steps = n]
      <3>1. Become(w, t) /\ UNCHANGED <<saved, handed>> /\ turns[w].pc = "answered" /\ Keep
        BY <1>0, <2>5 DEF SaveAnswer, At
      <3> HIDE DEF n
      <3>2. t.pc = "tool_stage" /\ t.messages = saved
        BY <1>0 DEF RunContext
      <3> HIDE DEF t
      <3> QED BY <1>2, <1>5, <3>1, <3>2 DEF LoopHead
    <2>6. CASE _park_steering_pause(w)
      <3> DEFINE t == [turns[w] EXCEPT !.pc = "paused", !.pausing = FALSE]
      <3>1. /\ Become(w, t) /\ UNCHANGED <<saved, handed>> /\ turns[w].pc = "drained"
            /\ \E phase \in ActivePhase : ReportPhase(phase)
        BY <1>0, <2>6 DEF _park_steering_pause, At, ActivePhase
      <3>2. t.pc = "paused" /\ t.messages = saved
        BY <1>0 DEF RunContext
      <3> HIDE DEF t
      <3> QED BY <1>2, <1>5, <3>1, <3>2
    <2> QED BY <1>10, <2>1, <2>2, <2>3, <2>4, <2>5, <2>6
  <1>11. ASSUME DrainEnds(w) \/ CallFenced(w) \/ (\E next \in {"llm_call", "finalize"} : ToolStageEnds(w, next))
                \/ _resume_after_finalize(w)
         PROVE  DeliveryInv(w)'
    BY <1>0, <1>3, <1>5, <1>11
       DEF DrainEnds, CallFenced, ToolStageEnds, _resume_after_finalize, At, LoopHead
  <1>12. ASSUME _execute_tool_stage(w) \/ ParkInterrupt(w) \/ _execute_finalize(w)
         PROVE  DeliveryInv(w)'
    BY <1>0, <1>3, <1>5, <1>12
       DEF _execute_tool_stage, ParkInterrupt, _execute_finalize, At, LoopHead, ActivePhase
  <1>13. ASSUME _terminal_from_limits(w) \/ CallAborted(w) \/ CallFails(w) \/ Finish(w) \/ StepTimesOut(w)
                \/ \E stopped \in BOOLEAN : EndParked(w, stopped)
         PROVE  DeliveryInv(w)'
    BY <1>0, <1>4, <1>5, <1>13
       DEF _terminal_from_limits, CallAborted, CallFails, Finish, StepTimesOut, EndParked, At
  <1> QED BY <1>6, <1>7, <1>8, <1>9, <1>10, <1>11, <1>12, <1>13 DEF TurnStep, Takes

LEMMA DeliveryStep ==
    ASSUME NEW w, Workers = {w}, w \notin Dispatchers, DeliveryInv(w), [LiveNext]_liveVars
    PROVE  DeliveryInv(w)'
  <1>0. LiveInv' /\ w \in Workers
    BY LiveStep DEF DeliveryInv
  <1>1. CASE UNCHANGED liveVars
    <2>1. DeliveryInv(w) => DeliveryInv(w)'
      BY <1>0, <1>1 DEF liveVars, DeliveryInv, HeldDelivery, SavedDelivery, NextComesLate,
                        AppliedIsSaved, HandedOver, Applying, Queued, QueueIds, IsMessage, Requested
    <2> QED BY <2>1
  <1>2. CASE HostStep /\ UNCHANGED <<turns, saved, handed>>
    BY <1>0, <1>2, HostDelivery
  <1>3. ASSUME NEW d \in Dispatchers, NEW q \in QueueIds,
               \/ ClaimNext(d, q) \/ create_next_turn(d, q) \/ FailHandoff(d, q)
               \/ \E turn \in Turns : CompleteHandoff(d, q, turn)
        PROVE  DeliveryInv(w)'
    BY <1>0, <1>3, DispatcherDelivery
  <1>4. ASSUME NEW v \in Workers,
               \/ TurnStep(v) \/ Crash(v) \/ HostAbort(v)
               \/ \E next \in LoopHead : ResumeTurn(v, next)
               \/ \E stopped \in BOOLEAN : EndParked(v, stopped)
        PROVE  DeliveryInv(w)'
    <2>1. v = w
      OBVIOUS
    <2>2. ASSUME NEW q \in QueueIds, Takes(w, q) PROVE DeliveryInv(w)'
      BY <1>0, <2>2, TakesDelivery
    <2>3. CASE \/ _apply_control_item(w) \/ RejectControl(w) \/ MarkControl(w)
               \/ _apply_redirect_correction(w) \/ MarkRedirect(w)
      BY <1>0, <2>3, ControlDelivery
    <2> QED BY <1>0, <1>4, <2>1, <2>2, <2>3, LoopDelivery
  <1> QED BY <1>1, <1>2, <1>3, <1>4 DEF LiveNext

\* Between a boundary drain, a crash, a redirect and a next turn, a message reaches the model
\* once and its row says so - for any number of messages, hosts and dispatchers - in a run
\* driven by one attempt whose id no dispatcher uses.
THEOREM LiveRunDelivery ==
    ASSUME NEW w, Workers = {w}, w \notin Dispatchers
    PROVE  LiveSpec => []DeliveredOnce
  <1>1. LiveInit => DeliveryInv(w)
    <2> SUFFICES ASSUME LiveInit PROVE DeliveryInv(w)
      OBVIOUS
    <2>0. LiveInv
      BY LiveInitInv
    <2>1. count = 0 /\ saved = {} /\ handed = {} /\ w \in Workers
      BY DEF LiveInit, Init
    <2>2. turns[w].messages = {} /\ turns[w].pc = "new"
      BY <2>1 DEF LiveInit
    <2>3. QueueIds = {}
      BY <2>1 DEF QueueIds
    <2> QED BY <2>0, <2>1, <2>2, <2>3 DEF DeliveryInv, HeldDelivery, SavedDelivery, NextComesLate,
                                         AppliedIsSaved, Applying
  <1>2. DeliveryInv(w) /\ [LiveNext]_liveVars => DeliveryInv(w)'
    BY DeliveryStep
  <1>3. DeliveryInv(w) => DeliveredOnce
    BY DEF DeliveryInv, SavedDelivery, DeliveredOnce, NotDeliveredTwice, ShownIsNotFailed
  <1> QED BY <1>1, <1>2, <1>3, PTL DEF LiveSpec

(***************************************************************************)
(* The answer tools run for.                                               *)
(***************************************************************************)
\* The bound the code's comment gives: a step follows two redirects and leaves a third.
TwoRedirects == \A w \in Workers : turns[w].redirects < 3

Acting == {"answered", "tool_stage", "tools", "parked"}

\* The request in flight carries the transcript, and the answer in hand answers it, also
\* that of the checkpoint a parked run resumes from.
Answers(t, transcript) ==
    /\ t.pc = "await" => t.asked = t.messages
    /\ t.pc \in Acting => t.messages \subseteq t.answered
    /\ t.pc = "parked" => transcript \subseteq t.answered

AnswerInv(w) == LiveInv /\ Answers(turns[w], saved)

\* A parked run goes on from its checkpoint, at the tools only if it was parked there.
LEMMA ResumeMoves ==
    ASSUME NEW w, NEW next, ResumeTurn(w, next)
    PROVE  /\ Become(w, [turns[w] EXCEPT !.pc = next, !.messages = saved, !.aborted = FALSE])
           /\ saved' = saved
           /\ next = "llm_call" \/ (next = "tool_stage" /\ turns[w].pc = "parked")
  BY Zenon DEF ResumeTurn, At

\* The worker's own steps.
LEMMA AnswerMoves ==
    ASSUME NEW w, Workers = {w}, AnswerInv(w), TwoRedirects',
           \/ TurnStep(w) \/ Crash(w) \/ HostAbort(w)
           \/ \E next \in LoopHead : ResumeTurn(w, next)
           \/ \E stopped \in BOOLEAN : EndParked(w, stopped)
    PROVE  Answers(turns'[w], saved')
  <1>0. /\ w \in Workers /\ LiveInv /\ turns[w] \in RunContext
        /\ turns[w].redirects \in 0..3 /\ turns[w].aborted \in BOOLEAN
        /\ Answers(turns[w], saved)
    BY DEF AnswerInv, LiveInv, RunContext
  <1>1. \A pc : LET t == [turns[w] EXCEPT !.pc = pc] IN
                /\ t.pc = pc /\ t.messages = turns[w].messages /\ t.asked = turns[w].asked
                /\ t.answered = turns[w].answered
    BY <1>0 DEF RunContext
  <1>2. ASSUME NEW t, Become(w, t), Answers(t, saved') PROVE Answers(turns'[w], saved')
    BY <1>0, <1>2, BecomeMoves
  <1>3. ASSUME NEW t, t.pc \notin Acting \cup {"await"} PROVE Answers(t, saved')
    BY <1>3 DEF Answers, Acting
  <1>4. ASSUME NEW pc, GoTo(w, pc), pc \notin Acting \cup {"await"}
        PROVE  Answers(turns'[w], saved')
    BY <1>1, <1>2, <1>3, <1>4 DEF GoTo
  <1>5. ASSUME NEW stopped, EndTurn(w, stopped) PROVE Answers(turns'[w], saved')
    BY <1>4, <1>5 DEF EndTurn, Acting
  <1>6. CASE StartRun(w) \/ BeginDrain(w) \/ _park_steering_pause(w)
    <2>1. CASE StartRun(w)
      <3> DEFINE g == runs[Run].llm_generation
                 t == [turns[w] EXCEPT !.pc = "llm_call", !.generation = g]
      <3>1. Become(w, t)
        BY <1>0, <2>1 DEF StartRun
      <3>2. t.pc = "llm_call"
        BY <1>0 DEF RunContext
      <3> HIDE DEF t
      <3> QED BY <1>2, <1>3, <3>1, <3>2 DEF Acting
    <2>2. CASE BeginDrain(w)
      <3> DEFINE p == runs[Run].phase
                 t == [turns[w] EXCEPT !.pc = "drain", !.boundary_phase = p]
      <3>1. Become(w, t)
        BY <1>0, <2>2 DEF BeginDrain
      <3>2. t.pc = "drain"
        BY <1>0 DEF RunContext
      <3> HIDE DEF t
      <3> QED BY <1>2, <1>3, <3>1, <3>2 DEF Acting
    <2>3. CASE _park_steering_pause(w)
      <3> DEFINE p == FALSE
                 t == [turns[w] EXCEPT !.pc = "paused", !.pausing = p]
      <3>1. Become(w, t)
        BY <1>0, <2>3 DEF _park_steering_pause
      <3>2. t.pc = "paused"
        BY <1>0 DEF RunContext
      <3> HIDE DEF t
      <3> QED BY <1>2, <1>3, <3>1, <3>2 DEF Acting
    <2> QED BY <1>6, <2>1, <2>2, <2>3
  <1>7. CASE BeginCall(w)
    <2> DEFINE g == runs[Run].llm_generation
               a == turns[w].messages
               t == [turns[w] EXCEPT !.pc = "await", !.asked = a, !.redirects = 0, !.generation = g]
    <2>1. Become(w, t)
      BY <1>7 DEF BeginCall
    <2> HIDE DEF g
    <2>2. t.pc = "await" /\ t.asked = t.messages
      BY <1>0 DEF RunContext
    <2> HIDE DEF t
    <2> QED BY <1>2, <2>1, <2>2 DEF Answers, Acting
  <1>8. CASE CallReturns(w)
    <2> DEFINE a == turns[w].asked
               t == [turns[w] EXCEPT !.pc = "answered", !.answered = a]
    <2>1. Become(w, t) /\ turns[w].pc = "await"
      BY <1>8 DEF CallReturns, At
    <2>2. t.pc = "answered" /\ t.messages = turns[w].messages /\ t.answered = turns[w].asked
      BY <1>0 DEF RunContext
    <2> HIDE DEF t
    <2> QED BY <1>0, <1>2, <2>1, <2>2 DEF Answers, Acting
  <1>9. CASE SaveAnswer(w)
    <2> DEFINE n == turns[w].llm_steps + 1
               t == [turns[w] EXCEPT !.pc = "tool_stage", !.llm_steps = n]
    <2>1. Become(w, t) /\ turns[w].pc = "answered"
      BY <1>0, <1>9 DEF SaveAnswer, At
    <2> HIDE DEF n
    <2>2. t.pc = "tool_stage" /\ t.messages = turns[w].messages /\ t.answered = turns[w].answered
      BY <1>0 DEF RunContext
    <2> HIDE DEF t
    <2> QED BY <1>0, <1>2, <2>1, <2>2 DEF Answers, Acting
  <1>10. ASSUME NEW q \in QueueIds, Takes(w, q) PROVE Answers(turns'[w], saved')
    <2>1. CASE ClaimControl(w, q)
      <3> DEFINE t == [turns[w] EXCEPT !.pc = "claimed", !.held = q]
      <3>1. Become(w, t)
        BY <2>1 DEF ClaimControl
      <3>2. t.pc = "claimed"
        BY <1>0 DEF RunContext
      <3> HIDE DEF t
      <3> QED BY <1>2, <1>3, <3>1, <3>2 DEF Acting
    <2>2. CASE CallRedirected(w, q)
      <3> DEFINE g == turns[w].generation + 1
                 t == [turns[w] EXCEPT !.pc = "redirected", !.held = q, !.generation = g]
      <3>1. Become(w, t)
        BY <1>0, <2>2 DEF CallRedirected
      <3> HIDE DEF g
      <3>2. t.pc = "redirected"
        BY <1>0 DEF RunContext
      <3> HIDE DEF t
      <3> QED BY <1>2, <1>3, <3>1, <3>2 DEF Acting
    <2> QED BY <1>10, <2>1, <2>2 DEF Takes
  <1>11. CASE _apply_control_item(w)
    <2> DEFINE q == turns[w].held
               m == IF IsMessage(items[q]) THEN turns[w].messages \cup {q} ELSE turns[w].messages
               p == turns[w].pausing \/ items[q].request.kind = "pause"
               a == turns[w].aborted \/ items[q].request.kind = "interrupt"
               t == [turns[w] EXCEPT !.pc = "persisted", !.messages = m, !.pausing = p, !.aborted = a]
    <2>1. Become(w, t)
      BY <1>0, <1>11 DEF _apply_control_item
    <2> HIDE DEF m, p, a
    <2>2. t.pc = "persisted"
      BY <1>0 DEF RunContext
    <2> HIDE DEF t
    <2> QED BY <1>2, <1>3, <2>1, <2>2 DEF Acting
  <1>12. CASE _apply_redirect_correction(w)
    <2> DEFINE m == turns[w].messages \cup {turns[w].held}
               t == [turns[w] EXCEPT !.pc = "redirect_saved", !.messages = m]
    <2>1. Become(w, t)
      BY <1>12 DEF _apply_redirect_correction
    <2>2. t.pc = "redirect_saved"
      BY <1>0 DEF RunContext
    <2> HIDE DEF t
    <2> QED BY <1>2, <1>3, <2>1, <2>2 DEF Acting
  <1>13. CASE MarkRedirect(w)
    <2>1. PICK n : n = turns[w].redirects + 1
      OBVIOUS
    <2> DEFINE t == AfterRedirect(turns[w], n)
    <2>2. Become(w, t) /\ turns'[w] = t
      BY <1>0, <1>13, <2>1, BecomeMoves DEF MarkRedirect
    <2>3. t.redirects < 3
      BY <1>0, <2>2 DEF TwoRedirects
    <2>4. \/ t.pc = "await" /\ t.asked = t.messages
          \/ t.pc = "raised"
      BY <1>0, <2>1, <2>3 DEF AfterRedirect, RunContext
    <2> HIDE DEF t
    <2> QED BY <1>2, <2>2, <2>4 DEF Answers, Acting
  <1>14. CASE \/ RejectControl(w) \/ MarkControl(w) \/ StopFromBoundary(w) \/ DrainEnds(w)
              \/ CallFenced(w) \/ _execute_finalize(w) \/ _resume_after_finalize(w)
              \/ (\E next \in {"llm_call", "finalize"} : ToolStageEnds(w, next)) \/ Crash(w)
    <2>1. \E pc \in Pc : GoTo(w, pc) /\ pc \notin Acting \cup {"await"}
      BY <1>14 DEF RejectControl, MarkControl, StopFromBoundary, DrainEnds, CallFenced,
                   _execute_finalize, _resume_after_finalize, ToolStageEnds, Crash, Pc, Acting,
                   LoopHead
    <2> QED BY <1>4, <2>1
  <1>15. CASE \/ _terminal_from_limits(w) \/ CallAborted(w) \/ CallFails(w) \/ Finish(w)
              \/ StepTimesOut(w) \/ \E stopped \in BOOLEAN : EndParked(w, stopped)
    BY <1>5, <1>15 DEF _terminal_from_limits, CallAborted, CallFails, Finish, StepTimesOut, EndParked
  <1>16. CASE _execute_tool_stage(w)
    <2>1. /\ Become(w, [turns[w] EXCEPT !.pc = "tools"]) /\ turns[w].pc = "tool_stage"
      BY <1>16 DEF _execute_tool_stage, GoTo, At
    <2> QED BY <1>0, <1>1, <1>2, <2>1 DEF Answers, Acting
  <1>17. CASE ParkInterrupt(w)
    <2>1. /\ Become(w, [turns[w] EXCEPT !.pc = "parked"]) /\ turns[w].pc = "tools"
          /\ saved' = turns[w].messages
      BY <1>17 DEF ParkInterrupt, GoTo, At
    <2> QED BY <1>0, <1>1, <1>2, <2>1 DEF Answers, Acting
  <1>18. ASSUME NEW next \in LoopHead, ResumeTurn(w, next) PROVE Answers(turns'[w], saved')
    <2> DEFINE t == [turns[w] EXCEPT !.pc = next, !.messages = saved, !.aborted = FALSE]
    <2>1. /\ Become(w, t) /\ saved' = saved
          /\ next = "llm_call" \/ (next = "tool_stage" /\ turns[w].pc = "parked")
      BY <1>18, ResumeMoves, Zenon
    <2>2. t.pc = next /\ t.messages = saved /\ t.answered = turns[w].answered
      BY <1>0 DEF RunContext
    <2> HIDE DEF t
    <2> QED BY <1>0, <1>2, <2>1, <2>2 DEF Answers, Acting
  <1>19. CASE HostAbort(w)
    <2> DEFINE t == [turns[w] EXCEPT !.aborted = TRUE]
    <2>1. Become(w, t) /\ saved' = saved
      BY <1>19 DEF HostAbort
    <2>2. /\ t.pc = turns[w].pc /\ t.messages = turns[w].messages
          /\ t.asked = turns[w].asked /\ t.answered = turns[w].answered
      BY <1>0 DEF RunContext
    <2> HIDE DEF t
    <2> QED BY <1>0, <1>2, <2>1, <2>2 DEF Answers, Acting
  <1> QED BY <1>6, <1>7, <1>8, <1>9, <1>10, <1>11, <1>12, <1>13, <1>14, <1>15, <1>16, <1>17,
             <1>18, <1>19 DEF TurnStep, Takes

\* A correction that interrupted a call has been put to the model before the run acts again:
\* in a run driven by one attempt, through boundary drains, pauses, parks, resumes and
\* crashes, tools run for an answer to everything the transcript holds, as long as no step
\* meets a third redirect, which the code does not put to the model.
THEOREM LiveRunAnswers ==
    ASSUME NEW w, Workers = {w}
    PROVE  LiveSpec /\ []TwoRedirects => []ActsOnTheLatestAnswer
  <1>1. LiveInit => AnswerInv(w)
    <2> SUFFICES ASSUME LiveInit PROVE AnswerInv(w)
      OBVIOUS
    <2>1. LiveInv
      BY LiveInitInv
    <2>2. w \in Workers /\ turns[w].pc = "new"
      BY DEF LiveInit
    <2> QED BY <2>1, <2>2 DEF AnswerInv, Answers, Acting
  <1>2. AnswerInv(w) /\ [LiveNext]_liveVars /\ TwoRedirects' => AnswerInv(w)'
    <2> SUFFICES ASSUME AnswerInv(w), [LiveNext]_liveVars, TwoRedirects' PROVE AnswerInv(w)'
      OBVIOUS
    <2>0. LiveInv'
      BY LiveStep DEF AnswerInv
    <2>1. CASE UNCHANGED <<turns, saved>>
      BY <2>0, <2>1 DEF AnswerInv, Answers, Acting
    <2>2. CASE \E v \in Workers :
                  \/ TurnStep(v) \/ Crash(v) \/ HostAbort(v)
                  \/ \E next \in LoopHead : ResumeTurn(v, next)
                  \/ \E stopped \in BOOLEAN : EndParked(v, stopped)
      <3>1. Answers(turns'[w], saved')
        BY <2>2, AnswerMoves
      <3> QED BY <2>0, <3>1 DEF AnswerInv, Answers, Acting
    <2>3. CASE \E d \in Dispatchers, q \in QueueIds :
                  \/ ClaimNext(d, q) \/ create_next_turn(d, q) \/ FailHandoff(d, q)
                  \/ \E turn \in Turns : CompleteHandoff(d, q, turn)
      BY <2>1, <2>3 DEF ClaimNext, create_next_turn, FailHandoff, CompleteHandoff
    <2> QED BY <2>1, <2>2, <2>3 DEF LiveNext, liveVars
  <1>3. AnswerInv(w) => ActsOnTheLatestAnswer
    BY DEF AnswerInv, Answers, Acting, ActsOnTheLatestAnswer, At
  <1> QED BY <1>1, <1>2, <1>3, PTL DEF LiveSpec

=============================================================================
