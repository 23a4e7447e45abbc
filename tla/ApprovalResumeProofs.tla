------------------------ MODULE ApprovalResumeProofs ------------------------
(***************************************************************************)
(* Proofs about ApprovalResume, for any set of processes, keys and bounds: *)
(* its type invariant; that with an approval ledger at most one process    *)
(* drives the run and an approved call runs at most once; that a result on *)
(* record is the winner's; and that a consumed approval is final.          *)
(***************************************************************************)
EXTENDS ApprovalResume, TLAPS

(***************************************************************************)
(* Types.  Step counts stay below the number of checkpoints, which keeps   *)
(* the ids of pauses and calls within InterruptId, and a process that has  *)
(* loaded a checkpoint has loaded one that exists and is pending.          *)
(***************************************************************************)
Counted ==
    /\ \A k \in 1..saved : checkpoints[k].step_count <= saved
    /\ \A c \in Clients : workers[c].step_count <= saved

LoadedIsPending ==
    \A c \in Clients : workers[c].pc = "loaded" =>
        workers[c].row \in 1..saved /\ checkpoints[workers[c].row].pending # NoInterrupt

ToolDoneIsApproved ==
    \A c \in Clients : workers[c].pc = "tool_done" => workers[c].approved # NoInterrupt

TypeInv == TypeOK /\ Counted /\ LoadedIsPending /\ ToolDoneIsApproved

\* The idle worker and the empty ledger row have the types their names suggest.
LEMMA ConstantTypes ==
    /\ Idle \in Worker
    /\ NoRow \in LedgerRow
    /\ NoInterrupt \notin InterruptId
BY BoundsAssumption
   DEF Idle, Worker, NoRow, LedgerRow, NoInterrupt, InterruptId, ResumeCommand, ResumeAction

\* _save_checkpoint appends one checkpoint and keeps the ones there are.
LEMMA SaveAppends ==
    ASSUME TypeOK,
           NEW p \in InterruptId \cup {NoInterrupt}, NEW r \in InterruptReason,
           NEW s \in 0..MaxCheckpoints, NEW cs \in SUBSET InterruptId,
           SaveCheckpoint(p, r, s, cs)
    PROVE  /\ saved' \in 1..MaxCheckpoints /\ saved' = saved + 1
           /\ checkpoints' \in [1..saved' -> Checkpoint]
           /\ \A k \in 1..saved : k \in 1..saved' /\ k # saved' /\ checkpoints'[k] = checkpoints[k]
           /\ \A k \in 1..saved' : k # saved' => k \in 1..saved
           /\ checkpoints'[saved'] = [pending |-> p, reason |-> r, step_count |-> s,
                                      consumed |-> cs]
BY BoundsAssumption DEF TypeOK, SaveCheckpoint, Checkpoint

\* A process that changes leaves every other one as it was.
LEMMA BecomeTyped ==
    ASSUME TypeOK, NEW c \in Clients, NEW w \in Worker, Become(c, w)
    PROVE  /\ workers' \in [Clients -> Worker]
           /\ workers'[c] = w
           /\ \A d \in Clients : d # c => workers'[d] = workers[d]
BY DEF TypeOK, Become

\* What the processes other than c have in common before and after a step of c that saves
\* at most one checkpoint, and what is left to show of c itself.
LEMMA OthersKeepTypes ==
    ASSUME TypeInv, NEW c \in Clients,
           saved' \in 1..MaxCheckpoints, saved <= saved',
           checkpoints' \in [1..saved' -> Checkpoint],
           \A k \in 1..saved : checkpoints'[k] = checkpoints[k],
           \A k \in 1..saved' : k \notin 1..saved => checkpoints'[k].step_count <= saved',
           workers' \in [Clients -> Worker],
           \A d \in Clients : d # c => workers'[d] = workers[d],
           workers'[c].step_count <= saved',
           workers'[c].pc = "loaded" =>
               workers'[c].row \in 1..saved' /\ checkpoints'[workers'[c].row].pending # NoInterrupt,
           workers'[c].pc = "tool_done" => workers'[c].approved # NoInterrupt
    PROVE  Counted' /\ LoadedIsPending' /\ ToolDoneIsApproved'
<1>1. \A k \in 1..saved' : checkpoints'[k].step_count <= saved'
  BY DEF TypeInv, TypeOK, Counted, Checkpoint
<1>2. \A d \in Clients : workers'[d].step_count <= saved'
  <2>1. TAKE d \in Clients
  <2>2. /\ workers[d].step_count \in Nat /\ workers[d].step_count <= saved
        /\ saved \in Nat /\ saved' \in Nat
    BY BoundsAssumption DEF TypeInv, TypeOK, Counted, Worker
  <2>3. CASE d = c
    BY <2>3
  <2>4. CASE d # c
    <3>1. workers'[d].step_count = workers[d].step_count
      BY <2>4
    <3>2. QED
      BY <2>2, <3>1
  <2>5. QED
    BY <2>3, <2>4
<1>3. Counted'
  BY <1>1, <1>2 DEF Counted
<1>4. LoadedIsPending'
  <2>1. SUFFICES ASSUME NEW d \in Clients, workers'[d].pc = "loaded"
                 PROVE  /\ workers'[d].row \in 1..saved'
                        /\ checkpoints'[workers'[d].row].pending # NoInterrupt
    BY DEF LoadedIsPending
  <2>2. CASE d = c
    BY <2>1, <2>2
  <2>3. CASE d # c
    <3>1. workers'[d] = workers[d]
      BY <2>3
    <3>2. workers[d].row \in 1..saved /\ checkpoints[workers[d].row].pending # NoInterrupt
      BY <2>1, <3>1 DEF TypeInv, LoadedIsPending
    <3>3. saved \in Nat /\ saved' \in Nat /\ saved <= saved'
      BY BoundsAssumption DEF TypeInv, TypeOK
    <3>4. QED
      BY <3>1, <3>2, <3>3
  <2>4. QED
    BY <2>2, <2>3
<1>5. ToolDoneIsApproved'
  BY DEF TypeInv, TypeOK, ToolDoneIsApproved, Worker
<1>6. QED
  BY <1>3, <1>4, <1>5

\* A driver that becomes w, saves one checkpoint and touches no ledger keeps the types.
LEMMA SaveStepKeepsTypes ==
    ASSUME TypeInv, NEW c \in Clients, NEW w \in Worker,
           NEW p \in InterruptId \cup {NoInterrupt}, NEW r \in InterruptReason,
           NEW s \in 0..MaxCheckpoints, NEW cs \in SUBSET InterruptId,
           SaveCheckpoint(p, r, s, cs), s <= saved + 1,
           Become(c, w), w.step_count <= saved + 1, w.pc \notin {"loaded", "tool_done"},
           ledger' \in [InterruptId -> LedgerRow], tool_runs' \in [InterruptId -> Nat],
           calls' \in 0..(saved + 1), pause_queued' \in BOOLEAN, pauses' \in 0..MaxPauses,
           awaiting' \in BOOLEAN
    PROVE  TypeInv'
<1>1. TypeOK
  BY DEF TypeInv
<1>2. /\ saved' \in 1..MaxCheckpoints /\ saved' = saved + 1
      /\ checkpoints' \in [1..saved' -> Checkpoint]
      /\ \A k \in 1..saved : k \in 1..saved' /\ k # saved' /\ checkpoints'[k] = checkpoints[k]
      /\ \A k \in 1..saved' : k # saved' => k \in 1..saved
      /\ checkpoints'[saved'] = [pending |-> p, reason |-> r, step_count |-> s, consumed |-> cs]
  BY <1>1, SaveAppends
<1>3. /\ workers' \in [Clients -> Worker]
      /\ workers'[c] = w
      /\ \A d \in Clients : d # c => workers'[d] = workers[d]
  BY <1>1, BecomeTyped
<1>4. TypeOK'
  BY <1>2, <1>3 DEF TypeOK
<1>5. saved <= saved' /\ workers'[c].step_count <= saved'
  BY <1>1, <1>2, <1>3 DEF TypeOK
<1>6. \A k \in 1..saved' : k \notin 1..saved => checkpoints'[k].step_count <= saved'
  <2>1. checkpoints'[saved'].step_count = s
    BY <1>2
  <2>2. s <= saved'
    BY <1>2
  <2>3. QED
    BY <1>2, <2>1, <2>2
<1>7. Counted' /\ LoadedIsPending' /\ ToolDoneIsApproved'
  BY <1>2, <1>3, <1>5, <1>6, OthersKeepTypes
<1>8. QED
  BY <1>4, <1>7 DEF TypeInv

\* A process that becomes w and saves no checkpoint keeps the types.
LEMMA QuietStepKeepsTypes ==
    ASSUME TypeInv, NEW c \in Clients, NEW w \in Worker, Become(c, w),
           w.step_count <= saved,
           w.pc = "loaded" => w.row \in 1..saved /\ checkpoints[w.row].pending # NoInterrupt,
           w.pc = "tool_done" => w.approved # NoInterrupt,
           UNCHANGED <<checkpoints, saved, calls, pause_queued, pauses>>,
           ledger' \in [InterruptId -> LedgerRow], tool_runs' \in [InterruptId -> Nat],
           awaiting' \in BOOLEAN
    PROVE  TypeInv'
<1>1. TypeOK
  BY DEF TypeInv
<1>2. /\ workers' \in [Clients -> Worker]
      /\ workers'[c] = w
      /\ \A d \in Clients : d # c => workers'[d] = workers[d]
  BY <1>1, BecomeTyped
<1>3. TypeOK'
  BY <1>1, <1>2 DEF TypeOK
<1>4. saved' \in 1..MaxCheckpoints /\ saved <= saved'
  BY <1>1, BoundsAssumption DEF TypeOK
<1>5. Counted' /\ LoadedIsPending' /\ ToolDoneIsApproved'
  BY <1>1, <1>2, <1>4, OthersKeepTypes DEF TypeOK
<1>6. QED
  BY <1>3, <1>5 DEF TypeInv

\* Every action keeps the types.
LEMMA TypeStep ==
    ASSUME TypeInv, [Next]_vars
    PROVE  TypeInv'
<1> USE ConstantTypes, BoundsAssumption
<1>a. TypeOK
  BY DEF TypeInv
<1>w. ASSUME NEW c \in Clients
      PROVE  /\ workers[c] \in Worker
             /\ workers[c].step_count \in 0..MaxCheckpoints
             /\ workers[c].step_count <= saved
             /\ workers[c].consumed \in SUBSET InterruptId
             /\ workers[c].approved \in InterruptId \cup {NoInterrupt}
  BY <1>a DEF TypeInv, TypeOK, Counted, Worker
<1>s. saved \in 1..MaxCheckpoints /\ calls \in 0..saved
  BY <1>a DEF TypeOK
<1>r. "tool" \in InterruptReason /\ "pause" \in InterruptReason /\ "question" \in InterruptReason
  BY DEF InterruptReason
<1>1. CASE RequestPause
  <2>1. TypeOK'
    BY <1>1, <1>a DEF RequestPause, TypeOK
  <2>2. Counted' /\ LoadedIsPending' /\ ToolDoneIsApproved'
    BY <1>1 DEF RequestPause, TypeInv, Counted, LoadedIsPending, ToolDoneIsApproved
  <2>3. QED
    BY <2>1, <2>2 DEF TypeInv
<1>2. ASSUME NEW c \in Clients, NEW k \in 1..saved, NEW action \in Decisions,
             NEW key \in Keys \cup {NoKey}, NEW token \in {<<"chk", k>>, checkpoints[k].pending},
             NEW expected \in {0, saved},
             Resume(c, k, [token |-> token, action |-> action, key |-> key], expected)
      PROVE  TypeInv'
  <2> DEFINE cmd == [token |-> token, action |-> action, key |-> key]
  <2> DEFINE v == [Idle EXCEPT !.pc = "loaded", !.resume = cmd, !.row = k,
                               !.step_count = checkpoints[k].step_count,
                               !.consumed = checkpoints[k].consumed]
  <2>1. checkpoints[k] \in Checkpoint /\ checkpoints[k].step_count <= saved
    BY <1>a DEF TypeInv, TypeOK, Counted
  <2>2. cmd \in ResumeCommand
    BY <1>s, <2>1, DecisionsAssumption DEF ResumeCommand, ResumeAction, CheckpointId, Checkpoint
  <2>3. v \in Worker
    <3>1. /\ checkpoints[k].step_count \in 0..MaxCheckpoints
          /\ checkpoints[k].consumed \in SUBSET InterruptId
          /\ k \in 0..MaxCheckpoints
      BY <1>s, <2>1 DEF Checkpoint
    <3> HIDE DEF cmd
    <3>2. QED
      BY <2>2, <3>1 DEF Worker
  <2>4. v.step_count <= saved /\ v.pc = "loaded" /\ v.row = k
    BY <2>1 DEF Idle
  <2>5. checkpoints[k].pending # NoInterrupt /\ Become(c, v)
    BY <1>2 DEF Resume
  <2>6. /\ UNCHANGED <<checkpoints, saved, calls, pause_queued, pauses>>
        /\ ledger' \in [InterruptId -> LedgerRow] /\ tool_runs' \in [InterruptId -> Nat]
        /\ awaiting' \in BOOLEAN
    BY <1>2, <1>a DEF Resume, TypeOK
  <2> HIDE DEF v
  <2>7. QED
    BY <2>3, <2>4, <2>5, <2>6, QuietStepKeepsTypes
<1>3. ASSUME NEW c \in Clients, NEW outcome \in {"terminal", "llm_call", "tool_stage"},
             ConsumeApproval(c, outcome)
      PROVE  TypeInv'
  <2> DEFINE w == workers[c]
             i == checkpoints[w.row].pending
             consumed == w.consumed \cup {i}
             done == [w EXCEPT !.pc = "finishing", !.consumed = consumed]
             drives == [w EXCEPT !.pc = "driving", !.consumed = consumed, !.next_step = outcome,
                                 !.approved = IF outcome = "tool_stage" THEN i ELSE NoInterrupt]
  <2>1. w.pc = "loaded" /\ w.row \in 1..saved /\ i # NoInterrupt
    BY <1>3 DEF ConsumeApproval, TypeInv, LoadedIsPending
  <2>2. i \in InterruptId
    BY <1>a, <2>1 DEF TypeOK, Checkpoint
  <2>3. consumed \in SUBSET InterruptId /\ w \in Worker /\ w.step_count <= saved
    BY <1>w, <2>2
  <2>4. w.resume.action \in ResumeAction /\ w.resume.key \in Keys \cup {NoKey}
    BY <2>3 DEF Worker, ResumeCommand
  <2>5. ledger' \in [InterruptId -> LedgerRow]
    BY <1>3, <1>a, <2>2, <2>4 DEF ConsumeApproval, try_consume, TypeOK, LedgerRow
  <2>6. tool_runs' \in [InterruptId -> Nat] /\ awaiting' \in BOOLEAN
    BY <1>3, <1>a DEF ConsumeApproval, TypeOK
  <2>7. UNCHANGED <<calls, pause_queued, pauses>>
    BY <1>3 DEF ConsumeApproval
  <2>8. calls' \in 0..(saved + 1) /\ pause_queued' \in BOOLEAN /\ pauses' \in 0..MaxPauses
    BY <1>a, <1>s, <2>7 DEF TypeOK
  <2>9. CASE outcome = "terminal"
    <3>1. done \in Worker /\ done.step_count <= saved + 1 /\ done.pc = "finishing"
      <4> HIDE DEF w, consumed
      <4>1. done \in Worker /\ done.step_count = w.step_count /\ done.pc = "finishing"
        BY <2>3 DEF Worker
      <4>2. w.step_count \in Nat
        BY <2>3 DEF Worker
      <4>3. QED
        BY <1>s, <2>3, <4>1, <4>2
    <3>2. SaveCheckpoint(NoInterrupt, "tool", w.step_count, consumed) /\ Become(c, done)
      BY <1>3, <2>9 DEF ConsumeApproval
    <3> HIDE DEF done
    <3>3. w.step_count \in 0..MaxCheckpoints /\ w.step_count <= saved + 1
      BY <1>w, <1>s
    <3> HIDE DEF w, consumed
    <3>4. QED
      BY <1>r, <2>3, <2>5, <2>6, <2>8, <3>1, <3>2, <3>3, SaveStepKeepsTypes
  <2>10. CASE outcome # "terminal"
    <3>1. drives \in Worker /\ drives.step_count <= saved /\ drives.pc = "driving"
      BY <2>2, <2>3, <2>10 DEF Worker
    <3>2. Become(c, drives) /\ UNCHANGED <<checkpoints, saved>>
      BY <1>3, <2>10 DEF ConsumeApproval
    <3> HIDE DEF drives
    <3>3. QED
      BY <2>5, <2>6, <2>7, <3>1, <3>2, QuietStepKeepsTypes
  <2>11. QED
    BY <2>9, <2>10
<1>4. ASSUME NEW c \in Clients, RefuseResume(c) \/ Crash(c) \/ RecordResult(c)
      PROVE  TypeInv'
  <2>1. Become(c, Idle) /\ Idle.step_count <= saved /\ Idle.pc = "idle"
    BY <1>4, <1>s DEF RefuseResume, Crash, RecordResult, Idle
  <2>2. UNCHANGED <<checkpoints, saved, calls, pause_queued, pauses, tool_runs, awaiting>>
    BY <1>4 DEF RefuseResume, Crash, RecordResult
  <2>3. ledger' \in [InterruptId -> LedgerRow]
    BY <1>4, <1>a DEF RefuseResume, Crash, RecordResult, record_result, TypeOK, LedgerRow
  <2>4. tool_runs' \in [InterruptId -> Nat] /\ awaiting' \in BOOLEAN
    BY <1>a, <2>2 DEF TypeOK
  <2>5. QED
    BY <2>1, <2>2, <2>3, <2>4, QuietStepKeepsTypes
<1>5. ASSUME NEW c \in Clients, NEW next \in {"llm_call", "tool_stage", "finalize"}, Step(c, next)
      PROVE  TypeInv'
  <2> DEFINE v == [workers[c] EXCEPT !.pc = "driving", !.next_step = next,
                                     !.approved = NoInterrupt,
                                     !.step_count = workers[c].step_count + 1]
             s == workers[c].step_count + 1
  <2>1. SaveCheckpoint(NoInterrupt, "tool", s, workers[c].consumed) /\ Become(c, v)
    BY <1>5 DEF Step
  <2>2. s \in 0..MaxCheckpoints /\ s <= saved + 1
    BY <1>w, <1>s, <2>1 DEF SaveCheckpoint
  <2>3. v \in Worker /\ v.step_count <= saved + 1 /\ v.pc = "driving"
    BY <1>w, <2>2 DEF Worker
  <2>4. /\ ledger' \in [InterruptId -> LedgerRow] /\ tool_runs' \in [InterruptId -> Nat]
        /\ calls' \in 0..(saved + 1) /\ pause_queued' \in BOOLEAN /\ pauses' \in 0..MaxPauses
        /\ awaiting' \in BOOLEAN
    BY <1>5, <1>a, <1>s DEF Step, TypeOK
  <2> HIDE DEF v, s
  <2>5. QED
    BY <1>r, <1>w, <2>1, <2>2, <2>3, <2>4, SaveStepKeepsTypes
<1>6. ASSUME NEW c \in Clients, NEW i \in InterruptId, NEW reason \in InterruptReason,
             NEW s \in 0..MaxCheckpoints, s <= saved + 1, Park(c, i, reason, s),
             calls' \in 0..(saved + 1), tool_runs' = tool_runs
      PROVE  TypeInv'
  <2>1. SaveCheckpoint(i, reason, s, workers[c].consumed) /\ Become(c, Idle)
    BY <1>6 DEF Park
  <2>2. Idle.step_count <= saved + 1 /\ Idle.pc = "idle"
    BY <1>s DEF Idle
  <2>3. /\ ledger' \in [InterruptId -> LedgerRow] /\ tool_runs' \in [InterruptId -> Nat]
        /\ pause_queued' \in BOOLEAN /\ pauses' \in 0..MaxPauses
        /\ awaiting' \in BOOLEAN
    BY <1>6, <1>a DEF Park, TypeOK
  <2>4. QED
    BY <1>6, <1>w, <2>1, <2>2, <2>3, SaveStepKeepsTypes
<1>7. ASSUME NEW c \in Clients, _park_steering_pause(c)
      PROVE  TypeInv'
  <2>1. <<"steering_pause", workers[c].step_count>> \in InterruptId
    BY <1>w DEF InterruptId
  <2>2. Park(c, <<"steering_pause", workers[c].step_count>>, "pause", workers[c].step_count)
        /\ UNCHANGED <<calls, tool_runs>>
    BY <1>7 DEF _park_steering_pause
  <2>3. workers[c].step_count <= saved + 1 /\ calls' \in 0..(saved + 1)
    BY <1>w, <1>s, <2>2
  <2>4. QED
    BY <1>6, <1>r, <1>w, <2>1, <2>2, <2>3
<1>8. ASSUME NEW c \in Clients, NEW reason \in InterruptReason, ParkToolCall(c, reason)
      PROVE  TypeInv'
  <2>1. /\ Park(c, <<"int", calls + 1>>, reason, workers[c].step_count + 1)
        /\ calls' = calls + 1 /\ tool_runs' = tool_runs
        /\ saved < MaxCheckpoints
    BY <1>8 DEF ParkToolCall, Park, SaveCheckpoint
  <2>2. <<"int", calls + 1>> \in InterruptId
    BY <1>s, <2>1 DEF InterruptId
  <2>3. /\ workers[c].step_count + 1 \in 0..MaxCheckpoints
        /\ workers[c].step_count + 1 <= saved + 1
        /\ calls' \in 0..(saved + 1)
    BY <1>w, <1>s, <2>1
  <2>4. QED
    BY <1>6, <2>1, <2>2, <2>3
<1>9. ASSUME NEW c \in Clients, ParkApprovedQuestion(c)
      PROVE  TypeInv'
  <2>1. /\ Park(c, workers[c].approved, "question", workers[c].step_count + 1)
        /\ UNCHANGED <<calls, tool_runs>>
        /\ saved < MaxCheckpoints
    BY <1>9 DEF ParkApprovedQuestion, Park, SaveCheckpoint
  <2>2. workers[c].approved \in InterruptId
    BY <1>9, <1>w DEF ParkApprovedQuestion, TypeInv, ToolDoneIsApproved
  <2>3. /\ workers[c].step_count + 1 \in 0..MaxCheckpoints
        /\ workers[c].step_count + 1 <= saved + 1
        /\ calls' \in 0..(saved + 1)
    BY <1>w, <1>s, <2>1
  <2>4. QED
    BY <1>6, <1>r, <2>1, <2>2, <2>3
<1>10. ASSUME NEW c \in Clients, DrainPause(c)
       PROVE  TypeInv'
  <2> DEFINE v == [workers[c] EXCEPT !.next_step = "park"]
  <2>1. /\ SaveCheckpoint(NoInterrupt, "tool", workers[c].step_count, workers[c].consumed)
        /\ Become(c, v)
    BY <1>10 DEF DrainPause
  <2>2. workers[c].step_count <= saved + 1 /\ workers[c].pc = "driving"
    BY <1>10, <1>w, <1>s DEF DrainPause, At
  <2>3. v \in Worker /\ v.step_count <= saved + 1 /\ v.pc = "driving"
    BY <1>w, <2>2 DEF Worker
  <2>4. /\ ledger' \in [InterruptId -> LedgerRow] /\ tool_runs' \in [InterruptId -> Nat]
        /\ calls' \in 0..(saved + 1) /\ pause_queued' \in BOOLEAN /\ pauses' \in 0..MaxPauses
        /\ awaiting' \in BOOLEAN
    <3>1. pause_queued' = FALSE /\ UNCHANGED <<ledger, calls, pauses, tool_runs, awaiting>>
      BY <1>10 DEF DrainPause
    <3>2. pause_queued' \in BOOLEAN
      BY <3>1
    <3>3. calls' \in 0..(saved + 1)
      BY <1>s, <3>1
    <3>4. QED
      BY <1>a, <3>1, <3>2, <3>3 DEF TypeOK
  <2> HIDE DEF v
  <2>5. QED
    BY <1>r, <1>w, <2>1, <2>2, <2>3, <2>4, SaveStepKeepsTypes
<1>11. ASSUME NEW c \in Clients, RunApprovedCall(c)
       PROVE  TypeInv'
  <2> DEFINE v == [workers[c] EXCEPT !.pc = "tool_done"]
  <2>1. Become(c, v) /\ workers[c].approved # NoInterrupt
    BY <1>11 DEF RunApprovedCall
  <2>2. v \in Worker /\ v.step_count <= saved /\ v.pc = "tool_done" /\ v.approved # NoInterrupt
    BY <1>w, <2>1 DEF Worker
  <2>3. /\ UNCHANGED <<checkpoints, saved, calls, pause_queued, pauses>>
        /\ ledger' \in [InterruptId -> LedgerRow] /\ awaiting' \in BOOLEAN
    BY <1>11, <1>a DEF RunApprovedCall, TypeOK
  <2>4. tool_runs' \in [InterruptId -> Nat]
    BY <1>11, <1>a, <1>w, <2>1 DEF RunApprovedCall, TypeOK
  <2> HIDE DEF v
  <2>5. QED
    BY <2>1, <2>2, <2>3, <2>4, QuietStepKeepsTypes
<1>12. ASSUME NEW c \in Clients, Finalize(c)
       PROVE  TypeInv'
  <2> DEFINE v == [workers[c] EXCEPT !.pc = "finishing"]
  <2>1. /\ SaveCheckpoint(NoInterrupt, "tool", workers[c].step_count + 1, workers[c].consumed)
        /\ Become(c, v)
    BY <1>12 DEF Finalize
  <2>2. workers[c].step_count + 1 \in 0..MaxCheckpoints /\ workers[c].step_count + 1 <= saved + 1
    BY <1>w, <1>s, <2>1 DEF SaveCheckpoint
  <2>3. v \in Worker /\ v.step_count <= saved + 1 /\ v.pc = "finishing"
    BY <1>w, <1>s DEF Worker
  <2>4. /\ ledger' \in [InterruptId -> LedgerRow] /\ tool_runs' \in [InterruptId -> Nat]
        /\ calls' \in 0..(saved + 1) /\ pause_queued' \in BOOLEAN /\ pauses' \in 0..MaxPauses
        /\ awaiting' \in BOOLEAN
    BY <1>12, <1>a, <1>s DEF Finalize, TypeOK
  <2> HIDE DEF v
  <2>5. QED
    BY <1>r, <1>w, <2>1, <2>2, <2>3, <2>4, SaveStepKeepsTypes
<1>13. ASSUME NEW c \in Clients, EndWithoutCheckpoint(c)
       PROVE  TypeInv'
  <2> DEFINE v == [workers[c] EXCEPT !.pc = "finishing"]
  <2>1. Become(c, v)
    BY <1>13 DEF EndWithoutCheckpoint
  <2>2. v \in Worker /\ v.step_count <= saved /\ v.pc = "finishing"
    BY <1>w DEF Worker
  <2>3. /\ UNCHANGED <<checkpoints, saved, calls, pause_queued, pauses>>
        /\ ledger' \in [InterruptId -> LedgerRow] /\ awaiting' \in BOOLEAN
        /\ tool_runs' \in [InterruptId -> Nat]
    BY <1>13, <1>a DEF EndWithoutCheckpoint, TypeOK
  <2> HIDE DEF v
  <2>4. QED
    BY <2>1, <2>2, <2>3, QuietStepKeepsTypes
<1>14. ASSUME NEW c \in Clients, Drive(c)
       PROVE  TypeInv'
  <2>1. CASE \/ LlmCall(c) \/ FinalizeAgain(c)
             \/ \E next \in {"llm_call", "finalize"} : ToolStage(c, next) \/ SaveApprovedResult(c, next)
    BY <2>1, <1>5 DEF LlmCall, FinalizeAgain, ToolStage, SaveApprovedResult
  <2>2. CASE \E reason \in InterruptReason : ParkToolCall(c, reason)
    BY <2>2, <1>8
  <2>3. QED
    BY <1>14, <1>4, <1>7, <1>9, <1>10, <1>11, <1>12, <1>13, <2>1, <2>2 DEF Drive
<1>15. CASE UNCHANGED vars
  BY <1>15 DEF vars, TypeInv, TypeOK, Counted, LoadedIsPending, ToolDoneIsApproved
<1>16. QED
  BY <1>1, <1>2, <1>3, <1>4, <1>14, <1>15 DEF Next

\* The initial state has the types.
LEMMA InitTypeInv == Init => TypeInv
<1> SUFFICES ASSUME Init PROVE TypeInv
  OBVIOUS
<1> USE ConstantTypes, BoundsAssumption
<1>1. PICK c \in Clients :
        workers = [d \in Clients |-> IF d = c
                                     THEN [Idle EXCEPT !.pc = "driving", !.step_count = 1]
                                     ELSE Idle]
  BY DEF Init
<1>2. 1 \in 0..MaxCheckpoints /\ 1 \in 1..MaxCheckpoints
  OBVIOUS
<1>3. workers \in [Clients -> Worker]
  <2>1. [Idle EXCEPT !.pc = "driving", !.step_count = 1] \in Worker
    BY <1>2 DEF Worker
  <2>2. QED
    BY <1>1, <2>1
<1>4. TypeOK
  <2>1. [pending |-> NoInterrupt, reason |-> "tool", step_count |-> 1, consumed |-> {}] \in Checkpoint
    BY <1>2 DEF Checkpoint, InterruptReason
  <2>2. saved \in 1..MaxCheckpoints /\ checkpoints \in [1..saved -> Checkpoint]
    BY <1>2, <2>1 DEF Init
  <2>3. pause_queued \in BOOLEAN /\ awaiting \in BOOLEAN
    BY DEF Init
  <2>4. QED
    BY <1>3, <2>2, <2>3 DEF Init, TypeOK
<1>5. \A d \in Clients : workers[d].step_count <= 1 /\ workers[d].pc \in {"idle", "driving"}
  <2> DEFINE started == [Idle EXCEPT !.pc = "driving", !.step_count = 1]
  <2>1. Idle.step_count = 0 /\ Idle.pc = "idle"
    BY DEF Idle
  <2>2. started.step_count = 1 /\ started.pc = "driving"
    BY DEF Idle
  <2>3. TAKE d \in Clients
  <2>4. workers[d] = started \/ workers[d] = Idle
    BY <1>1
  <2> HIDE DEF started
  <2>5. CASE workers[d] = started
    BY <2>2, <2>5
  <2>6. CASE workers[d] = Idle
    BY <2>1, <2>6
  <2>7. QED
    BY <2>4, <2>5, <2>6
<1>6. Counted
  BY <1>4, <1>5 DEF Init, Counted
<1>7. LoadedIsPending /\ ToolDoneIsApproved
  BY <1>5 DEF LoadedIsPending, ToolDoneIsApproved
<1>8. QED
  BY <1>4, <1>6, <1>7 DEF TypeInv

\* Type correctness of every behaviour of the resume path.
THEOREM TypeCorrect == Spec => []TypeOK
<1>1. Init => TypeInv
  BY InitTypeInv
<1>2. TypeInv /\ [Next]_vars => TypeInv'
  BY TypeStep
<1>3. TypeInv => TypeOK
  BY DEF TypeInv
<1>4. QED
  BY <1>1, <1>2, <1>3, PTL DEF Spec

(***************************************************************************)
(* Safety with a ledger.  OneDriver is not inductive: it needs that while  *)
(* a process drives, no checkpoint is left whose approval could still be   *)
(* consumed (NoneOpenWhileDriving), and that when none drives all open     *)
(* checkpoints wait for the same interrupt (OneOpenInterrupt), so that the *)
(* first consume closes them all.                                          *)
(***************************************************************************)
Open(k) == checkpoints[k].pending # NoInterrupt /\ ~Consumed(checkpoints[k].pending)

NoneOpenWhileDriving == \A c \in Clients : Driving(c) => \A k \in 1..saved : ~Open(k)

OneOpenInterrupt ==
    \A k, l \in 1..saved : Open(k) /\ Open(l) => checkpoints[k].pending = checkpoints[l].pending

\* The call a driver holds an approval for is approved on record and has not run
\* until the driver runs it.
ApprovalOnRecord ==
    \A c \in Clients : Driving(c) /\ workers[c].approved # NoInterrupt =>
        /\ ledger[workers[c].approved].decision \in {"approve", "edit"}
        /\ workers[c].pc = "driving" => tool_runs[workers[c].approved] = 0

SafeInv ==
    /\ OneDriver
    /\ NoneOpenWhileDriving
    /\ OneOpenInterrupt
    /\ ApprovalOnRecord
    /\ RunsOnlyWhatWasApproved
    /\ ToolRunsAtMostOnce

\* Steps that decide nothing, run nothing and open nothing, and let nobody drive who
\* did not drive before.
LEMMA QuietStepIsSafe ==
    ASSUME TypeInv, TypeInv', SafeInv,
           \A i \in InterruptId : ledger'[i].decision = ledger[i].decision,
           tool_runs' = tool_runs,
           \A k \in 1..saved' : k \in 1..saved => checkpoints'[k].pending = checkpoints[k].pending,
           \A k \in 1..saved' : k \notin 1..saved => checkpoints'[k].pending = NoInterrupt,
           \A d \in Clients : Driving(d)' =>
               /\ Driving(d)
               /\ \/ workers'[d].approved = NoInterrupt
                  \/ /\ workers'[d].approved = workers[d].approved
                     /\ workers'[d].pc = "driving" => workers[d].pc = "driving"
    PROVE  SafeInv'
<1>1. OneDriver'
  BY DEF SafeInv, OneDriver
<1>2. \A k \in 1..saved' : Open(k)' => k \in 1..saved /\ Open(k)
  <2>1. TAKE k \in 1..saved'
  <2>2. HAVE Open(k)'
  <2>3. k \in 1..saved /\ checkpoints'[k].pending = checkpoints[k].pending
    BY <2>2 DEF Open
  <2>4. checkpoints[k].pending \in InterruptId \cup {NoInterrupt}
    BY <2>3 DEF TypeInv, TypeOK, Checkpoint
  <2>5. QED
    BY <2>2, <2>3, <2>4 DEF Open, Consumed
<1>3. NoneOpenWhileDriving'
  BY <1>2 DEF SafeInv, NoneOpenWhileDriving
<1>4. OneOpenInterrupt'
  BY <1>2 DEF SafeInv, OneOpenInterrupt
<1>5. ApprovalOnRecord'
  <2>1. SUFFICES ASSUME NEW d \in Clients, Driving(d)', workers'[d].approved # NoInterrupt
                 PROVE  /\ ledger'[workers'[d].approved].decision \in {"approve", "edit"}
                        /\ workers'[d].pc = "driving" => tool_runs'[workers'[d].approved] = 0
    BY DEF ApprovalOnRecord
  <2>2. /\ Driving(d) /\ workers'[d].approved = workers[d].approved
        /\ workers'[d].pc = "driving" => workers[d].pc = "driving"
    BY <2>1
  <2>3. workers[d].approved \in InterruptId
    BY <2>1, <2>2 DEF TypeInv, TypeOK, Worker
  <2>4. QED
    BY <2>1, <2>2, <2>3 DEF SafeInv, ApprovalOnRecord
<1>6. RunsOnlyWhatWasApproved' /\ ToolRunsAtMostOnce'
  BY DEF SafeInv, RunsOnlyWhatWasApproved, ToolRunsAtMostOnce
<1>7. QED
  BY <1>1, <1>3, <1>4, <1>5, <1>6 DEF SafeInv

\* The only driver parks the run and stops driving: what it opens is all that is open.
LEMMA ParkIsSafe ==
    ASSUME TypeInv, TypeInv', SafeInv, NEW c \in Clients, Driving(c),
           NEW i, NEW reason, NEW s, Park(c, i, reason, s), tool_runs' = tool_runs
    PROVE  SafeInv'
<1>1. /\ saved \in Nat /\ saved' = saved + 1 /\ UNCHANGED ledger
      /\ workers' = [workers EXCEPT ![c] = Idle]
      /\ checkpoints' = [k \in 1..(saved + 1) |->
                           IF k = saved + 1
                           THEN [pending |-> i, reason |-> reason, step_count |-> s,
                                 consumed |-> workers[c].consumed]
                           ELSE checkpoints[k]]
  BY BoundsAssumption DEF Park, SaveCheckpoint, Become, TypeInv, TypeOK
<1>2. \A d \in Clients : ~Driving(d)'
  <2>1. TAKE d \in Clients
  <2>2. Idle.pc = "idle"
    BY DEF Idle
  <2>3. CASE d = c
    BY <1>1, <2>2, <2>3 DEF Driving, TypeInv, TypeOK
  <2>4. CASE d # c
    BY <1>1, <2>4 DEF Driving, SafeInv, OneDriver, TypeInv, TypeOK
  <2>5. QED
    BY <2>3, <2>4
<1>3. \A k \in 1..saved' : Open(k)' => k = saved'
  <2>1. TAKE k \in 1..saved'
  <2>2. HAVE Open(k)'
  <2>3. CASE k # saved'
    <3>1. k \in 1..saved /\ checkpoints'[k] = checkpoints[k]
      BY <1>1, <2>3
    <3>2. Open(k)
      BY <1>1, <2>2, <3>1 DEF Open, Consumed
    <3>3. QED
      BY <3>1, <3>2 DEF SafeInv, NoneOpenWhileDriving
  <2>4. QED
    BY <2>3
<1>4. OneOpenInterrupt'
  BY <1>3 DEF OneOpenInterrupt
<1>5. OneDriver' /\ NoneOpenWhileDriving' /\ ApprovalOnRecord'
  BY <1>2 DEF OneDriver, NoneOpenWhileDriving, ApprovalOnRecord
<1>6. RunsOnlyWhatWasApproved' /\ ToolRunsAtMostOnce'
  BY <1>1 DEF SafeInv, RunsOnlyWhatWasApproved, ToolRunsAtMostOnce
<1>7. QED
  BY <1>4, <1>5, <1>6 DEF SafeInv

\* Only "approve" and "edit" lead to the tool stage.
LEMMA OnlyApprovalsRun ==
    ASSUME NEW reason, NEW action \in ResumeAction, "tool_stage" \in ResumeOutcome(reason, action)
    PROVE  action \in {"approve", "edit"}
BY DEF ResumeOutcome, ResumeAction

\* A consume closes the one open interrupt and makes its process the only driver.
LEMMA ConsumeIsSafe ==
    ASSUME UseStore, TypeInv, TypeInv', SafeInv, NEW c \in Clients,
           NEW outcome \in {"terminal", "llm_call", "tool_stage"}, ConsumeApproval(c, outcome)
    PROVE  SafeInv'
<1> DEFINE w == workers[c]
           i == checkpoints[w.row].pending
<1>1. w.pc = "loaded" /\ w.row \in 1..saved /\ i # NoInterrupt /\ w \in Worker /\ i \in InterruptId
  BY DEF ConsumeApproval, TypeInv, LoadedIsPending, TypeOK, Checkpoint
<1>2. ~Consumed(i)
  BY DEF ConsumeApproval, FindExisting
<1>3. Open(w.row)
  BY <1>1, <1>2 DEF Open
<1>4. \A d \in Clients : ~Driving(d)
  BY <1>1, <1>3 DEF SafeInv, NoneOpenWhileDriving
<1>5. /\ ledger'[i].decision = w.resume.action
      /\ \A j \in InterruptId : j # i => ledger'[j] = ledger[j]
      /\ w.resume.action \in ResumeAction
  BY <1>1 DEF ConsumeApproval, try_consume, TypeInv, TypeOK, Worker, ResumeCommand
<1>6. ledger'[i].decision # "none"
  BY <1>5 DEF ResumeAction
<1>7. tool_runs' = tool_runs /\ tool_runs[i] = 0
  <2>1. tool_runs[i] \in Nat
    BY <1>1 DEF TypeInv, TypeOK
  <2>2. ~(tool_runs[i] > 0)
    BY <1>1, <1>2 DEF SafeInv, RunsOnlyWhatWasApproved, Consumed
  <2>3. QED
    BY <2>1, <2>2 DEF ConsumeApproval
<1>8. \A k \in 1..saved' : ~Open(k)'
  <2>1. TAKE k \in 1..saved'
  <2>2. checkpoints'[k].pending = NoInterrupt \/ (k \in 1..saved /\ checkpoints'[k] = checkpoints[k])
    BY <1>1 DEF ConsumeApproval, SaveCheckpoint, TypeInv, TypeOK
  <2>3. CASE k \in 1..saved /\ checkpoints'[k] = checkpoints[k]
    <3>1. CASE checkpoints[k].pending = i
      BY <1>6, <2>3, <3>1 DEF Open, Consumed
    <3>2. CASE checkpoints[k].pending # i
      <4>1. ~Open(k)
        BY <1>1, <1>3, <2>3, <3>2 DEF SafeInv, OneOpenInterrupt
      <4>2. checkpoints[k].pending \in InterruptId \cup {NoInterrupt}
        BY <2>3 DEF TypeInv, TypeOK, Checkpoint
      <4>3. QED
        BY <1>5, <2>3, <3>2, <4>1, <4>2 DEF Open, Consumed
    <3>3. QED
      BY <3>1, <3>2
  <2>4. QED
    BY <2>2, <2>3 DEF Open
<1>9. \A d \in Clients : d # c => ~Driving(d)'
  BY <1>4 DEF ConsumeApproval, Become, Driving, TypeInv, TypeOK
<1>10. OneDriver' /\ NoneOpenWhileDriving' /\ OneOpenInterrupt'
  BY <1>8, <1>9 DEF OneDriver, NoneOpenWhileDriving, OneOpenInterrupt
<1>11. ApprovalOnRecord'
  <2>1. SUFFICES ASSUME Driving(c)', workers'[c].approved # NoInterrupt
                 PROVE  /\ ledger'[workers'[c].approved].decision \in {"approve", "edit"}
                        /\ tool_runs'[workers'[c].approved] = 0
    BY <1>9 DEF ApprovalOnRecord
  <2>2. outcome # "terminal"
    <3>1. SUFFICES ASSUME outcome = "terminal" PROVE FALSE
      OBVIOUS
    <3>2. workers' = [workers EXCEPT ![c] = [w EXCEPT !.pc = "finishing", !.consumed = w.consumed \cup {i}]]
      BY <3>1 DEF ConsumeApproval, Become
    <3>3. workers'[c].pc = "finishing"
      BY <1>1, <3>2 DEF TypeInv, TypeOK, Worker
    <3>4. QED
      BY <2>1, <3>3 DEF Driving
  <2>3. outcome = "tool_stage" /\ workers'[c].approved = i
    <3> DEFINE approved == IF outcome = "tool_stage" THEN i ELSE NoInterrupt
    <3>1. workers' = [workers EXCEPT ![c] = [w EXCEPT !.pc = "driving",
                                                      !.consumed = w.consumed \cup {i},
                                                      !.next_step = outcome,
                                                      !.approved = approved]]
      BY <2>2 DEF ConsumeApproval, Become
    <3> HIDE DEF approved
    <3>2. workers'[c].approved = approved
      BY <1>1, <3>1 DEF TypeInv, TypeOK, Worker
    <3>3. QED
      BY <2>1, <3>2 DEF approved
  <2>4. w.resume.action \in {"approve", "edit"}
    BY <1>5, <2>3, OnlyApprovalsRun DEF ConsumeApproval
  <2>5. QED
    BY <1>5, <1>7, <2>3, <2>4
<1>12. RunsOnlyWhatWasApproved' /\ ToolRunsAtMostOnce'
  BY <1>5, <1>7 DEF SafeInv, RunsOnlyWhatWasApproved, ToolRunsAtMostOnce
<1>13. QED
  BY <1>10, <1>11, <1>12 DEF SafeInv

\* Running the approved call is its first run, and there is no second driver to repeat it.
LEMMA RunIsSafe ==
    ASSUME TypeInv, TypeInv', SafeInv, NEW c \in Clients, RunApprovedCall(c)
    PROVE  SafeInv'
<1> DEFINE w == workers[c]
           i == w.approved
<1>1. Driving(c) /\ w.pc = "driving" /\ i # NoInterrupt /\ w \in Worker /\ i \in InterruptId
  BY DEF RunApprovedCall, At, Driving, TypeInv, TypeOK, Worker
<1>2. ledger[i].decision \in {"approve", "edit"} /\ tool_runs[i] = 0
  BY <1>1 DEF SafeInv, ApprovalOnRecord
<1>3. UNCHANGED <<ledger, checkpoints, saved>> /\ tool_runs' = [tool_runs EXCEPT ![i] = @ + 1]
  BY DEF RunApprovedCall
<1>4. workers'[c].pc = "tool_done" /\ workers'[c].approved = i
      /\ \A d \in Clients : d # c => workers'[d] = workers[d]
  BY <1>1 DEF RunApprovedCall, Become, TypeInv, TypeOK, Worker
<1>5. \A d \in Clients : Driving(d)' => d = c
  BY <1>1, <1>4 DEF SafeInv, OneDriver, Driving
<1>6. OneDriver' /\ ApprovalOnRecord'
  BY <1>2, <1>3, <1>4, <1>5 DEF OneDriver, ApprovalOnRecord
<1>7. NoneOpenWhileDriving' /\ OneOpenInterrupt'
  BY <1>1, <1>3, <1>5 DEF SafeInv, NoneOpenWhileDriving, OneOpenInterrupt, Open, Consumed
<1>8. RunsOnlyWhatWasApproved' /\ ToolRunsAtMostOnce'
  BY <1>1, <1>2, <1>3 DEF SafeInv, RunsOnlyWhatWasApproved, ToolRunsAtMostOnce, TypeInv, TypeOK
<1>9. QED
  BY <1>6, <1>7, <1>8 DEF SafeInv

\* Every action preserves the safety invariant when the ledger is in use.
LEMMA SafeStep ==
    ASSUME UseStore, TypeInv, SafeInv, [Next]_vars
    PROVE  SafeInv'
<1>t. TypeInv'
  BY TypeStep
<1>w. ASSUME NEW c \in Clients, NEW v, Become(c, v)
      PROVE  workers'[c] = v /\ \A d \in Clients : d # c => workers'[d] = workers[d]
  BY <1>w DEF Become, TypeInv, TypeOK
<1>n. ASSUME NEW r, NEW n, NEW cs, SaveCheckpoint(NoInterrupt, r, n, cs)
      PROVE  /\ \A k \in 1..saved' : k \in 1..saved => checkpoints'[k].pending = checkpoints[k].pending
             /\ \A k \in 1..saved' : k \notin 1..saved => checkpoints'[k].pending = NoInterrupt
  BY <1>n DEF SaveCheckpoint, TypeInv, TypeOK
<1>i. Idle.pc = "idle"
  BY DEF Idle
<1>q. ASSUME NEW c \in Clients, UNCHANGED <<checkpoints, saved, tool_runs>>,
             \A i \in InterruptId : ledger'[i].decision = ledger[i].decision,
             workers'[c].pc \notin {"driving", "tool_done"},
             \A d \in Clients : d # c => workers'[d] = workers[d]
      PROVE  SafeInv'
  <2>1. \A d \in Clients : Driving(d)' => Driving(d) /\ workers'[d] = workers[d]
    BY <1>q DEF Driving
  <2>2. QED
    BY <1>q, <1>t, <2>1, QuietStepIsSafe
<1>1. CASE UNCHANGED vars \/ RequestPause
  BY <1>1, <1>t, QuietStepIsSafe DEF vars, RequestPause, Driving
<1>2. ASSUME NEW c \in Clients, NEW k, NEW cmd, NEW expected, Resume(c, k, cmd, expected)
      PROVE  SafeInv'
  <2> DEFINE v == [Idle EXCEPT !.pc = "loaded", !.resume = cmd, !.row = k,
                               !.step_count = checkpoints[k].step_count,
                               !.consumed = checkpoints[k].consumed]
  <2>1. v.pc = "loaded"
    BY DEF Idle
  <2>2. Become(c, v) /\ UNCHANGED <<checkpoints, saved, tool_runs, ledger>>
    BY <1>2 DEF Resume
  <2> HIDE DEF v
  <2>3. QED
    BY <1>q, <1>w, <2>1, <2>2
<1>3. ASSUME NEW c \in Clients, RefuseResume(c) \/ Crash(c) \/ RecordResult(c)
      PROVE  SafeInv'
  <2>1. Become(c, Idle) /\ UNCHANGED <<checkpoints, saved, tool_runs>>
    BY <1>3 DEF RefuseResume, Crash, RecordResult
  <2>2. \A i \in InterruptId : ledger'[i].decision = ledger[i].decision
    <3>1. CASE ledger' = ledger
      BY <3>1
    <3>2. CASE record_result(workers[c].resume.token, c)
      <4> DEFINE token == workers[c].resume.token
      <4>1. ledger' = ledger \/ (token \in InterruptId /\ ledger' = [ledger EXCEPT ![token].result = c])
        BY <3>2 DEF record_result
      <4> HIDE DEF token
      <4>2. ASSUME NEW i \in InterruptId
            PROVE  ledger'[i].decision = ledger[i].decision
        <5>1. ledger[i] \in LedgerRow /\ ledger \in [InterruptId -> LedgerRow]
          BY DEF TypeInv, TypeOK
        <5>2. ledger'[i] = ledger[i] \/ ledger'[i] = [ledger[i] EXCEPT !.result = c]
          BY <4>1, <5>1
        <5>3. QED
          BY <5>1, <5>2 DEF LedgerRow
      <4>3. QED
        BY <4>2
    <3>3. QED
      BY <1>3, <3>1, <3>2 DEF RefuseResume, Crash, RecordResult
  <2>3. QED
    BY <1>q, <1>w, <1>i, <2>1, <2>2
<1>4. ASSUME NEW c \in Clients, EndWithoutCheckpoint(c)
      PROVE  SafeInv'
  <2>1. workers'[c].pc = "finishing" /\ \A d \in Clients : d # c => workers'[d] = workers[d]
    BY <1>4 DEF EndWithoutCheckpoint, Become, TypeInv, TypeOK, Worker
  <2>2. UNCHANGED <<checkpoints, saved, tool_runs, ledger>>
    BY <1>4 DEF EndWithoutCheckpoint
  <2>3. QED
    BY <1>q, <2>1, <2>2
<1>5. ASSUME NEW c \in Clients, Driving(c), NEW next, Step(c, next)
      PROVE  SafeInv'
  <2>1. /\ SaveCheckpoint(NoInterrupt, "tool", workers[c].step_count + 1, workers[c].consumed)
        /\ UNCHANGED <<tool_runs, ledger>>
    BY <1>5 DEF Step
  <2>2. workers'[c].approved = NoInterrupt /\ \A d \in Clients : d # c => workers'[d] = workers[d]
    BY <1>5 DEF Step, Become, TypeInv, TypeOK, Worker
  <2>3. \A d \in Clients : Driving(d)' => Driving(d) /\ (d = c \/ workers'[d] = workers[d])
    BY <1>5, <2>2 DEF Driving
  <2>4. QED
    BY <1>n, <1>t, <2>1, <2>2, <2>3, QuietStepIsSafe
<1>6. ASSUME NEW c \in Clients, DrainPause(c) \/ Finalize(c)
      PROVE  SafeInv'
  <2>1. /\ \A k \in 1..saved' : k \in 1..saved => checkpoints'[k].pending = checkpoints[k].pending
        /\ \A k \in 1..saved' : k \notin 1..saved => checkpoints'[k].pending = NoInterrupt
        /\ UNCHANGED <<tool_runs, ledger>>
    BY <1>6, <1>n DEF DrainPause, Finalize
  <2>2. Driving(c) /\ workers[c].pc = "driving" /\ workers'[c].approved = workers[c].approved
        /\ \A d \in Clients : d # c => workers'[d] = workers[d]
    BY <1>6 DEF DrainPause, Finalize, At, Driving, Become, TypeInv, TypeOK, Worker
  <2>3. \A d \in Clients : Driving(d)' => Driving(d) /\ (d = c \/ workers'[d] = workers[d])
    BY <2>2 DEF Driving
  <2>4. QED
    BY <1>t, <2>1, <2>2, <2>3, QuietStepIsSafe
<1>7. ASSUME NEW c \in Clients, Drive(c)
      PROVE  SafeInv'
  <2>1. CASE \/ LlmCall(c) \/ FinalizeAgain(c)
             \/ \E next \in {"llm_call", "finalize"} : ToolStage(c, next) \/ SaveApprovedResult(c, next)
    BY <2>1, <1>5 DEF LlmCall, FinalizeAgain, ToolStage, SaveApprovedResult, At, Driving
  <2>2. CASE \E reason \in InterruptReason : ParkToolCall(c, reason)
    <3>1. PICK reason \in InterruptReason : ParkToolCall(c, reason)
      BY <2>2
    <3>2. /\ Driving(c) /\ tool_runs' = tool_runs
          /\ Park(c, <<"int", calls + 1>>, reason, workers[c].step_count + 1)
      BY <3>1 DEF ParkToolCall, At, Driving
    <3>3. QED
      BY <1>t, <3>2, ParkIsSafe
  <2>3. CASE _park_steering_pause(c)
    <3>1. /\ Driving(c) /\ tool_runs' = tool_runs
          /\ Park(c, <<"steering_pause", workers[c].step_count>>, "pause", workers[c].step_count)
      BY <2>3 DEF _park_steering_pause, At, Driving
    <3>2. QED
      BY <1>t, <3>1, ParkIsSafe
  <2>4. CASE ParkApprovedQuestion(c)
    <3>1. /\ Driving(c) /\ tool_runs' = tool_runs
          /\ Park(c, workers[c].approved, "question", workers[c].step_count + 1)
      BY <2>4 DEF ParkApprovedQuestion, Driving
    <3>2. QED
      BY <1>t, <3>1, ParkIsSafe
  <2>5. CASE RunApprovedCall(c)
    BY <1>t, <2>5, RunIsSafe
  <2>6. QED
    BY <1>3, <1>4, <1>6, <1>7, <2>1, <2>2, <2>3, <2>4, <2>5 DEF Drive
<1>8. ASSUME NEW c \in Clients, NEW outcome \in {"terminal", "llm_call", "tool_stage"},
             ConsumeApproval(c, outcome)
      PROVE  SafeInv'
  BY <1>8, <1>t, ConsumeIsSafe
<1>9. QED
  BY <1>1, <1>2, <1>3, <1>7, <1>8 DEF Next

\* With an approval ledger, however many processes resume a parked run, however often
\* they repeat themselves and wherever they crash, one of them at a time drives it
\* (try_consume before any tool executes) and the approved call runs at most once, and
\* only if the decision on record is to run it.
THEOREM ApprovalSafety ==
    ASSUME UseStore
    PROVE  Spec => []ApprovalIsExact
<1>1. Init => TypeInv
  BY InitTypeInv
<1>2. Init => SafeInv
  <2> SUFFICES ASSUME Init PROVE SafeInv
    OBVIOUS
  <2>1. PICK c \in Clients :
          workers = [d \in Clients |-> IF d = c
                                       THEN [Idle EXCEPT !.pc = "driving", !.step_count = 1]
                                       ELSE Idle]
    BY DEF Init
  <2>2. Idle.pc = "idle" /\ Idle.approved = NoInterrupt
        /\ [Idle EXCEPT !.pc = "driving", !.step_count = 1].approved = NoInterrupt
    BY DEF Idle
  <2>3. \A d \in Clients : (Driving(d) => d = c) /\ workers[d].approved = NoInterrupt
    BY <2>1, <2>2 DEF Driving
  <2>4. OneDriver /\ ApprovalOnRecord
    BY <2>3 DEF OneDriver, ApprovalOnRecord
  <2>5. \A k \in 1..saved : ~Open(k)
    BY DEF Init, Open
  <2>6. NoneOpenWhileDriving /\ OneOpenInterrupt
    BY <2>5 DEF NoneOpenWhileDriving, OneOpenInterrupt
  <2>7. RunsOnlyWhatWasApproved /\ ToolRunsAtMostOnce
    BY DEF Init, RunsOnlyWhatWasApproved, ToolRunsAtMostOnce
  <2>8. QED
    BY <2>4, <2>6, <2>7 DEF SafeInv
<1>3. TypeInv /\ SafeInv /\ [Next]_vars => TypeInv' /\ SafeInv'
  BY TypeStep, SafeStep
<1>4. SafeInv => ApprovalIsExact
  BY DEF SafeInv, ApprovalIsExact
<1>5. QED
  BY <1>1, <1>2, <1>3, <1>4, PTL DEF Spec

(***************************************************************************)
(* Who wrote what in the ledger.  A process past the ledger that resumed   *)
(* by naming an interrupt names one it consumed itself: the token resolved *)
(* to the checkpoint pending on it.  That is why record_result, which only *)
(* looks the interrupt up, never overwrites another process's result.      *)
(***************************************************************************)
TokenNamesItsCheckpoint ==
    \A c \in Clients : workers[c].pc = "loaded" /\ workers[c].resume.token \in InterruptId =>
        checkpoints[workers[c].row].pending = workers[c].resume.token

TokenIsOwned ==
    UseStore => \A c \in Clients :
        /\ workers[c].pc \in {"driving", "tool_done", "finishing"}
        /\ workers[c].resume.token \in InterruptId
        => /\ Consumed(workers[c].resume.token)
           /\ ledger[workers[c].resume.token].consumed_by = c

ResultInv == TokenNamesItsCheckpoint /\ TokenIsOwned /\ ResultComesFromTheWinner

\* A resume loads the checkpoint its interrupt id is pending on; an id of a checkpoint is
\* no interrupt id.
LEMMA ResolvedToken ==
    ASSUME NEW token \in InterruptId, NEW k, ResolvesTo(token, k)
    PROVE  checkpoints[k].pending = token
BY DEF ResolvesTo, InterruptId

\* A process keeps its token while it drives, the checkpoints it could have loaded stay as
\* they are, and the ledger is not written: nothing changes hands.
LEMMA QuietStepKeepsResults ==
    ASSUME TypeInv, ResultInv, NEW c \in Clients, NEW w, Become(c, w), ledger' = ledger,
           \A k \in 1..saved : checkpoints'[k] = checkpoints[k],
           w.pc = "loaded" /\ w.resume.token \in InterruptId =>
               checkpoints'[w.row].pending = w.resume.token,
           w.pc \in {"driving", "tool_done", "finishing"} =>
               \/ w.resume.token \notin InterruptId
               \/ /\ workers[c].pc \in {"driving", "tool_done", "finishing"}
                  /\ w.resume = workers[c].resume
    PROVE  ResultInv'
<1>1. workers'[c] = w /\ \A d \in Clients : d # c => workers'[d] = workers[d]
  BY DEF Become, TypeInv, TypeOK
<1>2. TokenNamesItsCheckpoint'
  <2> SUFFICES ASSUME NEW d \in Clients, workers'[d].pc = "loaded",
                      workers'[d].resume.token \in InterruptId
               PROVE  checkpoints'[workers'[d].row].pending = workers'[d].resume.token
    BY DEF TokenNamesItsCheckpoint
  <2>1. CASE d = c
    BY <1>1, <2>1
  <2>2. CASE d # c
    <3>1. workers'[d] = workers[d]
      BY <1>1, <2>2
    <3>2. workers[d].row \in 1..saved
      BY <3>1 DEF TypeInv, LoadedIsPending
    <3>3. QED
      BY <3>1, <3>2 DEF ResultInv, TokenNamesItsCheckpoint
  <2>3. QED
    BY <2>1, <2>2
<1>3. TokenIsOwned'
  <2> SUFFICES ASSUME UseStore, NEW d \in Clients,
                      workers'[d].pc \in {"driving", "tool_done", "finishing"},
                      workers'[d].resume.token \in InterruptId
               PROVE  /\ ledger'[workers'[d].resume.token].decision # "none"
                      /\ ledger'[workers'[d].resume.token].consumed_by = d
    BY DEF TokenIsOwned, Consumed
  <2>1. /\ workers[d].pc \in {"driving", "tool_done", "finishing"}
        /\ workers'[d].resume = workers[d].resume
    BY <1>1
  <2>2. QED
    BY <2>1 DEF ResultInv, TokenIsOwned, Consumed
<1>4. ResultComesFromTheWinner'
  BY DEF ResultInv, ResultComesFromTheWinner
<1>5. QED
  BY <1>2, <1>3, <1>4 DEF ResultInv

\* The process that consumes an approval writes a row nobody has written, and its token, if
\* it is an interrupt id, is that row's.
LEMMA ConsumeKeepsResults ==
    ASSUME TypeInv, ResultInv, NEW c \in Clients,
           NEW outcome \in {"terminal", "llm_call", "tool_stage"}, ConsumeApproval(c, outcome)
    PROVE  ResultInv'
<1> DEFINE w == workers[c]
           i == checkpoints[w.row].pending
<1>1. w.pc = "loaded" /\ w.row \in 1..saved /\ w \in Worker /\ i \in InterruptId
  BY DEF ConsumeApproval, TypeInv, LoadedIsPending, TypeOK, Checkpoint
<1>2. w.resume.token \in InterruptId => w.resume.token = i
  BY <1>1 DEF ResultInv, TokenNamesItsCheckpoint
<1>3. /\ workers'[c].pc \in {"finishing", "driving"} /\ workers'[c].resume = w.resume
      /\ \A d \in Clients : d # c => workers'[d] = workers[d]
  <2> DEFINE consumed == w.consumed \cup {i}
             approved == IF outcome = "tool_stage" THEN i ELSE NoInterrupt
             done == [w EXCEPT !.pc = "finishing", !.consumed = consumed]
             drives == [w EXCEPT !.pc = "driving", !.consumed = consumed, !.next_step = outcome,
                                 !.approved = approved]
  <2>1. Become(c, done) \/ Become(c, drives)
    BY DEF ConsumeApproval
  <2>2. PICK v : Become(c, v) /\ v.pc \in {"finishing", "driving"} /\ v.resume = w.resume
    <3>1. /\ done.pc = "finishing" /\ done.resume = w.resume
          /\ drives.pc = "driving" /\ drives.resume = w.resume
      <4> HIDE DEF consumed, approved, w
      <4>1. QED
        BY <1>1 DEF Worker
    <3> HIDE DEF done, drives
    <3>2. QED
      BY <2>1, <3>1
  <2>3. workers'[c] = v /\ \A d \in Clients : d # c => workers'[d] = workers[d]
    BY <2>2 DEF Become, TypeInv, TypeOK
  <2>4. QED
    BY <2>2, <2>3
<1>4. \A k \in 1..saved : checkpoints'[k] = checkpoints[k]
  BY <1>1 DEF ConsumeApproval, SaveCheckpoint, TypeInv, TypeOK
<1>5. UseStore => /\ ~Consumed(i)
                  /\ ledger'[i] = [decision |-> w.resume.action, key |-> w.resume.key,
                                   result |-> Nobody, consumed_by |-> c]
                  /\ w.resume.action # "none"
                  /\ \A j \in InterruptId : j # i => ledger'[j] = ledger[j]
  <2>1. w.resume.action # "none"
    BY <1>1 DEF Worker, ResumeCommand, ResumeAction
  <2>2. QED
    BY <1>1, <2>1 DEF ConsumeApproval, try_consume, FindExisting, TypeInv, TypeOK
<1>6. ~UseStore => ledger' = ledger
  BY DEF ConsumeApproval, try_consume
<1> HIDE DEF i
<1>7. TokenNamesItsCheckpoint'
  <2> SUFFICES ASSUME NEW d \in Clients, workers'[d].pc = "loaded",
                      workers'[d].resume.token \in InterruptId
               PROVE  checkpoints'[workers'[d].row].pending = workers'[d].resume.token
    BY DEF TokenNamesItsCheckpoint
  <2>1. d # c /\ workers'[d] = workers[d]
    BY <1>3
  <2>2. workers[d].row \in 1..saved
    BY <2>1 DEF TypeInv, LoadedIsPending
  <2>3. QED
    BY <1>4, <2>1, <2>2 DEF ResultInv, TokenNamesItsCheckpoint
<1>8. TokenIsOwned'
  <2> SUFFICES ASSUME UseStore, NEW d \in Clients,
                      workers'[d].pc \in {"driving", "tool_done", "finishing"},
                      workers'[d].resume.token \in InterruptId
               PROVE  /\ ledger'[workers'[d].resume.token].decision # "none"
                      /\ ledger'[workers'[d].resume.token].consumed_by = d
    BY DEF TokenIsOwned, Consumed
  <2>1. CASE d = c
    BY <1>2, <1>3, <1>5, <2>1
  <2>2. CASE d # c
    <3>1. workers'[d] = workers[d]
      BY <1>3, <2>2
    <3>2. Consumed(workers[d].resume.token) /\ ledger[workers[d].resume.token].consumed_by = d
      BY <3>1 DEF ResultInv, TokenIsOwned
    <3>3. QED
      BY <1>5, <3>1, <3>2 DEF Consumed
  <2>3. QED
    BY <2>1, <2>2
<1>9. ResultComesFromTheWinner'
  <2> SUFFICES ASSUME NEW j \in InterruptId
               PROVE  ledger'[j].result \in {Nobody, ledger'[j].consumed_by}
    BY DEF ResultComesFromTheWinner
  <2>1. ledger[j].result \in {Nobody, ledger[j].consumed_by}
    BY DEF ResultInv, ResultComesFromTheWinner
  <2>2. QED
    BY <1>5, <1>6, <2>1, FlagsAssumption
<1>10. QED
  BY <1>7, <1>8, <1>9 DEF ResultInv

\* record_result fills in the result of a row and touches nothing else of it.
LEMMA RecordFields ==
    ASSUME TypeInv, NEW c \in Clients, NEW token, record_result(token, c), NEW i \in InterruptId
    PROVE  /\ ledger'[i].decision = ledger[i].decision
           /\ ledger'[i].key = ledger[i].key
           /\ ledger'[i].consumed_by = ledger[i].consumed_by
           /\ \/ ledger'[i].result = ledger[i].result
              \/ UseStore /\ i = token /\ ledger'[i].result = c
<1>1. ledger[i] \in LedgerRow /\ ledger \in [InterruptId -> LedgerRow]
  BY DEF TypeInv, TypeOK
<1>2. \/ ledger'[i] = ledger[i]
      \/ UseStore /\ i = token /\ ledger'[i] = [ledger[i] EXCEPT !.result = c]
  BY <1>1 DEF record_result
<1>3. QED
  BY <1>1, <1>2 DEF LedgerRow

\* The process that reports a result owns the row it reports on.
LEMMA RecordKeepsResults ==
    ASSUME TypeInv, ResultInv, NEW c \in Clients, RecordResult(c)
    PROVE  ResultInv'
<1> DEFINE token == workers[c].resume.token
<1>1. workers'[c] = Idle /\ \A d \in Clients : d # c => workers'[d] = workers[d]
  BY DEF RecordResult, Become, TypeInv, TypeOK
<1>2. Idle.pc = "idle" /\ UNCHANGED checkpoints /\ workers[c].pc = "finishing"
  BY DEF Idle, RecordResult
<1>3. \A i \in InterruptId :
         /\ ledger'[i].decision = ledger[i].decision
         /\ ledger'[i].consumed_by = ledger[i].consumed_by
         /\ \/ ledger'[i].result = ledger[i].result
            \/ UseStore /\ i = token /\ ledger'[i].result = c
  BY RecordFields DEF RecordResult
<1>4. TokenNamesItsCheckpoint'
  BY <1>1, <1>2 DEF ResultInv, TokenNamesItsCheckpoint
<1>5. TokenIsOwned'
  BY <1>1, <1>2, <1>3 DEF ResultInv, TokenIsOwned, Consumed
<1>6. UseStore /\ token \in InterruptId => ledger[token].consumed_by = c
  BY <1>2 DEF ResultInv, TokenIsOwned
<1>7. ResultComesFromTheWinner'
  BY <1>3, <1>6 DEF ResultInv, ResultComesFromTheWinner
<1>8. QED
  BY <1>4, <1>5, <1>7 DEF ResultInv

\* Every action keeps the ledger's authorship.
LEMMA ResultStep ==
    ASSUME TypeInv, ResultInv, [Next]_vars
    PROVE  ResultInv'
<1>i. Idle.pc = "idle" /\ Idle.resume.token = NoInterrupt
  BY DEF Idle
<1>s. ASSUME NEW p, NEW r, NEW n, NEW cs, SaveCheckpoint(p, r, n, cs)
      PROVE  \A k \in 1..saved : checkpoints'[k] = checkpoints[k]
  BY <1>s DEF SaveCheckpoint, TypeInv, TypeOK
<1>1. CASE UNCHANGED vars \/ RequestPause
  BY <1>1 DEF vars, RequestPause, ResultInv, TokenNamesItsCheckpoint, TokenIsOwned,
              ResultComesFromTheWinner, Consumed
<1>2. ASSUME NEW c \in Clients, NEW k \in 1..saved, NEW cmd, NEW expected,
             Resume(c, k, cmd, expected)
      PROVE  ResultInv'
  <2> DEFINE v == [Idle EXCEPT !.pc = "loaded", !.resume = cmd, !.row = k,
                               !.step_count = checkpoints[k].step_count,
                               !.consumed = checkpoints[k].consumed]
  <2>1. v.pc = "loaded" /\ v.resume = cmd /\ v.row = k
    BY DEF Idle
  <2>2. Become(c, v) /\ UNCHANGED <<checkpoints, saved, ledger>> /\ ResolvesTo(cmd.token, k)
    BY <1>2 DEF Resume
  <2> HIDE DEF v
  <2>3. cmd.token \in InterruptId => checkpoints[k].pending = cmd.token
    BY <2>2, ResolvedToken
  <2>4. QED
    BY <2>1, <2>2, <2>3, QuietStepKeepsResults
<1>3. ASSUME NEW c \in Clients, RefuseResume(c) \/ Crash(c)
      PROVE  ResultInv'
  <2>1. Become(c, Idle) /\ UNCHANGED <<checkpoints, saved, ledger>>
    BY <1>3 DEF RefuseResume, Crash
  <2>2. QED
    BY <1>i, <2>1, QuietStepKeepsResults
<1>4. ASSUME NEW c \in Clients, workers[c].pc \in {"driving", "tool_done"}, NEW v, Become(c, v),
             v.pc # "loaded", v.resume = workers[c].resume, ledger' = ledger,
             \A k \in 1..saved : checkpoints'[k] = checkpoints[k]
      PROVE  ResultInv'
  BY <1>4, QuietStepKeepsResults
<1>5. ASSUME NEW c \in Clients, Driving(c), NEW next, Step(c, next)
      PROVE  ResultInv'
  <2> DEFINE v == [workers[c] EXCEPT !.pc = "driving", !.next_step = next,
                                     !.approved = NoInterrupt,
                                     !.step_count = workers[c].step_count + 1]
  <2>1. Become(c, v) /\ ledger' = ledger /\ \A k \in 1..saved : checkpoints'[k] = checkpoints[k]
    BY <1>5, <1>s DEF Step
  <2>2. v.pc = "driving" /\ v.resume = workers[c].resume
    BY DEF TypeInv, TypeOK, Worker
  <2> HIDE DEF v
  <2>3. QED
    BY <1>4, <1>5, <2>1, <2>2 DEF Driving
<1>6. ASSUME NEW c \in Clients,
             DrainPause(c) \/ Finalize(c) \/ RunApprovedCall(c) \/ EndWithoutCheckpoint(c)
      PROVE  ResultInv'
  <2>1. ledger' = ledger /\ \A k \in 1..saved : checkpoints'[k] = checkpoints[k]
    BY <1>6, <1>s DEF DrainPause, Finalize, RunApprovedCall, EndWithoutCheckpoint
  <2>2. /\ Become(c, workers'[c]) /\ workers'[c].pc \in {"driving", "tool_done", "finishing"}
        /\ workers[c].pc \in {"driving", "tool_done"} /\ workers'[c].resume = workers[c].resume
    BY <1>6 DEF DrainPause, Finalize, RunApprovedCall, EndWithoutCheckpoint, Become, At,
                TypeInv, TypeOK, Worker
  <2>3. QED
    BY <1>4, <2>1, <2>2
<1>7. ASSUME NEW c \in Clients, NEW i, NEW reason, NEW s, Park(c, i, reason, s)
      PROVE  ResultInv'
  <2>1. Become(c, Idle) /\ ledger' = ledger /\ \A k \in 1..saved : checkpoints'[k] = checkpoints[k]
    BY <1>7, <1>s DEF Park
  <2>2. QED
    BY <1>i, <2>1, QuietStepKeepsResults
<1>8. ASSUME NEW c \in Clients, Drive(c)
      PROVE  ResultInv'
  <2>1. CASE \/ LlmCall(c) \/ FinalizeAgain(c)
             \/ \E next \in {"llm_call", "finalize"} : ToolStage(c, next) \/ SaveApprovedResult(c, next)
    BY <2>1, <1>5 DEF LlmCall, FinalizeAgain, ToolStage, SaveApprovedResult, At, Driving
  <2>2. CASE \/ _park_steering_pause(c) \/ ParkApprovedQuestion(c)
             \/ \E reason \in InterruptReason : ParkToolCall(c, reason)
    BY <2>2, <1>7 DEF _park_steering_pause, ParkApprovedQuestion, ParkToolCall
  <2>3. CASE RecordResult(c)
    BY <2>3, RecordKeepsResults
  <2>4. QED
    BY <1>6, <1>8, <2>1, <2>2, <2>3 DEF Drive
<1>9. ASSUME NEW c \in Clients, NEW outcome \in {"terminal", "llm_call", "tool_stage"},
             ConsumeApproval(c, outcome)
      PROVE  ResultInv'
  BY <1>9, ConsumeKeepsResults
<1>10. QED
  BY <1>1, <1>2, <1>3, <1>8, <1>9 DEF Next

\* The result on record for an approval comes from the process that consumed it, with a
\* ledger or without: record_result looks a row up by the command's interrupt id alone, and
\* a loser of the race never gets to call it.
THEOREM ApprovalResults == Spec => []ResultComesFromTheWinner
<1>1. Init => TypeInv
  BY InitTypeInv
<1>2. Init => ResultInv
  <2> SUFFICES ASSUME Init PROVE ResultInv
    OBVIOUS
  <2>1. PICK c \in Clients :
          workers = [d \in Clients |-> IF d = c
                                       THEN [Idle EXCEPT !.pc = "driving", !.step_count = 1]
                                       ELSE Idle]
    BY DEF Init
  <2>2. /\ Idle.pc = "idle" /\ Idle.resume.token = NoInterrupt
        /\ [Idle EXCEPT !.pc = "driving", !.step_count = 1].pc = "driving"
        /\ [Idle EXCEPT !.pc = "driving", !.step_count = 1].resume.token = NoInterrupt
    BY DEF Idle
  <2>3. \A d \in Clients : workers[d].pc # "loaded" /\ workers[d].resume.token \notin InterruptId
    BY <2>1, <2>2, ConstantTypes
  <2>4. TokenNamesItsCheckpoint /\ TokenIsOwned
    BY <2>3 DEF TokenNamesItsCheckpoint, TokenIsOwned
  <2>5. ResultComesFromTheWinner
    BY DEF Init, NoRow, ResultComesFromTheWinner
  <2>6. QED
    BY <2>4, <2>5 DEF ResultInv
<1>3. TypeInv /\ ResultInv /\ [Next]_vars => TypeInv' /\ ResultInv'
  BY TypeStep, ResultStep
<1>4. ResultInv => ResultComesFromTheWinner
  BY DEF ResultInv
<1>5. QED
  BY <1>1, <1>2, <1>3, <1>4, PTL DEF Spec

(***************************************************************************)
(* What a step may never do to the ledger.                                 *)
(***************************************************************************)
\* The steps that write the ledger write a free row, or a result.
LEMMA LedgerWrites ==
    ASSUME Next
    PROVE  \/ ledger' = ledger
           \/ \E c \in Clients, outcome \in {"terminal", "llm_call", "tool_stage"} :
                 ConsumeApproval(c, outcome)
           \/ \E c \in Clients : RecordResult(c)
<1>1. ASSUME NEW c \in Clients, Drive(c)
      PROVE  ledger' = ledger \/ RecordResult(c)
  <2>1. CASE \/ LlmCall(c) \/ FinalizeAgain(c)
             \/ \E next \in {"llm_call", "finalize"} : ToolStage(c, next) \/ SaveApprovedResult(c, next)
    BY <2>1 DEF LlmCall, FinalizeAgain, ToolStage, SaveApprovedResult, Step
  <2>2. CASE \/ _park_steering_pause(c) \/ ParkApprovedQuestion(c)
             \/ \E reason \in InterruptReason : ParkToolCall(c, reason)
    BY <2>2 DEF _park_steering_pause, ParkApprovedQuestion, ParkToolCall, Park
  <2>3. CASE DrainPause(c) \/ RunApprovedCall(c) \/ Finalize(c) \/ EndWithoutCheckpoint(c)
    BY <2>3 DEF DrainPause, RunApprovedCall, Finalize, EndWithoutCheckpoint
  <2>4. QED
    BY <1>1, <2>1, <2>2, <2>3 DEF Drive
<1>2. ASSUME NEW c \in Clients, NEW k, NEW cmd, NEW expected, Resume(c, k, cmd, expected)
      PROVE  ledger' = ledger
  BY <1>2 DEF Resume
<1>3. ASSUME NEW c \in Clients, RefuseResume(c) \/ Crash(c)
      PROVE  ledger' = ledger
  BY <1>3 DEF RefuseResume, Crash
<1>4. CASE RequestPause
  BY <1>4 DEF RequestPause
<1>5. QED
  BY <1>1, <1>2, <1>3, <1>4 DEF Next

\* A consumed approval stays consumed, by the same process and with the same decision: no
\* duplicate, late or repeated resume rewrites it (try_consume, record_result).
THEOREM ApprovalIsFinal == Spec => ConsumptionIsFinal
<1>1. Init => TypeInv
  BY InitTypeInv
<1>2. TypeInv /\ [Next]_vars => TypeInv'
  BY TypeStep
<1>3. ASSUME TypeInv, [Next]_vars
      PROVE  [\A i \in InterruptId : Consumed(i) =>
                [ledger'[i] EXCEPT !.result = Nobody] = [ledger[i] EXCEPT !.result = Nobody]]_vars
  <2> SUFFICES ASSUME Next, NEW i \in InterruptId, Consumed(i)
               PROVE  [ledger'[i] EXCEPT !.result = Nobody] = [ledger[i] EXCEPT !.result = Nobody]
    BY <1>3
  <2>1. CASE ledger' = ledger
    BY <2>1
  <2>2. ASSUME NEW c \in Clients, NEW outcome \in {"terminal", "llm_call", "tool_stage"},
               ConsumeApproval(c, outcome)
        PROVE  ledger'[i] = ledger[i]
    BY <1>3, <2>2 DEF ConsumeApproval, try_consume, FindExisting, Consumed, TypeInv, TypeOK
  <2>3. ASSUME NEW c \in Clients, RecordResult(c)
        PROVE  [ledger'[i] EXCEPT !.result = Nobody] = [ledger[i] EXCEPT !.result = Nobody]
    <3>1. TypeInv'
      BY <1>3, TypeStep
    <3>2. ledger[i] \in LedgerRow /\ ledger'[i] \in LedgerRow
      BY <1>3, <3>1 DEF TypeInv, TypeOK
    <3>3. /\ ledger'[i].decision = ledger[i].decision
          /\ ledger'[i].key = ledger[i].key
          /\ ledger'[i].consumed_by = ledger[i].consumed_by
      BY <1>3, <2>3, RecordFields DEF RecordResult
    <3>4. QED
      BY <3>2, <3>3 DEF LedgerRow
  <2>4. QED
    BY <2>1, <2>2, <2>3, LedgerWrites
<1>4. QED
  BY <1>1, <1>2, <1>3, PTL DEF Spec, ConsumptionIsFinal

=============================================================================
