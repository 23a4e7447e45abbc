------------------------------ MODULE Gateway ------------------------------
(***************************************************************************)
(* The headless gateway (gateway/gateway.py): clients submit turns and     *)
(* answer the approvals runs stop for.  A client holds one stream at a     *)
(* time, the generator submit() or respond() returned; while it awaits the *)
(* agent other clients' calls come in between, and a client that goes away *)
(* cancels what its stream awaits.  The table of parked runs lives in the  *)
(* process; the run itself is paused in the checkpoint store, which is     *)
(* what a resume is checked against.                                       *)
(***************************************************************************)
EXTENDS Naturals, FiniteSets

CONSTANTS Clients, Sessions, Runs,
          NoSession,      \* the owner of a run not submitted yet
          MaxPauses,      \* bound: interrupts of one run
          Disconnects     \* whether clients go away

\* What the constants have to be.
GatewayAssumption == MaxPauses \in Nat /\ Disconnects \in BOOLEAN /\ NoSession \notin Sessions

VARIABLES
    parked,     \* self._parked: session, run and interrupt id
    owner,      \* thread_id a run was submitted under
    pauses,     \* interrupts of the run so far, the id of the last one
    saved,      \* id of the interrupt the run's latest checkpoint waits for, 0 for none
    leg,        \* the stream each client holds
    ungated     \* runs of which a planned call was executed without the gate

vars == <<parked, owner, pauses, saved, leg, ungated>>

Idle == [st |-> "idle"]

Init ==
    /\ parked = {}
    /\ owner = [r \in Runs |-> NoSession]
    /\ pauses = [r \in Runs |-> 0]
    /\ saved = [r \in Runs |-> 0]
    /\ leg = [c \in Clients |-> Idle]
    /\ ungated = {}

\* submit(): the run is driven with the gateway's gate.
submit(c, s, r) ==
    /\ leg[c] = Idle /\ owner[r] = NoSession
    /\ owner' = [owner EXCEPT ![r] = s]
    /\ leg' = [leg EXCEPT ![c] = [st |-> "driving", session |-> s, run |-> r, gated |-> TRUE, answers |-> 0]]
    /\ UNCHANGED <<parked, pauses, saved, ungated>>

Entry(s, r) == {p \in parked : p.session = s /\ p.run = r}

Unparked(s, r) == parked \ Entry(s, r)

\* respond(): look the entry up, delete it, then await the resume.  The client may
\* name the interrupt it answers itself.
respond(c, s, r) ==
    /\ leg[c] = Idle
    /\ Entry(s, r) # {}
    /\ \E id \in 1 .. MaxPauses :
          leg' = [leg EXCEPT ![c] = [st |-> "resuming", session |-> s, run |-> r, gated |-> FALSE, answers |-> id]]
    /\ parked' = Unparked(s, r)
    /\ UNCHANGED <<owner, pauses, saved, ungated>>

\* Agent.resume(): the checkpoint waits for this interrupt and the action is allowed.
\* It takes no gate.
resume(c) ==
    /\ leg[c].st = "resuming" /\ saved[leg[c].run] = leg[c].answers
    /\ leg' = [leg EXCEPT ![c].st = "driving"]
    /\ UNCHANGED <<parked, owner, pauses, saved, ungated>>

\* The resume raises: another interrupt, an action that is not allowed, a conflict.
ResumeRaises(c) ==
    /\ leg[c].st = "resuming"
    /\ leg' = [leg EXCEPT ![c] = Idle]
    /\ UNCHANGED <<parked, owner, pauses, saved, ungated>>

\* A call is executed and the step is saved.  The first one of a resumed run is the call
\* that was approved; the planned ones after it are the gate's.
ToolStage(c) ==
    /\ leg[c].st = "driving"
    /\ saved' = [saved EXCEPT ![leg[c].run] = 0]
    /\ ungated' = IF leg[c].gated \/ saved[leg[c].run] # 0 THEN ungated ELSE ungated \cup {leg[c].run}
    /\ UNCHANGED <<parked, owner, pauses, leg>>

\* The run stops for an approval and saves that.
Pause(c) == LET r == leg[c].run IN
    /\ leg[c].st = "driving" /\ pauses[r] < MaxPauses
    /\ pauses' = [pauses EXCEPT ![r] = @ + 1]
    /\ saved' = [saved EXCEPT ![r] = pauses[r] + 1]
    /\ leg' = [leg EXCEPT ![c].st = "paused", ![c].answers = pauses[r] + 1]
    /\ UNCHANGED <<parked, owner, ungated>>

\* _terminal_events of a paused output: the run is parked.
Park(c) ==
    /\ leg[c].st = "paused"
    /\ parked' = (parked \ Entry(leg[c].session, leg[c].run))
                 \cup {[session |-> leg[c].session, run |-> leg[c].run, id |-> leg[c].answers]}
    /\ leg' = [leg EXCEPT ![c] = Idle]
    /\ UNCHANGED <<owner, pauses, saved, ungated>>

\* The run completes or fails: COMPLETED or FAILED, nothing is parked.
End(c) ==
    /\ leg[c].st = "driving"
    /\ saved' = [saved EXCEPT ![leg[c].run] = 0]
    /\ leg' = [leg EXCEPT ![c] = Idle]
    /\ UNCHANGED <<parked, owner, pauses, ungated>>

\* The client goes away: the await of its stream is cancelled.
Disconnect(c) ==
    /\ Disconnects /\ leg[c] # Idle
    /\ leg' = [leg EXCEPT ![c] = Idle]
    /\ UNCHANGED <<parked, owner, pauses, saved, ungated>>

Next == \E c \in Clients :
    \/ \E s \in Sessions, r \in Runs : submit(c, s, r) \/ respond(c, s, r)
    \/ resume(c) \/ ResumeRaises(c) \/ ToolStage(c) \/ Pause(c) \/ Park(c) \/ End(c) \/ Disconnect(c)

Spec == Init /\ [][Next]_vars

-----------------------------------------------------------------------------
\* A run is driven by at most one stream: two answers to one approval do not both
\* resume it (respond deletes the entry before it awaits).
OneDriver ==
    \A c, d \in Clients :
        leg[c].st = "driving" /\ leg[d].st = "driving" /\ leg[c].run = leg[d].run => c = d

\* A run is answered only in the session it was submitted in, through every pause
\* (the key of _parked).
SessionsAreSeparate ==
    \A c \in Clients : leg[c] # Idle => leg[c].session = owner[leg[c].run]

\* The table names paused runs: an entry is one the checkpoint store still waits for,
\* and at most one for a run.
ParkedIsPaused ==
    \A p, q \in parked : saved[p.run] = p.id /\ (p.run = q.run => p = q)

-----------------------------------------------------------------------------
\* "when a run pauses on an action_required interrupt, the gateway parks it and emits an
\* event; the client later calls respond to resume it" (module docstring): a run that
\* waits for an answer and that no stream is on can be answered.
PausedCanBeAnswered ==
    \A r \in Runs : saved[r] # 0 /\ (\A c \in Clients : leg[c] = Idle \/ leg[c].run # r)
                    => \E p \in parked : p.run = r

\* "every planned tool call is passed through the gate" (Agent.run), for a gateway that
\* has one.
EveryCallIsGated == ungated = {}
=============================================================================
