------------------------- MODULE ControlPlaneProofs -------------------------
(***************************************************************************)
(* Proofs about the parts of ControlPlane, for every value of their        *)
(* constants: the abort ledger tells the truth about the drives of a run,  *)
(* whatever crashes and overtakes; the run manager keeps what its clients  *)
(* need; the gateway hands each pause to one answer.  A part keeps its own *)
(* invariant, and a step of ControlPlane is one of a single part.          *)
(***************************************************************************)
EXTENDS ControlPlane, Sequences, SequenceTheorems, TLAPS

-----------------------------------------------------------------------------
(***************************************************************************)
(* The abort ledger.                                                       *)
(***************************************************************************)
\* What the place of a process says about its drive: where it stands tells how the drive
\* ended, and a row that was there when it returned is still there, closed in the end.
PhaseIsKnown(w) ==
    /\ phase[w] \in {"idle", "running"} => outcome[w] = "none"
    /\ phase[w] \in {"begin", "over"} => outcome[w] # "none"
    /\ phase[w] \in {"observe", "cancel"} => outcome[w] = "cancelled"
    /\ phase[w] \in {"request", "complete"} => outcome[w] = "completed"
    /\ phase[w] \notin {"gone", "idle", "running"} /\ early[w] => Ledger!Exists
    /\ phase[w] = "over" /\ early[w] => rows["memory"].state \in Ledger!Terminal

\* The inductive invariant of the ledger.
LedgerInv ==
    /\ Ledger!TypeOK /\ Ledger!StatesAgree /\ Ledger!OutcomeIsTruthful
    /\ \A w \in Workers : PhaseIsKnown(w)

\* The three store calls on a row: what they make of it, and that they leave a terminal
\* one and never remove one.
CallIsSound(new, claim) ==
    /\ rows' = new
    /\ new \in [Ledger!Impl -> Ledger!AbortRecord]
    /\ new["memory"].state = new["sql"].state
    /\ Ledger!Exists => new["memory"].state # "absent"
    /\ rows["memory"].state \in Ledger!Terminal => new["memory"].state = rows["memory"].state
    /\ \A i \in Ledger!Impl :
          /\ new[i].state \in {"observed", "cancelled"} =>
                /\ new[i].observed
                /\ rows[i].state \in {"observed", "cancelled"} \/ claim = "cancelled"
          /\ new[i].state = "completed_before_cancel" =>
                rows[i].state = "completed_before_cancel" \/ claim = "completed"

\* request_abort.
LEMMA RequestIsSound ==
    ASSUME LedgerInv, NEW r \in Reasons \cup {NoReason}, Ledger!Requested(r)
    PROVE  CallIsSound(rows', "none")
  <1> DEFINE new == [i \in Ledger!Impl |-> Ledger!request_abort(i, r)]
  <1>1. rows["memory"] \in Ledger!AbortRecord /\ rows["sql"] \in Ledger!AbortRecord
    BY DEF LedgerInv, Ledger!TypeOK, Ledger!Impl
  <1>2. rows' = new
    BY DEF Ledger!Requested
  <1>3. CASE Ledger!Exists
    <2>1. \A i \in Ledger!Impl : new[i] = rows[i]
      BY <1>3 DEF Ledger!request_abort
    <2> QED BY <1>1, <1>2, <1>3, <2>1 DEF CallIsSound, LedgerInv, Ledger!OutcomeIsTruthful,
               Ledger!StatesAgree, Ledger!Impl, Ledger!Exists
  <1>4. CASE ~Ledger!Exists
    <2>1. \A i \in Ledger!Impl : new[i] = [state |-> "requested", observed |-> FALSE, reason |-> r]
      BY <1>4 DEF Ledger!request_abort
    <2> HIDE DEF new
    <2>2. \A i \in Ledger!Impl : new[i] \in Ledger!AbortRecord /\ new[i].state = "requested"
      <3> DEFINE rec == [state |-> "requested", observed |-> FALSE, reason |-> r]
      <3>1. "requested" \in Ledger!AbortLifecycleState
        BY DEF Ledger!AbortLifecycleState
      <3>2. rec \in Ledger!AbortRecord /\ rec.state = "requested"
        BY <3>1 DEF Ledger!AbortRecord
      <3> QED BY <2>1, <3>2
    <2>3. new \in [Ledger!Impl -> Ledger!AbortRecord]
      BY <2>2 DEF new
    <2>4. rows["memory"].state = "absent" /\ "memory" \in Ledger!Impl /\ "sql" \in Ledger!Impl
      BY <1>4 DEF Ledger!Exists, Ledger!Impl
    <2> QED BY <1>2, <1>4, <2>2, <2>3, <2>4 DEF CallIsSound, Ledger!Terminal
  <1> QED BY <1>3, <1>4

\* mark_observed, by a process whose drive was cancelled.
LEMMA ObservedIsSound ==
    ASSUME LedgerInv, NEW r \in Reasons \cup {NoReason}, Ledger!Observed(r)
    PROVE  CallIsSound(rows', "cancelled") /\ Ledger!Exists'
  <1> DEFINE new == [i \in Ledger!Impl |-> Ledger!mark_observed(i, r)]
  <1>1. rows["memory"] \in Ledger!AbortRecord /\ rows["sql"] \in Ledger!AbortRecord
    BY DEF LedgerInv, Ledger!TypeOK, Ledger!Impl
  <1>2. rows' = new
    BY DEF Ledger!Observed
  <1>3. /\ new["memory"] = Ledger!mark_observed("memory", r)
        /\ new["sql"] = Ledger!mark_observed("sql", r)
    BY DEF Ledger!Impl
  <1> HIDE DEF new
  <1>4. /\ new["memory"] \in Ledger!AbortRecord
        /\ new["memory"].state = IF rows["memory"].state \in Ledger!Terminal
                                 THEN rows["memory"].state ELSE "observed"
        /\ new["memory"].observed = IF rows["memory"].state \in Ledger!Terminal
                                    THEN rows["memory"].observed ELSE TRUE
    <2>1. CASE rows["memory"].state \in Ledger!Terminal
      BY <1>1, <1>3, <2>1 DEF Ledger!mark_observed
    <2>2. CASE rows["memory"].state \notin Ledger!Terminal
      <3> DEFINE why == IF r # NoReason THEN r ELSE rows["memory"].reason
      <3>1. new["memory"] = [state |-> "observed", observed |-> TRUE, reason |-> why]
        BY <1>3, <2>2 DEF Ledger!mark_observed
      <3>2. why \in Reasons \cup {NoReason}
        BY <1>1 DEF Ledger!AbortRecord
      <3> HIDE DEF why
      <3> QED BY <2>2, <3>1, <3>2 DEF Ledger!AbortRecord, Ledger!AbortLifecycleState
    <2> QED BY <2>1, <2>2
  <1>5. /\ new["sql"] \in Ledger!AbortRecord
        /\ new["sql"].state = IF rows["sql"].state \in Ledger!Terminal
                              THEN rows["sql"].state ELSE "observed"
        /\ new["sql"].observed
    <2> DEFINE why == IF rows["sql"].reason # NoReason THEN rows["sql"].reason ELSE r
               st == IF rows["sql"].state \in Ledger!Terminal THEN rows["sql"].state
                     ELSE "observed"
    <2>1. new["sql"] = [state |-> st, observed |-> TRUE, reason |-> why]
      BY <1>3 DEF Ledger!mark_observed
    <2>2. why \in Reasons \cup {NoReason} /\ st \in Ledger!AbortLifecycleState
      BY <1>1 DEF Ledger!AbortRecord, Ledger!AbortLifecycleState, Ledger!Terminal
    <2> HIDE DEF why
    <2> QED BY <2>1, <2>2 DEF Ledger!AbortRecord
  <1>6. new \in [Ledger!Impl -> Ledger!AbortRecord]
    BY <1>4, <1>5 DEF Ledger!Impl, new
  <1> QED BY <1>2, <1>4, <1>5, <1>6 DEF CallIsSound, LedgerInv, Ledger!OutcomeIsTruthful,
             Ledger!StatesAgree, Ledger!Impl, Ledger!Exists, Ledger!Terminal

\* resolve, by a process whose drive ended so.
LEMMA ResolveIsSound ==
    ASSUME LedgerInv, NEW cancelled \in BOOLEAN, Ledger!Resolved(cancelled)
    PROVE  /\ CallIsSound(rows', IF cancelled THEN "cancelled" ELSE "completed")
           /\ Ledger!Exists => rows'["memory"].state \in Ledger!Terminal
  <1> DEFINE new == [i \in Ledger!Impl |-> Ledger!resolve(i, cancelled)]
             final == IF cancelled THEN "cancelled" ELSE "completed_before_cancel"
             stays(i) == rows[i].state \in Ledger!Terminal \cup {"absent"}
  <1>1. \A i \in Ledger!Impl : rows[i] \in Ledger!AbortRecord
    BY DEF LedgerInv, Ledger!TypeOK
  <1>2. rows' = new
    BY DEF Ledger!Resolved
  <1>3. \A i \in Ledger!Impl :
            /\ new[i] \in Ledger!AbortRecord
            /\ new[i].state = IF stays(i) THEN rows[i].state ELSE final
            /\ new[i].observed = IF stays(i) THEN rows[i].observed
                                 ELSE rows[i].observed \/ cancelled
    <2> SUFFICES ASSUME NEW i \in Ledger!Impl
                 PROVE  /\ new[i] \in Ledger!AbortRecord
                        /\ new[i].state = IF stays(i) THEN rows[i].state ELSE final
                        /\ new[i].observed = IF stays(i) THEN rows[i].observed
                                             ELSE rows[i].observed \/ cancelled
      OBVIOUS
    <2>1. new[i] = Ledger!resolve(i, cancelled)
      OBVIOUS
    <2>2. CASE stays(i)
      BY <1>1, <2>1, <2>2 DEF Ledger!resolve
    <2>3. CASE ~stays(i)
      <3>1. new[i] = [rows[i] EXCEPT !.state = final, !.observed = @ \/ cancelled]
        BY <2>1, <2>3 DEF Ledger!resolve
      <3>2. final \in Ledger!AbortLifecycleState /\ (rows[i].observed \/ cancelled) \in BOOLEAN
        BY <1>1 DEF Ledger!AbortLifecycleState, Ledger!AbortRecord
      <3> QED BY <1>1, <2>3, <3>1, <3>2 DEF Ledger!AbortRecord
    <2> QED BY <2>2, <2>3
  <1>4. new \in [Ledger!Impl -> Ledger!AbortRecord]
    BY <1>3
  <1> HIDE DEF new
  <1> QED BY <1>1, <1>2, <1>3, <1>4 DEF CallIsSound, LedgerInv, Ledger!OutcomeIsTruthful,
             Ledger!StatesAgree, Ledger!Impl, Ledger!Exists, Ledger!Terminal

\* A store call leaves what the invariant says of the rows and of every process but w.
LEMMA CallKeepsTheRest ==
    ASSUME LedgerInv, NEW w \in Workers, NEW p \in Ledger!Phase, NEW claim,
           CallIsSound(rows', claim), claim = "none" \/ outcome[w] = claim,
           UNCHANGED <<outcome, handle, early>>,
           phase' = [phase EXCEPT ![w] = p], PhaseIsKnown(w)'
    PROVE  LedgerInv'
  <1>1. Ledger!TypeOK'
    BY DEF LedgerInv, Ledger!TypeOK, CallIsSound
  <1>2. Ledger!StatesAgree'
    BY DEF CallIsSound, Ledger!StatesAgree
  <1>3. Ledger!OutcomeIsTruthful'
    <2> SUFFICES ASSUME NEW i \in Ledger!Impl
                 PROVE  /\ rows'[i].state \in {"observed", "cancelled"} =>
                              rows'[i].observed /\ \E v \in Workers : outcome[v] = "cancelled"
                        /\ rows'[i].state = "completed_before_cancel" =>
                              \E v \in Workers : outcome[v] = "completed"
      BY DEF Ledger!OutcomeIsTruthful
    <2> QED BY DEF CallIsSound, LedgerInv, Ledger!OutcomeIsTruthful
  <1>4. ASSUME NEW v \in Workers, v # w PROVE PhaseIsKnown(v)'
    <2>1. phase'[v] = phase[v]
      BY <1>4 DEF LedgerInv, Ledger!TypeOK
    <2> QED BY <2>1, <1>4 DEF PhaseIsKnown, CallIsSound, LedgerInv, Ledger!Exists
  <1> QED BY <1>1, <1>2, <1>3, <1>4 DEF LedgerInv

LEMMA LedgerInitially == Ledger!Init => LedgerInv
  BY DEF Ledger!Init, LedgerInv, Ledger!TypeOK, Ledger!StatesAgree, Ledger!OutcomeIsTruthful,
         PhaseIsKnown, Ledger!Impl, Ledger!NoRow, Ledger!AbortRecord, Ledger!AbortLifecycleState,
         Ledger!Phase

\* Steps that leave the rows alone: a process goes on, and its drive may have ended.
LEMMA ProcessStep ==
    ASSUME LedgerInv, NEW w \in Workers, NEW p \in Ledger!Phase,
           UNCHANGED rows, phase' = [phase EXCEPT ![w] = p],
           NEW o \in {"none", "cancelled", "completed"},
           outcome' = [outcome EXCEPT ![w] = o], outcome[w] # "none" => o = outcome[w],
           NEW e \in BOOLEAN, early' = [early EXCEPT ![w] = e],
           handle' \in [Workers -> Reasons \cup {NoReason}],
           PhaseIsKnown(w)'
    PROVE  LedgerInv'
  <1>1. Ledger!TypeOK'
    BY DEF LedgerInv, Ledger!TypeOK
  <1>2. \A v \in Workers : outcome[v] # "none" => outcome'[v] = outcome[v]
    BY DEF LedgerInv, Ledger!TypeOK
  <1>3. Ledger!StatesAgree' /\ Ledger!OutcomeIsTruthful'
    BY <1>2 DEF LedgerInv, Ledger!StatesAgree, Ledger!OutcomeIsTruthful, Ledger!Impl
  <1>4. ASSUME NEW v \in Workers, v # w PROVE PhaseIsKnown(v)'
    <2>1. phase'[v] = phase[v] /\ outcome'[v] = outcome[v] /\ early'[v] = early[v]
      BY <1>4 DEF LedgerInv, Ledger!TypeOK
    <2> QED BY <2>1, <1>4 DEF PhaseIsKnown, LedgerInv, Ledger!Exists
  <1> QED BY <1>1, <1>3, <1>4 DEF LedgerInv

\* Every step of hosts, processes and crashes keeps the ledger's invariant.
LEMMA LedgerStep == ASSUME LedgerInv, Ledger!Next PROVE LedgerInv'
  <1> USE DEF Ledger!Go
  <1>0. /\ \A w \in Workers : /\ phase[w] \in Ledger!Phase /\ PhaseIsKnown(w)
                              /\ handle[w] \in Reasons \cup {NoReason}
                              /\ outcome[w] \in {"none", "cancelled", "completed"}
                              /\ early[w] \in BOOLEAN
        /\ phase = [w \in Workers |-> phase[w]]
        /\ outcome = [w \in Workers |-> outcome[w]]
        /\ early = [w \in Workers |-> early[w]]
        /\ handle \in [Workers -> Reasons \cup {NoReason}]
        /\ rows["memory"].state = rows["sql"].state
        /\ \A p \in {"running", "begin", "observe", "cancel", "request", "complete", "over",
                     "gone"} : p \in Ledger!Phase
    BY DEF LedgerInv, Ledger!TypeOK, Ledger!StatesAgree, Ledger!Phase
  <1>1. ASSUME NEW r \in Reasons \cup {NoReason}, Ledger!HostRequest(r) PROVE LedgerInv'
    <2>1. CallIsSound(rows', "none")
      BY <1>1, RequestIsSound DEF Ledger!HostRequest
    <2>2. UNCHANGED <<phase, outcome, handle, early>>
      BY <1>1 DEF Ledger!HostRequest
    <2>3. Ledger!TypeOK'
      BY <2>1, <2>2 DEF LedgerInv, Ledger!TypeOK, CallIsSound
    <2>4. Ledger!StatesAgree' /\ Ledger!OutcomeIsTruthful'
      BY <2>1, <2>2 DEF CallIsSound, LedgerInv, Ledger!StatesAgree, Ledger!OutcomeIsTruthful
    <2>5. ASSUME NEW v \in Workers PROVE PhaseIsKnown(v)'
      BY <1>0, <2>1, <2>2 DEF PhaseIsKnown, CallIsSound, Ledger!Exists
    <2> QED BY <2>3, <2>4, <2>5 DEF LedgerInv
  <1>2. ASSUME NEW w \in Workers, NEW r \in Reasons, Ledger!HandleAbort(w, r) PROVE LedgerInv'
    <2>1. UNCHANGED <<rows, phase, outcome, early>> /\ handle' = [handle EXCEPT ![w] = r]
      BY <1>2 DEF Ledger!HandleAbort
    <2> QED BY <1>0, <2>1 DEF LedgerInv, Ledger!TypeOK, Ledger!StatesAgree,
               Ledger!OutcomeIsTruthful, PhaseIsKnown, Ledger!Exists
  \* A process goes on to place p without a call.
  <1>3. ASSUME NEW w \in Workers, NEW p \in Ledger!Phase, phase' = [phase EXCEPT ![w] = p],
               UNCHANGED <<rows, outcome, handle, early>>, PhaseIsKnown(w)'
        PROVE  LedgerInv'
    <2>1. /\ outcome' = [outcome EXCEPT ![w] = outcome[w]]
          /\ early' = [early EXCEPT ![w] = early[w]]
      BY <1>0, <1>3
    <2> QED BY <1>0, <1>3, <2>1, ProcessStep
  <1>4. ASSUME NEW w \in Workers, Ledger!Drive(w) PROVE LedgerInv'
    <2>1. phase'[w] = "running" /\ phase[w] = "idle"
      BY <1>0, <1>4 DEF Ledger!Drive
    <2>2. PhaseIsKnown(w)'
      BY <1>0, <1>4, <2>1 DEF Ledger!Drive, PhaseIsKnown
    <2> QED BY <1>0, <1>3, <1>4, <2>2 DEF Ledger!Drive
  <1>5. ASSUME NEW w \in Workers, Ledger!Pause(w) \/ Ledger!Crash(w) PROVE LedgerInv'
    <2>1. /\ phase' = [phase EXCEPT ![w] = "gone"]
          /\ UNCHANGED <<rows, outcome, handle, early>>
      BY <1>5 DEF Ledger!Pause, Ledger!Crash
    <2>2. PhaseIsKnown(w)'
      BY <1>0, <2>1 DEF PhaseIsKnown
    <2> QED BY <1>0, <1>3, <2>1, <2>2
  <1>6. ASSUME NEW w \in Workers, NEW cancelled \in BOOLEAN, Ledger!DriveEnds(w, cancelled)
        PROVE  LedgerInv'
    <2> DEFINE o == IF cancelled THEN "cancelled" ELSE "completed"
    <2>1. /\ phase[w] = "running" /\ phase' = [phase EXCEPT ![w] = "begin"]
          /\ outcome' = [outcome EXCEPT ![w] = o]
          /\ early' = [early EXCEPT ![w] = Ledger!Exists] /\ UNCHANGED <<rows, handle>>
      BY <1>6 DEF Ledger!DriveEnds
    <2>2. o \in {"cancelled", "completed"} /\ outcome[w] = "none" /\ Ledger!Exists \in BOOLEAN
      BY <1>0, <2>1 DEF PhaseIsKnown, Ledger!Exists
    <2>3. PhaseIsKnown(w)'
      <3>1. phase'[w] = "begin" /\ outcome'[w] = o /\ early'[w] = Ledger!Exists
        BY <1>0, <2>1
      <3>2. Ledger!Exists' = Ledger!Exists
        BY <2>1 DEF Ledger!Exists
      <3> HIDE DEF o
      <3> QED BY <2>2, <3>1, <3>2 DEF PhaseIsKnown
    <2> HIDE DEF o
    <2> QED BY <1>0, <2>1, <2>2, <2>3, ProcessStep
  <1>7. ASSUME NEW w \in Workers, Ledger!_finalize_abort_lifecycle(w) PROVE LedgerInv'
    <2> DEFINE p == CASE outcome[w] = "cancelled" -> "observe"
               [] outcome[w] # "cancelled" /\ Ledger!Exists -> "complete"
               [] outcome[w] # "cancelled" /\ ~Ledger!Exists /\ handle[w] # NoReason -> "request"
               [] OTHER -> "over"
    <2>1. /\ phase[w] = "begin" /\ phase' = [phase EXCEPT ![w] = p]
          /\ UNCHANGED <<rows, outcome, handle, early>>
      BY <1>7 DEF Ledger!_finalize_abort_lifecycle
    <2>2. /\ p \in {"observe", "complete", "request", "over"}
          /\ p = "observe" => outcome[w] = "cancelled"
          /\ p \in {"complete", "request"} => outcome[w] # "cancelled"
          /\ p = "over" => outcome[w] # "cancelled" /\ ~Ledger!Exists
      OBVIOUS
    <2> HIDE DEF p
    <2>3. phase'[w] = p /\ Ledger!Exists' = Ledger!Exists
      BY <1>0, <2>1 DEF Ledger!Exists
    <2>4. PhaseIsKnown(w)'
      BY <1>0, <2>1, <2>2, <2>3 DEF PhaseIsKnown
    <2> QED BY <1>0, <1>3, <2>1, <2>2, <2>4
  <1>8. ASSUME NEW w \in Workers, Ledger!FinalizeObserves(w) PROVE LedgerInv'
    <2>1. CallIsSound(rows', "cancelled") /\ Ledger!Exists'
      BY <1>0, <1>8, ObservedIsSound DEF Ledger!FinalizeObserves
    <2>2. /\ phase[w] = "observe" /\ phase' = [phase EXCEPT ![w] = "cancel"]
          /\ UNCHANGED <<outcome, handle, early>>
      BY <1>8 DEF Ledger!FinalizeObserves
    <2>3. outcome[w] = "cancelled" /\ phase'[w] = "cancel"
      BY <1>0, <2>2 DEF PhaseIsKnown
    <2>4. PhaseIsKnown(w)'
      BY <2>1, <2>2, <2>3 DEF PhaseIsKnown
    <2> QED BY <1>0, <2>1, <2>2, <2>3, <2>4, CallKeepsTheRest
  <1>9. ASSUME NEW w \in Workers, Ledger!FinalizeRequests(w) PROVE LedgerInv'
    <2>1. CallIsSound(rows', "none")
      BY <1>0, <1>9, RequestIsSound DEF Ledger!FinalizeRequests
    <2>2. /\ phase[w] = "request" /\ phase' = [phase EXCEPT ![w] = "complete"]
          /\ UNCHANGED <<outcome, handle, early>>
      BY <1>9 DEF Ledger!FinalizeRequests
    <2>3. outcome[w] = "completed" /\ phase'[w] = "complete"
      BY <1>0, <2>2 DEF PhaseIsKnown
    <2>4. PhaseIsKnown(w)'
      BY <1>0, <2>1, <2>2, <2>3 DEF PhaseIsKnown, CallIsSound, Ledger!Exists
    <2> QED BY <1>0, <2>1, <2>2, <2>3, <2>4, CallKeepsTheRest
  <1>10. ASSUME NEW w \in Workers, Ledger!FinalizeResolves(w) PROVE LedgerInv'
    <2> DEFINE claim == IF phase[w] = "cancel" THEN "cancelled" ELSE "completed"
    <2>1. /\ CallIsSound(rows', claim)
          /\ Ledger!Exists => rows'["memory"].state \in Ledger!Terminal
      BY <1>10, ResolveIsSound DEF Ledger!FinalizeResolves
    <2>2. /\ phase[w] \in {"cancel", "complete"} /\ phase' = [phase EXCEPT ![w] = "over"]
          /\ UNCHANGED <<outcome, handle, early>>
      BY <1>10 DEF Ledger!FinalizeResolves
    <2>3. outcome[w] = claim /\ claim # "none" /\ phase'[w] = "over"
      BY <1>0, <2>2 DEF PhaseIsKnown
    <2> HIDE DEF claim
    <2>4. PhaseIsKnown(w)'
      BY <1>0, <2>1, <2>2, <2>3 DEF PhaseIsKnown, CallIsSound, Ledger!Exists
    <2> QED BY <1>0, <2>1, <2>2, <2>3, <2>4, CallKeepsTheRest
  <1> QED BY <1>1, <1>2, <1>4, <1>5, <1>6, <1>7, <1>8, <1>9, <1>10
          DEF Ledger!Next, Ledger!Finalize

-----------------------------------------------------------------------------
(***************************************************************************)
(* The gateway.                                                            *)
(***************************************************************************)
Stream ==
    [st : {"driving", "resuming", "paused"}, session : Sessions, run : Runs,
     gated : BOOLEAN, answers : Nat]
Leg == {Front!Idle} \cup Stream

GatewayTypes ==
    /\ parked \subseteq [session : Sessions, run : Runs, id : Nat]
    /\ owner \in [Runs -> Sessions \cup {NoSession}]
    /\ pauses \in [Runs -> Nat]
    /\ saved \in [Runs -> Nat]
    /\ leg \in [Clients -> Leg]

\* A run that was submitted has one holder at most: the stream that is on it, or the entry
\* of the table; either is in the session of the run and waits for the saved interrupt.
EntryIsSound(p) ==
    /\ p.session = owner[p.run]
    /\ saved[p.run] = p.id
    /\ \A q \in parked : p.run = q.run => p = q

LegIsSound(c) ==
    leg[c] # Front!Idle =>
        /\ leg[c].session = owner[leg[c].run]
        /\ leg[c].st = "paused" => saved[leg[c].run] = leg[c].answers
        /\ \A p \in parked : p.run # leg[c].run
        /\ \A d \in Clients : leg[d] # Front!Idle /\ leg[d].run = leg[c].run => c = d

\* The inductive invariant of the gateway.
GatewayInv ==
    /\ GatewayTypes
    /\ \A p \in parked : EntryIsSound(p)
    /\ \A c \in Clients : LegIsSound(c)

LEMMA IdleIsNoLeg ==
    ASSUME NEW l \in Leg PROVE l # Front!Idle <=> l.st \in {"driving", "resuming", "paused"}
  BY DEF Leg, Stream, Front!Idle

LEMMA GatewayInitially == Front!Init => GatewayInv
  BY DEF Front!Init, GatewayInv, GatewayTypes, Leg, LegIsSound

\* A client's stream ends or changes place without a new run; the table and the store
\* stay as they are, but for the interrupt its run is saved with.
LEMMA LegMoves ==
    ASSUME GatewayInv, NEW c \in Clients, leg[c] # Front!Idle,
           NEW l \in Leg, leg' = [leg EXCEPT ![c] = l],
           l # Front!Idle => l.run = leg[c].run /\ l.session = leg[c].session,
           NEW n \in Nat, saved' = [saved EXCEPT ![leg[c].run] = n],
           l # Front!Idle /\ l.st = "paused" => n = l.answers,
           pauses' \in [Runs -> Nat],
           UNCHANGED <<parked, owner>>
    PROVE  GatewayInv'
  <1>1. leg[c] \in Leg /\ leg[c].run \in Runs /\ leg'[c] = l
    BY DEF GatewayInv, GatewayTypes, Leg, Stream
  <1>2. GatewayTypes'
    BY <1>1 DEF GatewayInv, GatewayTypes
  <1>3. \A r \in Runs : saved'[r] = IF r = leg[c].run THEN n ELSE saved[r]
    BY <1>1 DEF GatewayInv, GatewayTypes
  <1>4. ASSUME NEW p \in parked PROVE EntryIsSound(p)'
    <2>1. p.run \in Runs /\ p.run # leg[c].run
      BY DEF GatewayInv, GatewayTypes, LegIsSound
    <2> QED BY <1>3, <2>1 DEF GatewayInv, EntryIsSound
  <1>5. ASSUME NEW d \in Clients PROVE LegIsSound(d)'
    <2>1. CASE d = c
      <3>1. ASSUME NEW e \in Clients, leg'[e] # Front!Idle, leg'[e].run = l.run, l # Front!Idle
            PROVE  e = c
        <4>1. e # c => leg'[e] = leg[e]
          BY DEF GatewayInv, GatewayTypes
        <4> QED BY <3>1, <4>1 DEF GatewayInv, LegIsSound
      <3> QED BY <1>1, <1>3, <2>1, <3>1 DEF LegIsSound, GatewayInv
    <2>2. CASE d # c
      <3>1. leg'[d] = leg[d] /\ leg[d] \in Leg
        BY <2>2 DEF GatewayInv, GatewayTypes
      <3>2. leg[d] # Front!Idle => leg[d].run \in Runs /\ leg[d].run # leg[c].run
        BY <2>2, <3>1 DEF GatewayInv, LegIsSound, Leg, Stream
      <3>3. \A e \in Clients : e # c => leg'[e] = leg[e]
        BY DEF GatewayInv, GatewayTypes
      <3> QED BY <1>1, <1>3, <2>2, <3>1, <3>2, <3>3 DEF LegIsSound, GatewayInv
    <2> QED BY <2>1, <2>2
  <1> QED BY <1>2, <1>4, <1>5 DEF GatewayInv

\* submit and respond: an idle client takes a run that nobody holds any more.
LEMMA LegTakes ==
    ASSUME GatewayInv, NEW c \in Clients, leg[c] = Front!Idle,
           NEW l \in Leg, leg' = [leg EXCEPT ![c] = l], l.st # "paused",
           l # Front!Idle, l.session = owner'[l.run],
           owner' \in [Runs -> Sessions \cup {NoSession}],
           \A r \in Runs : r # l.run => owner'[r] = owner[r],
           parked' = {p \in parked : p.run # l.run},
           \A d \in Clients : leg[d] # Front!Idle => leg[d].run # l.run,
           UNCHANGED <<pauses, saved>>
    PROVE  GatewayInv'
  <1>1. GatewayTypes' /\ leg'[c] = l
    BY DEF GatewayInv, GatewayTypes
  <1>2. ASSUME NEW p \in parked' PROVE EntryIsSound(p)'
    <2>1. p \in parked /\ p.run # l.run /\ p.run \in Runs
      BY DEF GatewayInv, GatewayTypes
    <2> QED BY <2>1 DEF GatewayInv, EntryIsSound
  <1>3. \A e \in Clients : e # c => leg'[e] = leg[e]
    BY DEF GatewayInv, GatewayTypes
  <1>4. ASSUME NEW d \in Clients PROVE LegIsSound(d)'
    <2>1. CASE d = c
      BY <1>1, <1>3, <2>1 DEF LegIsSound
    <2>2. CASE d # c
      <3>1. leg'[d] = leg[d] /\ leg[d] \in Leg
        BY <1>3, <2>2 DEF GatewayInv, GatewayTypes
      <3>2. leg[d] # Front!Idle => leg[d].run \in Runs /\ leg[d].run # l.run
        BY <3>1 DEF Leg, Stream
      <3> QED BY <1>1, <1>3, <2>2, <3>1, <3>2 DEF LegIsSound, GatewayInv
    <2> QED BY <2>1, <2>2
  <1> QED BY <1>1, <1>2, <1>4 DEF GatewayInv

\* Every call, answer, pause and disconnect keeps the gateway's invariant.
LEMMA GatewayStep == ASSUME GatewayInv, Front!Next PROVE GatewayInv'
  <1>0. /\ \A c \in Clients : leg[c] \in Leg /\ LegIsSound(c)
        /\ saved \in [Runs -> Nat] /\ pauses \in [Runs -> Nat]
        /\ owner \in [Runs -> Sessions \cup {NoSession}]
        /\ leg \in [Clients -> Leg]
        /\ NoSession \notin Sessions /\ MaxPauses \in Nat
    BY GatewayAssumption DEF GatewayInv, GatewayTypes, Front!GatewayAssumption
  <1>1. ASSUME NEW c \in Clients, NEW s \in Sessions, NEW r \in Runs, Front!submit(c, s, r)
        PROVE  GatewayInv'
    <2> DEFINE l == [st |-> "driving", session |-> s, run |-> r, gated |-> TRUE, answers |-> 0]
    <2>1. /\ leg[c] = Front!Idle /\ owner[r] = NoSession /\ owner' = [owner EXCEPT ![r] = s]
          /\ leg' = [leg EXCEPT ![c] = l] /\ UNCHANGED <<parked, pauses, saved, ungated>>
      BY <1>1 DEF Front!submit
    <2>2. l \in Leg /\ l # Front!Idle /\ l.run = r /\ l.session = s /\ l.st = "driving"
      BY IdleIsNoLeg DEF Leg, Stream
    <2>3. /\ owner'[r] = s /\ owner' \in [Runs -> Sessions \cup {NoSession}]
          /\ \A q \in Runs : q # r => owner'[q] = owner[q]
      BY <1>0, <2>1
    <2>4. \A p \in parked : p.run # r
      BY <1>0, <2>1 DEF GatewayInv, GatewayTypes, EntryIsSound
    <2>5. \A d \in Clients : leg[d] # Front!Idle => leg[d].run # r
      BY <1>0, <2>1 DEF LegIsSound, Leg, Stream
    <2>6. parked' = {p \in parked : p.run # r}
      BY <2>1, <2>4
    <2> HIDE DEF l
    <2> QED BY <2>1, <2>2, <2>3, <2>5, <2>6, LegTakes
  <1>2. ASSUME NEW c \in Clients, NEW s \in Sessions, NEW r \in Runs, Front!respond(c, s, r)
        PROVE  GatewayInv'
    <2>1. PICK id \in 1 .. MaxPauses :
            leg' = [leg EXCEPT ![c] = [st |-> "resuming", session |-> s, run |-> r,
                                       gated |-> FALSE, answers |-> id]]
      BY <1>2 DEF Front!respond
    <2> DEFINE l == [st |-> "resuming", session |-> s, run |-> r, gated |-> FALSE, answers |-> id]
    <2>2. /\ leg[c] = Front!Idle /\ Front!Entry(s, r) # {}
          /\ parked' = parked \ Front!Entry(s, r) /\ UNCHANGED <<owner, pauses, saved, ungated>>
      BY <1>2 DEF Front!respond, Front!Unparked
    <2>3. id \in Nat
      BY <1>0
    <2>4. l \in Leg /\ l # Front!Idle /\ l.run = r /\ l.session = s /\ l.st = "resuming"
      BY <2>3, IdleIsNoLeg DEF Leg, Stream
    <2>5. PICK e \in parked : e.session = s /\ e.run = r
      BY <2>2 DEF Front!Entry
    <2>6. owner[r] = s /\ \A p \in parked : p.run = r => p.session = s
      BY <2>5 DEF GatewayInv, EntryIsSound
    <2>7. parked' = {p \in parked : p.run # r}
      BY <2>2, <2>6 DEF Front!Entry
    <2>8. \A d \in Clients : leg[d] # Front!Idle => leg[d].run # r
      BY <1>0, <2>5 DEF LegIsSound
    <2> HIDE DEF l
    <2>9. leg' = [leg EXCEPT ![c] = l]
      BY <2>1 DEF l
    <2> QED BY <1>0, <2>2, <2>4, <2>6, <2>7, <2>8, <2>9, LegTakes
  <1>3. ASSUME NEW c \in Clients, Front!resume(c) PROVE GatewayInv'
    <2>1. /\ leg[c].st = "resuming" /\ leg' = [leg EXCEPT ![c].st = "driving"]
          /\ UNCHANGED <<parked, owner, pauses, saved, ungated>>
      BY <1>3 DEF Front!resume
    <2>2. leg[c] # Front!Idle /\ leg[c].answers \in Nat /\ leg[c].run \in Runs
      BY <1>0, <2>1, IdleIsNoLeg DEF Leg, Stream
    <2> DEFINE m == [leg[c] EXCEPT !.st = "driving"]
    <2>3. /\ m \in Leg /\ m # Front!Idle /\ m.run = leg[c].run /\ m.session = leg[c].session
          /\ m.st = "driving"
      <3> HIDE DEF m
      <3>1. leg[c] \in Stream
        BY <1>0, <2>2 DEF Leg
      <3>2. m \in Stream /\ m.run = leg[c].run /\ m.session = leg[c].session /\ m.st = "driving"
        BY <3>1 DEF Stream, m
      <3> QED BY <3>2, IdleIsNoLeg DEF Leg
    <2>4. leg' = [leg EXCEPT ![c] = m]
      BY <1>0, <2>1
    <2> HIDE DEF m
    <2>5. saved' = [saved EXCEPT ![leg[c].run] = saved[leg[c].run]] /\ saved[leg[c].run] \in Nat
      BY <1>0, <2>1, <2>2
    <2> QED BY <1>0, <2>1, <2>2, <2>3, <2>4, <2>5, LegMoves
  <1>4. ASSUME NEW c \in Clients, Front!ResumeRaises(c) \/ Front!End(c) \/ Front!Disconnect(c)
        PROVE  GatewayInv'
    <2>1. leg[c] # Front!Idle
      BY <1>0, <1>4, IdleIsNoLeg DEF Front!ResumeRaises, Front!End, Front!Disconnect
    <2>2. Front!Idle \in Leg /\ leg[c].run \in Runs
      BY <1>0, <2>1 DEF Leg, Stream
    <2>3. /\ leg' = [leg EXCEPT ![c] = Front!Idle] /\ UNCHANGED <<parked, owner, pauses>>
          /\ saved' = saved \/ saved' = [saved EXCEPT ![leg[c].run] = 0]
      BY <1>4 DEF Front!ResumeRaises, Front!End, Front!Disconnect
    <2>4. PICK n \in Nat : saved' = [saved EXCEPT ![leg[c].run] = n]
      <3>1. saved = [saved EXCEPT ![leg[c].run] = saved[leg[c].run]] /\ saved[leg[c].run] \in Nat
        BY <1>0, <2>2
      <3> QED BY <2>3, <3>1
    <2> QED BY <1>0, <2>1, <2>2, <2>3, <2>4, LegMoves
  <1>5. ASSUME NEW c \in Clients, Front!ToolStage(c) PROVE GatewayInv'
    <2>1. /\ leg[c].st = "driving" /\ saved' = [saved EXCEPT ![leg[c].run] = 0]
          /\ UNCHANGED <<parked, owner, pauses, leg>>
      BY <1>5 DEF Front!ToolStage
    <2>2. leg[c] # Front!Idle /\ leg' = [leg EXCEPT ![c] = leg[c]]
      BY <1>0, <2>1, IdleIsNoLeg
    <2> QED BY <1>0, <2>1, <2>2, LegMoves
  <1>6. ASSUME NEW c \in Clients, Front!Pause(c) PROVE GatewayInv'
    <2> DEFINE n == pauses[leg[c].run] + 1
    <2>1. /\ leg[c].st = "driving" /\ saved' = [saved EXCEPT ![leg[c].run] = n]
          /\ pauses' = [pauses EXCEPT ![leg[c].run] = @ + 1]
          /\ leg' = [leg EXCEPT ![c].st = "paused", ![c].answers = n]
          /\ UNCHANGED <<parked, owner>>
      BY <1>6 DEF Front!Pause
    <2>2. leg[c] # Front!Idle /\ leg[c].run \in Runs
      BY <1>0, <2>1, IdleIsNoLeg DEF Leg, Stream
    <2>3. n \in Nat /\ pauses' \in [Runs -> Nat]
      BY <1>0, <2>1, <2>2
    <2> HIDE DEF n
    <2> DEFINE m == [leg[c] EXCEPT !.st = "paused", !.answers = n]
    <2>4. /\ m \in Leg /\ m # Front!Idle /\ m.run = leg[c].run /\ m.session = leg[c].session
          /\ m.answers = n
      <3> HIDE DEF m
      <3>1. leg[c] \in Stream
        BY <1>0, <2>2 DEF Leg
      <3>2. /\ m \in Stream /\ m.run = leg[c].run /\ m.session = leg[c].session
            /\ m.st = "paused" /\ m.answers = n
        BY <2>3, <3>1 DEF Stream, m
      <3> QED BY <3>2, IdleIsNoLeg DEF Leg
    <2>5. leg' = [leg EXCEPT ![c] = m]
      BY <1>0, <2>1
    <2> HIDE DEF m
    <2> QED BY <1>0, <2>1, <2>2, <2>3, <2>4, <2>5, LegMoves
  <1>7. ASSUME NEW c \in Clients, Front!Park(c) PROVE GatewayInv'
    <2> DEFINE e == [session |-> leg[c].session, run |-> leg[c].run, id |-> leg[c].answers]
    <2>1. /\ leg[c].st = "paused" /\ leg' = [leg EXCEPT ![c] = Front!Idle]
          /\ parked' = (parked \ Front!Entry(leg[c].session, leg[c].run)) \cup {e}
          /\ UNCHANGED <<owner, pauses, saved, ungated>>
      BY <1>7 DEF Front!Park
    <2>2. /\ leg[c] # Front!Idle /\ leg[c].run \in Runs /\ leg[c].session \in Sessions
          /\ leg[c].answers \in Nat
      BY <1>0, <2>1, IdleIsNoLeg DEF Leg, Stream
    <2>3. /\ e.session = owner[e.run] /\ saved[e.run] = e.id /\ e.run = leg[c].run
          /\ \A p \in parked : p.run # e.run
          /\ e \in [session : Sessions, run : Runs, id : Nat]
      BY <1>0, <2>1, <2>2 DEF LegIsSound
    <2> HIDE DEF e
    <2>4. parked' = parked \cup {e}
      BY <2>1, <2>3 DEF Front!Entry
    <2>5. GatewayTypes'
      BY <2>1, <2>3, <2>4 DEF GatewayInv, GatewayTypes, Leg, Stream
    <2>6. ASSUME NEW p \in parked' PROVE EntryIsSound(p)'
      BY <2>1, <2>3, <2>4 DEF GatewayInv, EntryIsSound
    <2>7. \A d \in Clients : leg'[d] = IF d = c THEN Front!Idle ELSE leg[d]
      BY <1>0, <2>1
    <2>8. ASSUME NEW d \in Clients PROVE LegIsSound(d)'
      <3>1. leg'[d] # Front!Idle => d # c /\ leg'[d] = leg[d] /\ leg[d].run # leg[c].run
        BY <1>0, <2>2, <2>7 DEF LegIsSound
      <3> QED BY <1>0, <2>1, <2>3, <2>4, <2>7, <3>1 DEF LegIsSound
    <2> QED BY <2>5, <2>6, <2>8 DEF GatewayInv
  <1> QED BY <1>1, <1>2, <1>3, <1>4, <1>5, <1>6, <1>7 DEF Front!Next

\* What the gateway promises follows.
LEMMA GatewayPromises ==
    ASSUME GatewayInv
    PROVE  Front!OneDriver /\ Front!SessionsAreSeparate /\ Front!ParkedIsPaused
  <1>1. \A c \in Clients : leg[c].st = "driving" => leg[c] # Front!Idle
    BY IdleIsNoLeg DEF GatewayInv, GatewayTypes
  <1> QED BY <1>1 DEF GatewayInv, LegIsSound, EntryIsSound, Front!OneDriver,
             Front!SessionsAreSeparate, Front!ParkedIsPaused

-----------------------------------------------------------------------------
(***************************************************************************)
(* The run manager.                                                        *)
(***************************************************************************)
Rec ==
    [status : {"absent", "queued", "running", "requires_action"} \cup Manager!_TERMINAL,
     aborted : BOOLEAN, approval : {"none", "waiting"} \cup Manager!Action,
     error : {"none", "error", "paused"}, events : Seq(Manager!Event)]
Row == [status : {"absent", "queued"} \cup Manager!Event, lease : {"none", "active", "released"},
        approval : {"none", "pending"} \cup Manager!Action]
Passed == Manager!Event \cup {Manager!End}
Channel == [run : Runs \cup {NoRun}, queue : Seq(Passed), seen : Seq(Passed)]

ManagerTypes ==
    /\ records \in [Runs -> Rec]
    /\ tasks \in [Runs -> Manager!Task]
    /\ table \subseteq Runs
    /\ streams \in [Watchers -> Channel]
    /\ durable \in [Runs -> Row]
    /\ parks \in [Runs -> Nat]
    /\ decisions \in [Runs -> Nat]

\* The record of a run, the place t of its drive task, its durable row, how often it has
\* parked and been decided, and whether the table knows it, fit together.
RunFits(rec, t, row, parksOf, decisionsOf, known) ==
    /\ rec.status = "absent" <=> t = "none"
    /\ rec.status = "queued" <=> t = "created"
    /\ rec.status = "running" <=> t \in {"run", "resume", "resume_cancel"}
    /\ rec.status = "requires_action" <=> t = "parked"
    /\ rec.status \in Manager!_TERMINAL <=> t = "ended"
    /\ rec.approval # "none" <=> t = "parked"
    /\ rec.approval = "waiting" => parksOf = decisionsOf + 1
    /\ rec.approval # "waiting" => parksOf = decisionsOf
    /\ row.lease = "none" <=> t = "none"
    /\ row.lease = "released" <=> t = "ended"
    /\ t \notin {"none", "ended"} => known

RunIsSound(r) ==
    RunFits(records[r], tasks[r], durable[r], parks[r], decisions[r], r \in table)

\* The events of a run as a stream has to show them.
Shown(rec) == rec.events \o (IF rec.status \in Manager!_TERMINAL THEN <<Manager!End>> ELSE <<>>)

StreamIsSound(c) ==
    IF streams[c].run = NoRun THEN streams[c].seen = <<>> /\ streams[c].queue = <<>>
    ELSE streams[c].seen \o streams[c].queue = Shown(records[streams[c].run])

\* The inductive invariant of the run manager.
ManagerInv ==
    /\ ManagerTypes
    /\ \A r \in Runs : RunIsSound(r)
    /\ \A c \in Watchers : StreamIsSound(c)

LEMMA ManagerInitially == Manager!Init => ManagerInv
  <1> SUFFICES ASSUME Manager!Init PROVE ManagerInv
    OBVIOUS
  <1>1. <<>> \in Seq(Manager!Event) /\ <<>> \in Seq(Passed)
    OBVIOUS
  <1>2. ManagerTypes
    BY <1>1 DEF Manager!Init, ManagerTypes, Rec, Row, Channel, Manager!Task
  <1>3. ASSUME NEW r \in Runs PROVE RunIsSound(r)
    BY DEF Manager!Init, RunIsSound, RunFits, Manager!_TERMINAL
  <1>4. ASSUME NEW c \in Watchers PROVE StreamIsSound(c)
    BY DEF Manager!Init, StreamIsSound
  <1> QED BY <1>2, <1>3, <1>4 DEF ManagerInv

\* A step about run r: the other runs stay as they are, and stay known unless they are over.
LEMMA RunMoves ==
    ASSUME ManagerInv, NEW r \in Runs,
           NEW rec \in Rec, records' = [records EXCEPT ![r] = rec],
           NEW t \in Manager!Task, tasks' = [tasks EXCEPT ![r] = t],
           NEW row \in Row, durable' = [durable EXCEPT ![r] = row],
           NEW m \in Nat, parks' = [parks EXCEPT ![r] = m],
           NEW n \in Nat, decisions' = [decisions EXCEPT ![r] = n],
           table' \subseteq Runs,
           \A q \in table : q # r /\ ~Manager!Ended(q) => q \in table',
           RunFits(rec, t, row, m, n, r \in table'),
           streams' \in [Watchers -> Channel],
           \A c \in Watchers : StreamIsSound(c)'
    PROVE  ManagerInv'
  <1>1. ManagerTypes'
    BY DEF ManagerInv, ManagerTypes
  <1>2. ASSUME NEW q \in Runs PROVE RunIsSound(q)'
    <2>1. CASE q = r
      <3>1. /\ records'[q] = rec /\ tasks'[q] = t /\ durable'[q] = row /\ parks'[q] = m
            /\ decisions'[q] = n
        BY <2>1 DEF ManagerInv, ManagerTypes
      <3> QED BY <2>1, <3>1 DEF RunIsSound
    <2>2. CASE q # r
      <3>1. /\ records'[q] = records[q] /\ tasks'[q] = tasks[q] /\ durable'[q] = durable[q]
            /\ parks'[q] = parks[q] /\ decisions'[q] = decisions[q]
        BY <2>2 DEF ManagerInv, ManagerTypes
      <3>2. RunIsSound(q)
        BY DEF ManagerInv
      <3>3. tasks[q] \notin {"none", "ended"} => q \in table /\ ~Manager!Ended(q)
        BY <3>2 DEF RunIsSound, RunFits, Manager!Ended
      <3>4. tasks[q] \notin {"none", "ended"} => q \in table'
        BY <2>2, <3>3
      <3> QED BY <3>1, <3>2, <3>4 DEF RunIsSound, RunFits
    <2> QED BY <2>1, <2>2
  <1> QED BY <1>1, <1>2 DEF ManagerInv

\* Streams stay right when a step shows nothing new.
LEMMA NothingShown ==
    ASSUME ManagerInv, NEW r \in Runs, NEW rec \in Rec, records' = [records EXCEPT ![r] = rec],
           rec.events = records[r].events,
           rec.status \in Manager!_TERMINAL <=> records[r].status \in Manager!_TERMINAL,
           UNCHANGED streams
    PROVE  streams' \in [Watchers -> Channel] /\ \A c \in Watchers : StreamIsSound(c)'
  <1>1. \A q \in Runs : Shown(records'[q]) = Shown(records[q])
    BY DEF ManagerInv, ManagerTypes, Shown
  <1> QED BY <1>1 DEF ManagerInv, ManagerTypes, StreamIsSound, Channel

LEMMA Reassociate ==
    ASSUME NEW s \in Seq(Passed), NEW t \in Seq(Passed), NEW u \in Seq(Passed)
    PROVE  s \o (t \o u) = (s \o t) \o u
  OBVIOUS

\* _emit: every stream of the run gets the event, and the end behind a terminal one.
LEMMA EmitIsShown ==
    ASSUME ManagerInv, NEW r \in Runs, NEW event \in Manager!Event,
           NEW rec \in Rec, records' = [records EXCEPT ![r] = rec],
           rec.events = Append(records[r].events, event),
           rec.status \in Manager!_TERMINAL <=> event \in Manager!_TERMINAL,
           records[r].status \notin Manager!_TERMINAL,
           streams' = Manager!Fed(r, event)
    PROVE  streams' \in [Watchers -> Channel] /\ \A c \in Watchers : StreamIsSound(c)'
  <1> DEFINE X == IF event \in Manager!_TERMINAL THEN <<event, Manager!End>> ELSE <<event>>
             E == IF event \in Manager!_TERMINAL THEN <<Manager!End>> ELSE <<>>
  <1>1. /\ X \in Seq(Passed) /\ E \in Seq(Passed) /\ <<event>> \in Seq(Passed)
        /\ X = <<event>> \o E
    <2>1. event \in Passed /\ Manager!End \in Passed
      BY DEF Passed
    <2>2. CASE event \in Manager!_TERMINAL
      <3>1. X = <<event, Manager!End>> /\ E = <<Manager!End>>
        BY <2>2
      <3> HIDE DEF X, E
      <3> QED BY <2>1, <3>1
    <2>3. CASE event \notin Manager!_TERMINAL
      <3>1. X = <<event>> /\ E = <<>>
        BY <2>3
      <3> HIDE DEF X, E
      <3> QED BY <2>1, <3>1
    <2> QED BY <2>2, <2>3
  <1>2. \A q \in Runs : records[q].events \in Seq(Manager!Event)
    BY DEF ManagerInv, ManagerTypes, Rec
  <1>3. records[r].events \in Seq(Passed)
    BY <1>2 DEF Passed
  <1>4. Shown(records[r]) = records[r].events
    BY <1>2 DEF Shown
  <1>5. Shown(records'[r]) = records[r].events \o X
    <2>1. records'[r] = rec
      BY DEF ManagerInv, ManagerTypes
    <2>2. Shown(rec) = Append(records[r].events, event) \o E
      BY DEF Shown
    <2>3. Append(records[r].events, event) = records[r].events \o <<event>>
      BY <1>3, AppendIsConcat DEF Passed
    <2>4. (records[r].events \o <<event>>) \o E = records[r].events \o (<<event>> \o E)
      <3> HIDE DEF E
      <3>1. <<event>> \in Seq(Passed) /\ E \in Seq(Passed)
        BY <1>1
      <3> QED BY <1>3, <3>1, Reassociate, Zenon
    <2> QED BY <1>1, <2>1, <2>2, <2>3, <2>4
  <1> HIDE DEF X, E
  <1>6. ASSUME NEW c \in Watchers PROVE streams'[c] \in Channel /\ StreamIsSound(c)'
    <2>1. streams[c] \in Channel /\ StreamIsSound(c)
      BY DEF ManagerInv, ManagerTypes
    <2>2. CASE streams[c].run = r
      <3>1. streams'[c] = [streams[c] EXCEPT !.queue = @ \o X]
        BY <2>2 DEF Manager!Fed, X
      <3>2. streams[c].seen \in Seq(Passed) /\ streams[c].queue \in Seq(Passed)
        BY <2>1 DEF Channel
      <3>3. /\ streams'[c] \in Channel /\ streams'[c].run = r /\ streams'[c].seen = streams[c].seen
            /\ streams'[c].queue = streams[c].queue \o X
        <4> DEFINE longer == streams[c].queue \o X
        <4>1. longer \in Seq(Passed) /\ streams'[c] = [streams[c] EXCEPT !.queue = longer]
          BY <1>1, <3>1, <3>2, ConcatProperties
        <4> HIDE DEF longer
        <4>2. /\ streams'[c] \in Channel /\ streams'[c].run = r
              /\ streams'[c].seen = streams[c].seen /\ streams'[c].queue = longer
          BY <2>1, <2>2, <4>1 DEF Channel
        <4> QED BY <4>2 DEF longer
      <3>4. r # NoRun
        BY ManagerAssumption DEF Manager!ManagerAssumption
      <3>5. streams[c].seen \o (streams[c].queue \o X) = (streams[c].seen \o streams[c].queue) \o X
        <4>1. X \in Seq(Passed)
          BY <1>1
        <4> QED BY <3>2, <4>1, Reassociate, Zenon
      <3>6. streams[c].seen \o streams[c].queue = records[r].events
        BY <1>4, <2>1, <2>2, <3>4 DEF StreamIsSound
      <3> QED BY <1>5, <3>3, <3>4, <3>5, <3>6 DEF StreamIsSound
    <2>3. CASE streams[c].run # r
      <3>1. streams'[c] = streams[c]
        BY <2>3 DEF Manager!Fed
      <3>2. streams[c].run # NoRun => records'[streams[c].run] = records[streams[c].run]
        BY <2>1, <2>3 DEF ManagerInv, ManagerTypes, Channel
      <3> QED BY <2>1, <3>1, <3>2 DEF StreamIsSound
    <2> QED BY <2>2, <2>3
  <1>7. streams' = [c \in Watchers |-> streams'[c]]
    BY DEF Manager!Fed
  <1> QED BY <1>6, <1>7

\* What is known of a run before a step.
LEMMA RunKnown ==
    ASSUME ManagerInv, NEW r \in Runs
    PROVE  /\ records[r] \in Rec /\ tasks[r] \in Manager!Task /\ durable[r] \in Row
           /\ parks[r] \in Nat /\ decisions[r] \in Nat /\ RunIsSound(r)
           /\ records = [records EXCEPT ![r] = records[r]]
           /\ tasks = [tasks EXCEPT ![r] = tasks[r]]
           /\ durable = [durable EXCEPT ![r] = durable[r]]
           /\ parks = [parks EXCEPT ![r] = parks[r]]
           /\ decisions = [decisions EXCEPT ![r] = decisions[r]]
           /\ table \subseteq Runs
  BY DEF ManagerInv, ManagerTypes

\* POST /v1/runs: the run is new, and eviction takes only runs that are over.
LEMMA StartKeeps == ASSUME ManagerInv, NEW r \in Runs, Manager!start(r) PROVE ManagerInv'
  <1> DEFINE rec == [records[r] EXCEPT !.status = "queued"]
             row == [durable[r] EXCEPT !.status = "queued", !.lease = "active"]
  <1>1. /\ records[r].status = "absent"
        /\ records' = [records EXCEPT ![r] = rec]
        /\ table' = Manager!_evict(table \cup {r}, r)
        /\ tasks' = [tasks EXCEPT ![r] = "created"]
        /\ durable' = [durable EXCEPT ![r] = row]
        /\ UNCHANGED <<streams, parks, decisions, stopped>>
    BY RunKnown DEF Manager!start
  <1>2. /\ rec \in Rec /\ rec.status = "queued" /\ rec.approval = records[r].approval
        /\ rec.events = records[r].events
    BY RunKnown DEF Rec
  <1>3. row \in Row /\ row.lease = "active"
    BY RunKnown DEF Row
  <1> HIDE DEF rec, row
  <1>4. /\ table' \subseteq Runs /\ r \in table'
        /\ \A q \in table : ~Manager!Ended(q) => q \in table'
    BY <1>1, RunKnown DEF Manager!_evict
  <1>5. RunFits(records[r], tasks[r], durable[r], parks[r], decisions[r], r \in table)
    BY RunKnown DEF RunIsSound
  <1>6. RunFits(rec, "created", row, parks[r], decisions[r], r \in table')
    BY <1>1, <1>2, <1>3, <1>4, <1>5 DEF RunFits, Manager!_TERMINAL
  <1>7. streams' \in [Watchers -> Channel] /\ \A c \in Watchers : StreamIsSound(c)'
    BY <1>1, <1>2, NothingShown DEF Manager!_TERMINAL
  <1>8. "created" \in Manager!Task
    BY DEF Manager!Task
  <1> QED BY <1>1, <1>2, <1>3, <1>4, <1>6, <1>7, <1>8, RunKnown, RunMoves

\* POST /v1/runs/{id}/approval: the one future of this pause is resolved.
LEMMA ApproveKeeps ==
    ASSUME ManagerInv, NEW r \in Runs, NEW action \in Manager!Action, Manager!approve(r, action)
    PROVE  ManagerInv'
  <1> DEFINE rec == [records[r] EXCEPT !.approval = action]
             row == [durable[r] EXCEPT !.approval = action]
             n == decisions[r] + 1
  <1>1. /\ records[r].status = "requires_action" /\ records[r].approval = "waiting"
        /\ records' = [records EXCEPT ![r] = rec]
        /\ durable' = [durable EXCEPT ![r] = row]
        /\ decisions' = [decisions EXCEPT ![r] = n]
        /\ UNCHANGED <<tasks, table, streams, parks, stopped>>
    BY RunKnown DEF Manager!approve
  <1>2. /\ rec \in Rec /\ rec.status = records[r].status /\ rec.approval = action
        /\ rec.events = records[r].events
    BY RunKnown DEF Rec
  <1>3. row \in Row /\ row.lease = durable[r].lease
    BY RunKnown DEF Row
  <1>4. n \in Nat /\ parks[r] = n
    BY <1>1, RunKnown DEF RunIsSound, RunFits
  <1> HIDE DEF rec, row, n
  <1>5. action # "none" /\ action # "waiting"
    BY DEF Manager!Action
  <1>6. RunFits(rec, tasks[r], row, parks[r], n, r \in table)
    BY <1>1, <1>2, <1>3, <1>4, <1>5, RunKnown DEF RunFits, RunIsSound
  <1>7. streams' \in [Watchers -> Channel] /\ \A c \in Watchers : StreamIsSound(c)'
    BY <1>1, <1>2, NothingShown
  <1> QED BY <1>1, <1>2, <1>3, <1>4, <1>6, <1>7, RunKnown, RunMoves

\* POST /v1/runs/{id}/stop: it answers the future only if nobody has.
LEMMA StopKeeps == ASSUME ManagerInv, NEW r \in Runs, Manager!stop(r) PROVE ManagerInv'
  <1> DEFINE rec == [records[r] EXCEPT !.aborted = TRUE,
                                       !.approval = IF @ = "waiting" THEN "cancel" ELSE @]
             n == IF records[r].approval = "waiting" THEN decisions[r] + 1 ELSE decisions[r]
  <1>1. /\ records' = [records EXCEPT ![r] = rec]
        /\ decisions' = [decisions EXCEPT ![r] = n]
        /\ UNCHANGED <<tasks, table, streams, durable, parks>>
    BY RunKnown DEF Manager!stop
  <1>2. /\ rec \in Rec /\ rec.status = records[r].status /\ rec.events = records[r].events
        /\ rec.approval = IF records[r].approval = "waiting" THEN "cancel"
                          ELSE records[r].approval
    BY RunKnown DEF Rec, Manager!Action
  <1>3. /\ n \in Nat
        /\ n = IF records[r].approval = "waiting" THEN decisions[r] + 1 ELSE decisions[r]
    BY RunKnown
  <1> HIDE DEF rec, n
  <1>4. RunFits(rec, tasks[r], durable[r], parks[r], n, r \in table)
    <2>1. CASE records[r].approval = "waiting"
      BY <1>2, <1>3, <2>1, RunKnown DEF RunFits, RunIsSound
    <2>2. CASE records[r].approval # "waiting"
      BY <1>2, <1>3, <2>2, RunKnown DEF RunFits, RunIsSound
    <2> QED BY <2>1, <2>2
  <1>5. streams' \in [Watchers -> Channel] /\ \A c \in Watchers : StreamIsSound(c)'
    BY <1>1, <1>2, NothingShown
  <1> QED BY <1>1, <1>2, <1>3, <1>4, <1>5, RunKnown, RunMoves

\* The drive task takes the decision up.
LEMMA ResumeKeeps == ASSUME ManagerInv, NEW r \in Runs, Manager!ResumeDecided(r) PROVE ManagerInv'
  <1> DEFINE rec == [records[r] EXCEPT !.approval = "none", !.status = "running"]
             t == IF records[r].approval = "cancel" THEN "resume_cancel" ELSE "resume"
  <1>1. /\ tasks[r] = "parked" /\ records[r].approval \in Manager!Action
        /\ records' = [records EXCEPT ![r] = rec]
        /\ tasks' = [tasks EXCEPT ![r] = t]
        /\ UNCHANGED <<table, streams, durable, parks, decisions, stopped>>
    BY RunKnown DEF Manager!ResumeDecided
  <1>2. /\ rec \in Rec /\ rec.status = "running" /\ rec.events = records[r].events
        /\ rec.approval = "none"
    BY RunKnown DEF Rec
  <1>3. t \in {"resume", "resume_cancel"} /\ t \in Manager!Task
    BY DEF Manager!Task
  <1> HIDE DEF rec, t
  <1>4. records[r].approval # "waiting" /\ records[r].status = "requires_action"
    BY <1>1, RunKnown DEF Manager!Action, RunIsSound, RunFits
  <1>5. RunFits(rec, t, durable[r], parks[r], decisions[r], r \in table)
    BY <1>1, <1>2, <1>3, <1>4, RunKnown DEF RunFits, RunIsSound, Manager!_TERMINAL
  <1>6. streams' \in [Watchers -> Channel] /\ \A c \in Watchers : StreamIsSound(c)'
    BY <1>1, <1>2, <1>4, NothingShown DEF Manager!_TERMINAL
  <1> QED BY <1>1, <1>2, <1>3, <1>5, <1>6, RunKnown, RunMoves

\* A step of the drive task that emits an event.
LEMMA EmitKeeps ==
    ASSUME ManagerInv, NEW r \in Runs, NEW event \in Manager!Event, NEW base \in Rec,
           NEW row \in Row, Manager!_emit(r, base, event, row),
           base.events = records[r].events,
           base.status \in Manager!_TERMINAL <=> event \in Manager!_TERMINAL,
           records[r].status \notin Manager!_TERMINAL,
           NEW t \in Manager!Task, tasks' = [tasks EXCEPT ![r] = t],
           NEW m \in Nat, parks' = [parks EXCEPT ![r] = m],
           UNCHANGED <<table, decisions>>,
           RunFits(base, t, row, m, decisions[r], r \in table)
    PROVE  ManagerInv'
  <1> DEFINE rec == [base EXCEPT !.events = Append(@, event)]
  <1>1. /\ records' = [records EXCEPT ![r] = rec]
        /\ streams' = Manager!Fed(r, event)
        /\ durable' = [durable EXCEPT ![r] = row]
    BY DEF Manager!_emit
  <1>2. /\ rec \in Rec /\ rec.status = base.status /\ rec.approval = base.approval
        /\ rec.events = Append(records[r].events, event)
    <2> DEFINE longer == Append(base.events, event)
    <2>1. longer \in Seq(Manager!Event)
      BY DEF Rec
    <2> HIDE DEF longer
    <2>2. rec = [base EXCEPT !.events = longer]
      BY DEF longer
    <2>3. /\ [base EXCEPT !.events = longer] \in Rec
          /\ [base EXCEPT !.events = longer].status = base.status
          /\ [base EXCEPT !.events = longer].approval = base.approval
          /\ [base EXCEPT !.events = longer].events = longer
      BY <2>1 DEF Rec
    <2> QED BY <2>2, <2>3 DEF longer
  <1> HIDE DEF rec
  <1>3. streams' \in [Watchers -> Channel] /\ \A c \in Watchers : StreamIsSound(c)'
    BY <1>1, <1>2, EmitIsShown
  <1>4. RunFits(rec, t, row, m, decisions[r], r \in table)
    BY <1>2 DEF RunFits
  <1> QED BY <1>1, <1>2, <1>3, <1>4, RunKnown, RunMoves

\* The durable row that goes with an event.
LEMMA DurableRow ==
    ASSUME ManagerInv, NEW r \in Runs, NEW event \in Manager!Event
    PROVE  /\ Manager!_durable_emit(r, event) \in Row
           /\ Manager!_durable_emit(r, event).lease =
                 IF event \in Manager!_TERMINAL THEN "released" ELSE durable[r].lease
  <1>1. durable[r] \in Row
    BY RunKnown
  <1>2. CASE event \in Manager!_TERMINAL
    BY <1>1, <1>2 DEF Manager!_durable_emit, Row
  <1>3. CASE event \notin Manager!_TERMINAL
    BY <1>1, <1>3 DEF Manager!_durable_emit, Row
  <1> QED BY <1>2, <1>3

\* The task's first step.
LEMMA DriveKeeps == ASSUME ManagerInv, NEW r \in Runs, Manager!_drive(r) PROVE ManagerInv'
  <1> DEFINE base == [records[r] EXCEPT !.status = "running"]
             row == Manager!_durable_emit(r, "started")
  <1>1. /\ tasks[r] = "created" /\ tasks' = [tasks EXCEPT ![r] = "run"]
        /\ Manager!_emit(r, base, "started", row)
        /\ UNCHANGED <<table, parks, decisions, stopped>>
    BY DEF Manager!_drive
  <1>2. /\ base \in Rec /\ base.status = "running" /\ base.approval = records[r].approval
        /\ base.events = records[r].events
    BY RunKnown DEF Rec
  <1>3. /\ "started" \in Manager!Event /\ "started" \notin Manager!_TERMINAL
        /\ "running" \notin Manager!_TERMINAL /\ "run" \in Manager!Task
    BY DEF Manager!Event, Manager!_TERMINAL, Manager!Task
  <1>4. row \in Row /\ row.lease = durable[r].lease
    BY <1>3, DurableRow
  <1> HIDE DEF base, row
  <1>5. records[r].status = "queued" /\ records[r].status \notin Manager!_TERMINAL
    BY <1>1, RunKnown DEF RunIsSound, RunFits, Manager!_TERMINAL
  <1>6. RunFits(base, "run", row, parks[r], decisions[r], r \in table)
    BY <1>1, <1>2, <1>3, <1>4, RunKnown DEF RunIsSound, RunFits
  <1>7. parks[r] \in Nat /\ parks' = [parks EXCEPT ![r] = parks[r]]
    BY <1>1, RunKnown
  <1> QED BY <1>1, <1>2, <1>3, <1>4, <1>5, <1>6, <1>7, EmitKeeps

\* The agent returns paused: a new pause, with a future nobody has answered.
LEMMA ParkKeeps == ASSUME ManagerInv, NEW r \in Runs, Manager!_await_approval(r) PROVE ManagerInv'
  <1> DEFINE base == [records[r] EXCEPT !.status = "requires_action", !.approval = "waiting"]
             emitted == Manager!_durable_emit(r, "requires_action")
             row == [emitted EXCEPT !.approval = "pending"]
             m == parks[r] + 1
  <1>1. /\ Manager!InAgent(r) /\ tasks' = [tasks EXCEPT ![r] = "parked"]
        /\ Manager!_emit(r, base, "requires_action", row)
        /\ parks' = [parks EXCEPT ![r] = m]
        /\ UNCHANGED <<table, decisions, stopped>>
    BY DEF Manager!_await_approval
  <1>2. /\ base \in Rec /\ base.status = "requires_action" /\ base.approval = "waiting"
        /\ base.events = records[r].events
    BY RunKnown DEF Rec
  <1>3. /\ "requires_action" \in Manager!Event /\ "requires_action" \notin Manager!_TERMINAL
        /\ "parked" \in Manager!Task
    BY DEF Manager!Event, Manager!_TERMINAL, Manager!Task
  <1>4. emitted \in Row /\ emitted.lease = durable[r].lease
    BY <1>3, DurableRow
  <1>5. row \in Row /\ row.lease = durable[r].lease
    <2> HIDE DEF emitted
    <2> QED BY <1>4 DEF Row
  <1>6. m \in Nat /\ m = parks[r] + 1
    BY RunKnown
  <1> HIDE DEF base, row, m
  <1>7. /\ tasks[r] \in {"run", "resume", "resume_cancel"}
        /\ records[r].status \notin Manager!_TERMINAL /\ records[r].approval = "none"
    BY <1>1, RunKnown DEF Manager!InAgent, RunIsSound, RunFits
  <1>8. RunFits(base, "parked", row, m, decisions[r], r \in table)
    BY <1>2, <1>3, <1>5, <1>6, <1>7, RunKnown DEF RunIsSound, RunFits
  <1> QED BY <1>1, <1>2, <1>3, <1>5, <1>6, <1>7, <1>8, RunKnown, EmitKeeps

\* The agent's last answer, or its exception.
LEMMA FinalizeKeeps ==
    ASSUME ManagerInv, NEW r \in Runs, NEW output \in Manager!_TERMINAL \cup {"paused"},
           Manager!_finalize(r, output)
    PROVE  ManagerInv'
  <1> DEFINE status == IF output \in {"completed", "cancelled"} THEN output ELSE "failed"
             error == CASE output = "paused" -> "paused"
                        [] output = "failed" -> "error"
                        [] OTHER -> "none"
             base == [records[r] EXCEPT !.status = status, !.error = error]
             row == Manager!_durable_emit(r, status)
  <1>1. /\ Manager!InAgent(r) /\ tasks' = [tasks EXCEPT ![r] = "ended"]
        /\ Manager!_emit(r, base, status, row)
        /\ UNCHANGED <<table, parks, decisions, stopped>>
    BY DEF Manager!_finalize
  <1>2. status \in Manager!_TERMINAL /\ status \in Manager!Event /\ "ended" \in Manager!Task
    BY DEF Manager!_TERMINAL, Manager!Event, Manager!Task
  <1>3. error \in {"none", "error", "paused"}
    OBVIOUS
  <1> HIDE DEF status, error
  <1>4. /\ base \in Rec /\ base.status = status /\ base.approval = records[r].approval
        /\ base.events = records[r].events
    BY <1>2, <1>3, RunKnown DEF Rec
  <1>5. row \in Row /\ row.lease = "released"
    BY <1>2, DurableRow
  <1> HIDE DEF base, row
  <1>6. /\ tasks[r] \in {"run", "resume", "resume_cancel"}
        /\ records[r].status \notin Manager!_TERMINAL
    BY <1>1, RunKnown DEF Manager!InAgent, RunIsSound, RunFits
  <1>7. RunFits(base, "ended", row, parks[r], decisions[r], r \in table)
    BY <1>2, <1>4, <1>5, <1>6, RunKnown DEF RunIsSound, RunFits, Manager!_TERMINAL
  <1>8. parks[r] \in Nat /\ parks' = [parks EXCEPT ![r] = parks[r]]
    BY <1>1, RunKnown
  <1>9. base.status \in Manager!_TERMINAL <=> status \in Manager!_TERMINAL
    BY <1>4
  <1> QED BY <1>1, <1>2, <1>4, <1>5, <1>6, <1>7, <1>8, <1>9, EmitKeeps

\* Only a client's own stream changes.
LEMMA StreamKeeps ==
    ASSUME ManagerInv, NEW c \in Watchers, NEW ch \in Channel,
           streams' = [streams EXCEPT ![c] = ch],
           UNCHANGED <<records, tasks, table, durable, parks, decisions>>,
           IF ch.run = NoRun THEN ch.seen = <<>> /\ ch.queue = <<>>
           ELSE ch.seen \o ch.queue = Shown(records[ch.run])
    PROVE  ManagerInv'
  <1>1. ManagerTypes'
    BY DEF ManagerInv, ManagerTypes
  <1>2. \A r \in Runs : RunIsSound(r)'
    BY DEF ManagerInv, RunIsSound
  <1>3. \A d \in Watchers : streams'[d] = IF d = c THEN ch ELSE streams[d]
    BY DEF ManagerInv, ManagerTypes
  <1>4. \A d \in Watchers : StreamIsSound(d)'
    BY <1>3 DEF ManagerInv, StreamIsSound
  <1> QED BY <1>1, <1>2, <1>4 DEF ManagerInv

\* GET /v1/runs/{id}/events: the history is handed over in one step.
LEMMA SubscribeKeeps ==
    ASSUME ManagerInv, NEW c \in Watchers, NEW r \in Runs, Manager!stream_events(c, r)
    PROVE  ManagerInv'
  <1> DEFINE q == records[r].events \o (IF Manager!Ended(r) THEN <<Manager!End>> ELSE <<>>)
             ch == [streams[c] EXCEPT !.run = r, !.queue = q]
  <1>1. streams[c] \in Channel /\ StreamIsSound(c) /\ records[r] \in Rec
    BY DEF ManagerInv, ManagerTypes
  <1>2. /\ streams[c].run = NoRun /\ streams' = [streams EXCEPT ![c] = ch]
        /\ UNCHANGED <<records, tasks, table, durable, parks, decisions, stopped>>
    BY DEF Manager!stream_events, ManagerInv, ManagerTypes
  <1>3. q \in Seq(Passed) /\ q = Shown(records[r])
    <2>1. records[r].events \in Seq(Passed)
      BY <1>1 DEF Rec, Passed
    <2>2. q = Shown(records[r])
      BY DEF Shown, Manager!Ended
    <2>3. CASE Manager!Ended(r)
      <3>1. <<Manager!End>> \in Seq(Passed)
        BY DEF Passed
      <3>2. q = records[r].events \o <<Manager!End>>
        BY <2>3
      <3> HIDE DEF q
      <3> QED BY <2>1, <2>2, <3>1, <3>2, ConcatProperties
    <2>4. CASE ~Manager!Ended(r)
      BY <2>1, <2>2, <2>4
    <2> QED BY <2>3, <2>4
  <1> HIDE DEF q
  <1>4. streams[c].seen = <<>>
    BY <1>1, <1>2 DEF StreamIsSound
  <1>5. ch \in Channel /\ ch.run = r /\ ch.seen = <<>> /\ ch.queue = q
    BY <1>1, <1>3, <1>4 DEF Channel
  <1>6. r # NoRun
    BY ManagerAssumption DEF Manager!ManagerAssumption
  <1>7. <<>> \o q = q
    BY <1>3
  <1> HIDE DEF ch
  <1> QED BY <1>2, <1>3, <1>5, <1>6, <1>7, StreamKeeps

\* An event is yielded.
LEMMA YieldKeeps == ASSUME ManagerInv, NEW c \in Watchers, Manager!YieldEvent(c) PROVE ManagerInv'
  <1> DEFINE q == streams[c].queue
             s == streams[c].seen
             shorter == Tail(q)
             longer == Append(s, Head(q))
             ch == [streams[c] EXCEPT !.queue = shorter, !.seen = longer]
  <1>1. streams[c] \in Channel /\ StreamIsSound(c)
    BY DEF ManagerInv, ManagerTypes
  <1>2. /\ q # <<>> /\ streams' = [streams EXCEPT ![c] = ch]
        /\ UNCHANGED <<records, tasks, table, durable, parks, decisions, stopped>>
    BY DEF Manager!YieldEvent, ManagerInv, ManagerTypes
  <1>3. q \in Seq(Passed) /\ s \in Seq(Passed)
    BY <1>1 DEF Channel
  <1>4. shorter \in Seq(Passed) /\ longer \in Seq(Passed) /\ longer \o shorter = s \o q
    <2> HIDE DEF q, s
    <2> QED BY <1>2, <1>3
  <1> HIDE DEF shorter, longer
  <1>5. ch \in Channel /\ ch.run = streams[c].run /\ ch.seen = longer /\ ch.queue = shorter
    BY <1>1, <1>4 DEF Channel
  <1>6. ch.run # NoRun /\ s \o q = Shown(records[ch.run])
    BY <1>1, <1>2, <1>5 DEF StreamIsSound
  <1> HIDE DEF ch, q, s
  <1> QED BY <1>2, <1>4, <1>5, <1>6, StreamKeeps

\* Every request, step of a drive task and read of a stream keeps the manager's invariant.
LEMMA ManagerStep == ASSUME ManagerInv, Manager!Next PROVE ManagerInv'
  <1>1. CASE \E r \in Runs : \/ Manager!start(r) \/ Manager!stop(r) \/ Manager!_drive(r)
                             \/ Manager!ResumeDecided(r)
    BY <1>1, StartKeeps, StopKeeps, DriveKeeps, ResumeKeeps
  <1>2. CASE \E r \in Runs : Manager!AgentReturns(r)
    BY <1>2, ParkKeeps, FinalizeKeeps DEF Manager!AgentReturns
  <1>3. CASE \E r \in Runs : \E action \in Manager!Action : Manager!approve(r, action)
    BY <1>3, ApproveKeeps
  <1>4. CASE \E r \in Runs : \E c \in Watchers : Manager!stream_events(c, r)
    BY <1>4, SubscribeKeeps
  <1>5. CASE \E c \in Watchers : Manager!YieldEvent(c)
    BY <1>5, YieldKeeps
  <1> QED BY <1>1, <1>2, <1>3, <1>4, <1>5 DEF Manager!Next

\* What the manager promises follows.
LEMMA ManagerPromises ==
    ASSUME ManagerInv
    PROVE  Manager!LiveRunIsKept /\ Manager!OneDecisionPerPark /\ Manager!StreamIsComplete
  <1>1. Manager!LiveRunIsKept
    BY DEF ManagerInv, RunIsSound, RunFits, Manager!LiveRunIsKept, Manager!Ended
  <1>2. Manager!OneDecisionPerPark
    <2> SUFFICES ASSUME NEW r \in Runs
                 PROVE  decisions[r] <= parks[r] /\ parks[r] <= decisions[r] + 1
      BY DEF Manager!OneDecisionPerPark
    <2> QED BY RunKnown DEF RunIsSound, RunFits
  <1>3. Manager!StreamIsComplete
    BY DEF ManagerInv, StreamIsSound, Shown, Manager!StreamIsComplete, Manager!Ended
  <1> QED BY <1>1, <1>2, <1>3

-----------------------------------------------------------------------------
(***************************************************************************)
(* The control plane.                                                      *)
(***************************************************************************)
ControlInv == LedgerInv /\ ManagerInv /\ GatewayInv

controlVars == <<part, vars, ledgerVars, managerVars, gatewayVars>>

LEMMA ControlInitially == AllInit => ControlInv
  BY LedgerInitially, ManagerInitially, GatewayInitially DEF AllInit, ControlInv

LEMMA LedgerUntouched == ASSUME LedgerInv, UNCHANGED ledgerVars PROVE LedgerInv'
  BY DEF ledgerVars, LedgerInv, Ledger!TypeOK, Ledger!StatesAgree, Ledger!OutcomeIsTruthful,
         PhaseIsKnown, Ledger!Exists

LEMMA ManagerUntouched == ASSUME ManagerInv, UNCHANGED managerVars PROVE ManagerInv'
  BY DEF managerVars, ManagerInv, ManagerTypes, RunIsSound, StreamIsSound

LEMMA GatewayUntouched == ASSUME GatewayInv, UNCHANGED gatewayVars PROVE GatewayInv'
  BY DEF gatewayVars, GatewayInv, GatewayTypes, EntryIsSound, LegIsSound

LEMMA ControlStep == ASSUME ControlInv, [AllNext]_controlVars PROVE ControlInv'
  <1>1. LedgerInv /\ ManagerInv /\ GatewayInv
    BY DEF ControlInv
  <1>2. CASE Next /\ UNCHANGED <<part, ledgerVars, managerVars, gatewayVars>>
    BY <1>1, <1>2, LedgerUntouched, ManagerUntouched, GatewayUntouched DEF ControlInv
  <1>3. CASE Ledger!Next /\ UNCHANGED <<part, vars, managerVars, gatewayVars>>
    BY <1>1, <1>3, LedgerStep, ManagerUntouched, GatewayUntouched DEF ControlInv
  <1>4. CASE Manager!Next /\ UNCHANGED <<part, vars, ledgerVars, gatewayVars>>
    BY <1>1, <1>4, LedgerUntouched, ManagerStep, GatewayUntouched DEF ControlInv
  <1>5. CASE Front!Next /\ UNCHANGED <<part, vars, ledgerVars, managerVars>>
    BY <1>1, <1>5, LedgerUntouched, ManagerUntouched, GatewayStep DEF ControlInv
  <1>6. CASE UNCHANGED controlVars
    BY <1>1, <1>6, LedgerUntouched, ManagerUntouched, GatewayUntouched DEF ControlInv, controlVars
  <1> QED BY <1>2, <1>3, <1>4, <1>5, <1>6 DEF AllNext

\* The ledger's, the manager's and the gateway's invariants hold in every reachable state,
\* for every number of processes, runs, clients, sessions and pauses.
THEOREM ControlInvariant == AllSpec => []ControlInv
  <1>1. AllSpec => AllInit /\ [][AllNext]_controlVars
    BY DEF AllSpec, controlVars
  <1> QED BY <1>1, ControlInitially, ControlStep, PTL

\* "Records the truthful terminal outcome" (_finalize_abort_lifecycle): both stores tell a
\* host the same state, it claims an abort or a completion only if a drive ended so, and a
\* stop that was on the ledger when a drive returned is answered.
THEOREM LedgerTellsTheTruth == AllSpec => []LedgerIsTruthful
  <1>1. ASSUME LedgerInv PROVE LedgerIsTruthful
    <2>1. Ledger!EarlyRequestIsAnswered
      BY <1>1 DEF LedgerInv, PhaseIsKnown, Ledger!EarlyRequestIsAnswered, Ledger!StatesAgree,
                  Ledger!Impl
    <2> QED BY <1>1, <2>1 DEF LedgerInv, LedgerIsTruthful
  <1> QED BY <1>1, ControlInvariant, PTL DEF ControlInv

\* A row that tells how a stop ended never changes again, whoever requests, observes or
\* resolves afterwards.
THEOREM LedgerRowsAreFinal == AllSpec => Ledger!TerminalIsFinal
  <1> DEFINE Final == \A i \in Ledger!Impl :
                 rows[i].state \in Ledger!Terminal => rows'[i].state = rows[i].state
  <1>1. ASSUME LedgerInv, [AllNext]_controlVars PROVE Final
    <2>1. CASE UNCHANGED rows
      BY <2>1
    <2>2. ASSUME NEW claim, CallIsSound(rows', claim) PROVE Final
      BY <1>1, <2>2 DEF CallIsSound, LedgerInv, Ledger!StatesAgree, Ledger!Impl
    <2>3. CASE Ledger!Next
      <3>1. \A w \in Workers : handle[w] \in Reasons \cup {NoReason}
        BY <1>1 DEF LedgerInv, Ledger!TypeOK
      <3>2. CASE \E r \in Reasons \cup {NoReason} : Ledger!HostRequest(r)
        BY <1>1, <2>2, <3>2, RequestIsSound DEF Ledger!HostRequest
      <3>3. CASE \E w \in Workers : Ledger!FinalizeObserves(w)
        BY <1>1, <2>2, <3>1, <3>3, ObservedIsSound DEF Ledger!FinalizeObserves
      <3>4. CASE \E w \in Workers : Ledger!FinalizeRequests(w)
        BY <1>1, <2>2, <3>1, <3>4, RequestIsSound DEF Ledger!FinalizeRequests
      <3>5. CASE \E w \in Workers : Ledger!FinalizeResolves(w)
        <4>1. PICK w \in Workers : Ledger!Resolved(phase[w] = "cancel")
          BY <3>5 DEF Ledger!FinalizeResolves
        <4>2. \E claim : CallIsSound(rows', claim)
          BY <1>1, <4>1, ResolveIsSound
        <4> QED BY <2>2, <4>2
      <3> QED BY <2>1, <2>3, <3>2, <3>3, <3>4, <3>5
              DEF Ledger!Next, Ledger!Finalize, Ledger!HandleAbort, Ledger!Drive, Ledger!Pause,
                  Ledger!DriveEnds, Ledger!Crash, Ledger!_finalize_abort_lifecycle
    <2> QED BY <1>1, <2>1, <2>3 DEF AllNext, controlVars, ledgerVars
  <1>2. ASSUME ControlInv, [AllNext]_controlVars PROVE [Final]_Ledger!vars
    BY <1>1, <1>2 DEF ControlInv
  <1>3. AllSpec => [][AllNext]_controlVars
    BY DEF AllSpec, controlVars
  <1>4. AllSpec => [][Final]_Ledger!vars
    BY <1>2, <1>3, ControlInvariant, PTL
  <1> QED BY <1>4 DEF Ledger!TerminalIsFinal

\* The run manager evicts no run that approvals and stops have to find, takes one decision
\* for a pause, and shows every subscriber every event once and in order; the gateway lets
\* one answer drive a run, keeps sessions apart and lists what the checkpoint store waits
\* for: for every number of runs, subscribers, clients and pauses.
THEOREM ManagerKeepsRuns == AllSpec => []RunsAreKept
  <1>1. ControlInv => RunsAreKept
    BY ManagerPromises, GatewayPromises DEF ControlInv, RunsAreKept
  <1> QED BY <1>1, ControlInvariant, PTL

=============================================================================
