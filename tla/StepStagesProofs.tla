-------------------------- MODULE StepStagesProofs --------------------------
(***************************************************************************)
(* Proofs about the stages of StepStages, for every configuration.  Each   *)
(* stage keeps its own invariant, and a step is one of a single stage.     *)
(***************************************************************************)
EXTENDS StepStages, FiniteSetTheorems, WellFoundedInduction, SequenceTheorems, TLAPS

-----------------------------------------------------------------------------
(***************************************************************************)
(* Compaction.                                                             *)
(***************************************************************************)
Orchestrator == [failures : 0..failure_limit, cooldown : 0..cooldown_attempts,
                 half_open : BOOLEAN, lock : BOOLEAN]
Attempt == [at : {"idle", "prepass", "dispatch", "calling", "raised"},
            mode : {"none", "session_memory", "llm_full", "partial"}]
Transcript == [groups : Nat, view : SUBSET Nat, covers : Nat, folded : SUBSET Nat, skips : Nat]

CompactionTypes ==
    /\ orchestrator \in Orchestrator
    /\ attempt \in [Runs -> Attempt]
    /\ transcript \in [Runs -> Transcript]
    /\ \A r \in Runs : transcript[r].view \subseteq 1 .. transcript[r].groups
    /\ served \in Nat

\* The lock has one holder, which an exception does not make give it back.
LockHasOneHolder ==
    /\ \A r \in Runs : attempt[r].at # "idle" => orchestrator.lock
    /\ \A r, s \in Runs : attempt[r].at # "idle" /\ attempt[s].at # "idle" => r = s

\* The checks that were skipped and those the cooldown still asks for make up the cooldown.
CooldownIsServed ==
    /\ Compact!Open => served + orchestrator.cooldown >= cooldown_attempts
    /\ \A r \in Runs : Compact!Trying(r) /\ Compact!Open => served >= cooldown_attempts
    /\ orchestrator.half_open => Compact!Open /\ orchestrator.cooldown = 0

\* An attempt looks at the whole transcript, and the summaries have absorbed what they cover.
SummaryIsComplete ==
    ~Archives => \A r \in Runs :
        /\ transcript[r].covers <= transcript[r].groups
        /\ 1 .. transcript[r].covers \subseteq transcript[r].folded
        /\ Compact!Trying(r) => transcript[r].view = 1 .. transcript[r].groups

CompactionInv == CompactionTypes /\ LockHasOneHolder /\ CooldownIsServed /\ SummaryIsComplete

LEMMA CompactionConstants ==
    /\ failure_limit \in Nat \ {0} /\ cooldown_attempts \in Nat /\ every_n \in Nat
    /\ Archives \in BOOLEAN /\ MaxGroups \in Nat \ {0}
  BY CompactionAssumption DEF Compact!CompactionAssumption

LEMMA CompactionInitially == Compact!Init => CompactionInv
  <1> SUFFICES ASSUME Compact!Init PROVE CompactionInv
    OBVIOUS
  <1>1. CompactionTypes
    BY CompactionConstants
    DEF Compact!Init, CompactionTypes, Compact!Idle, Orchestrator, Attempt, Transcript
  <1>2. LockHasOneHolder
    BY DEF Compact!Init, LockHasOneHolder, Compact!Idle
  <1>3. CooldownIsServed
    BY CompactionConstants DEF Compact!Init, CooldownIsServed, Compact!Idle, Compact!Open, Compact!Trying
  <1>4. SummaryIsComplete
    BY DEF Compact!Init, SummaryIsComplete, Compact!Idle, Compact!Trying
  <1> QED BY <1>1, <1>2, <1>3, <1>4 DEF CompactionInv

\* A check that starts an attempt finds nobody else in one, and a breaker that is open has
\* served its cooldown.
LEMMA CompactionChecks ==
    ASSUME CompactionInv, NEW r \in Runs, NEW pressure, NEW memory \in BOOLEAN,
           Compact!apply_compaction_if_eligible(r, pressure, memory)
    PROVE  CompactionInv'
  <1> DEFINE decided == Compact!Decide(pressure, memory)
             deferred == Compact!Defers(r, decided.mode, pressure)
             starts == decided.mode # "none" /\ ~deferred
             cooling == Compact!Open /\ orchestrator.cooldown > 0
             probe == orchestrator.half_open \/ (Compact!Open /\ ~cooling)
  <1>1. /\ attempt[r] = Compact!Idle
        /\ orchestrator' = [decided.after EXCEPT !.lock = @ \/ starts]
        /\ attempt' = IF starts
                      THEN [attempt EXCEPT ![r] = [at |-> "prepass", mode |-> decided.mode]]
                      ELSE attempt
        /\ transcript' = [transcript EXCEPT
              ![r].skips = IF ~Compact!Cadence(r, decided.mode) THEN @
                           ELSE IF deferred THEN @ + 1 ELSE 0,
              ![r].view = IF starts THEN 1 .. transcript[r].groups ELSE @]
        /\ served' = IF Compact!Open /\ served < cooldown_attempts /\ ~starts THEN served + 1
                     ELSE served
    BY DEF Compact!apply_compaction_if_eligible
  <1>2. /\ decided.mode \in {"none", "session_memory", "llm_full", "partial"}
        /\ decided.after = [orchestrator EXCEPT
                      !.cooldown = IF cooling THEN @ - 1 ELSE @, !.half_open = probe]
        /\ decided.mode # "none" =>
              ~orchestrator.lock /\ ~cooling
    BY DEF Compact!Decide, Compact!decide_compaction
  <1>3. /\ orchestrator'.failures = orchestrator.failures
        /\ orchestrator'.cooldown = IF cooling THEN orchestrator.cooldown - 1 ELSE orchestrator.cooldown
        /\ orchestrator'.half_open = probe
        /\ orchestrator'.lock = (orchestrator.lock \/ starts)
        /\ orchestrator' = [failures |-> orchestrator'.failures, cooldown |-> orchestrator'.cooldown,
                            half_open |-> orchestrator'.half_open, lock |-> orchestrator'.lock]
    BY <1>1, <1>2 DEF CompactionInv, CompactionTypes, Orchestrator
  <1>4. /\ starts => ~orchestrator.lock /\ ~cooling
        /\ starts \in BOOLEAN /\ cooling \in BOOLEAN /\ deferred \in BOOLEAN
        /\ cooling => Compact!Open
        /\ Compact!Open /\ ~cooling => orchestrator.cooldown = 0
        /\ cooling => orchestrator.cooldown > 0
        /\ probe => orchestrator.half_open \/ (Compact!Open /\ ~cooling)
        /\ probe \in BOOLEAN /\ orchestrator.lock \in BOOLEAN
    <2>1. orchestrator.half_open \in BOOLEAN /\ orchestrator.lock \in BOOLEAN
      BY DEF CompactionInv, CompactionTypes, Orchestrator
    <2>2. Compact!Open \in BOOLEAN
      BY DEF Compact!Open
    <2>3. orchestrator.cooldown \in 0..cooldown_attempts
      BY DEF CompactionInv, CompactionTypes, Orchestrator
    <2>4. Compact!Open /\ ~cooling => orchestrator.cooldown = 0
      BY <2>3, CompactionConstants
    <2> QED BY <1>2, <2>1, <2>2, <2>4 DEF Compact!Defers
  <1> HIDE DEF decided, deferred, starts, cooling, probe
  <1>5. CompactionTypes'
    <2>1. transcript' \in [Runs -> Transcript]
      <3>1. PICK n : n = IF ~Compact!Cadence(r, decided.mode) THEN transcript[r].skips
                         ELSE IF deferred THEN transcript[r].skips + 1 ELSE 0
        OBVIOUS
      <3>2. PICK v : v = IF starts THEN 1 .. transcript[r].groups ELSE transcript[r].view
        OBVIOUS
      <3>3. transcript \in [Runs -> Transcript] /\ transcript[r] \in Transcript
        BY DEF CompactionInv, CompactionTypes
      <3>4. n \in Nat /\ v \in SUBSET Nat
        BY <3>1, <3>2, <3>3 DEF Transcript
      <3>5. transcript' = [transcript EXCEPT ![r].skips = n, ![r].view = v]
        BY <1>1, <3>1, <3>2, <3>3
      <3> QED BY <3>3, <3>4, <3>5 DEF Transcript
    <2>5. \A s \in Runs : transcript'[s].view \subseteq 1 .. transcript'[s].groups
      <3>1. \A s \in Runs : /\ transcript'[s].groups = transcript[s].groups
                            /\ transcript'[s].view \in {transcript[s].view, 1 .. transcript[s].groups}
        BY <1>1 DEF CompactionInv, CompactionTypes, Transcript
      <3> QED BY <3>1 DEF CompactionInv, CompactionTypes
    <2>4. orchestrator' \in Orchestrator
      <3>1. orchestrator'.failures \in 0..failure_limit
        BY <1>3 DEF CompactionInv, CompactionTypes, Orchestrator
      <3>2. orchestrator'.cooldown \in 0..cooldown_attempts
        BY <1>3, <1>4, CompactionConstants DEF CompactionInv, CompactionTypes, Orchestrator
      <3>3. orchestrator'.half_open \in BOOLEAN /\ orchestrator'.lock \in BOOLEAN
        BY <1>3, <1>4
      <3> QED BY <1>3, <3>1, <3>2, <3>3 DEF Orchestrator
    <2>2. attempt' \in [Runs -> Attempt]
      BY <1>1, <1>2 DEF CompactionInv, CompactionTypes, Attempt
    <2>3. served' \in Nat
      BY <1>1 DEF CompactionInv, CompactionTypes
    <2> QED BY <2>4, <2>1, <2>2, <2>3, <2>5 DEF CompactionTypes
  <1>6. \A s \in Runs : \/ attempt'[s] = attempt[s]
                        \/ s = r /\ starts /\ attempt'[s].at = "prepass"
    BY <1>1 DEF CompactionInv, CompactionTypes
  <1>7. LockHasOneHolder'
    <2>1. CASE starts
      <3>1. \A s \in Runs : attempt[s].at = "idle"
        BY <1>4, <2>1 DEF CompactionInv, LockHasOneHolder
      <3> QED BY <1>3, <1>6, <2>1, <3>1 DEF LockHasOneHolder
    <2>2. CASE ~starts
      BY <1>1, <1>3, <2>2 DEF CompactionInv, LockHasOneHolder
    <2> QED BY <2>1, <2>2
  <1>8. CooldownIsServed'
    <2>1. Compact!Open' <=> Compact!Open
      BY <1>3 DEF Compact!Open
    <2>2. Compact!Open => served' + orchestrator'.cooldown >= cooldown_attempts
      <3>1. CASE cooling
        BY <1>1, <1>3, <1>4, <3>1, CompactionConstants
        DEF CompactionInv, CompactionTypes, CooldownIsServed, Orchestrator
      <3>2. CASE ~cooling
        BY <1>1, <1>3, <3>2, CompactionConstants
        DEF CompactionInv, CompactionTypes, CooldownIsServed, Orchestrator
      <3> QED BY <3>1, <3>2, <1>4
    <2>3. ASSUME NEW s \in Runs, Compact!Trying(s)', Compact!Open
          PROVE  served' >= cooldown_attempts
      <3>1. CASE attempt'[s] = attempt[s]
        BY <1>1, <2>3, <3>1, CompactionConstants
        DEF CompactionInv, CompactionTypes, CooldownIsServed, Compact!Trying
      <3>2. CASE starts
        <4>1. orchestrator.cooldown = 0
          BY <1>4, <2>3, <3>2
        <4> QED
          BY <1>1, <2>3, <3>2, <4>1, CompactionConstants
          DEF CompactionInv, CompactionTypes, CooldownIsServed
      <3> QED BY <1>6, <3>1, <3>2
    <2>4. orchestrator'.half_open => Compact!Open /\ orchestrator'.cooldown = 0
      <3>1. CASE orchestrator.half_open
        <4>1. Compact!Open /\ orchestrator.cooldown = 0
          BY <3>1 DEF CompactionInv, CooldownIsServed
        <4> QED BY <1>3, <1>4, <4>1
      <3>2. CASE Compact!Open /\ ~cooling
        <4>1. orchestrator.cooldown = 0
          BY <1>4, <3>2
        <4> QED BY <1>3, <3>2, <4>1
      <3> QED BY <1>3, <1>4, <3>1, <3>2
    <2> QED BY <2>1, <2>2, <2>3, <2>4 DEF CooldownIsServed
  <1>9. SummaryIsComplete'
    <2>1. \A s \in Runs : /\ transcript'[s].covers = transcript[s].covers
                          /\ transcript'[s].groups = transcript[s].groups
                          /\ transcript'[s].folded = transcript[s].folded
                          /\ transcript'[s].view = IF s = r /\ starts THEN 1 .. transcript[s].groups
                                                   ELSE transcript[s].view
      BY <1>1 DEF CompactionInv, CompactionTypes, Transcript
    <2> QED BY <1>6, <2>1 DEF CompactionInv, SummaryIsComplete, Compact!Trying
  <1> QED BY <1>5, <1>7, <1>8, <1>9 DEF CompactionInv

\* Without the retention pass an attempt leaves the view alone, and what an attempt does
\* before it ends touches neither lock nor breaker.
LEMMA CompactionGoesOn ==
    ASSUME CompactionInv, NEW r \in Runs,
           \/ Compact!_apply_jev_compaction_prepass(r) \/ Compact!CallSummary(r)
           \/ Compact!Raises(r) \/ Compact!TranscriptGrows(r)
    PROVE  CompactionInv'
  <1>1. UNCHANGED <<orchestrator, served>>
    BY DEF Compact!_apply_jev_compaction_prepass, Compact!CallSummary, Compact!Raises,
           Compact!TranscriptGrows
  <1>2. /\ attempt' \in [Runs -> Attempt]
        /\ \A s \in Runs : \/ attempt'[s] = attempt[s]
                           \/ /\ attempt[s].at # "idle" /\ attempt'[s].at # "idle"
                              /\ Compact!Trying(s)' => Compact!Trying(s)
    BY DEF Compact!_apply_jev_compaction_prepass, Compact!CallSummary, Compact!Raises, Compact!Dispatched,
           Compact!TranscriptGrows, CompactionInv, CompactionTypes, Attempt, Compact!Trying
  <1>3. /\ transcript' \in [Runs -> Transcript]
        /\ \A s \in Runs : transcript'[s].covers = transcript[s].covers
                           /\ transcript'[s].folded = transcript[s].folded
        /\ ~Archives => \A s \in Runs :
              \/ transcript'[s] = transcript[s]
              \/ /\ transcript'[s].groups = transcript[s].groups + 1
                 /\ attempt'[s].at = "idle"
    <2>1. CASE Compact!_apply_jev_compaction_prepass(r)
      <3>1. PICK archived \in IF Archives THEN SUBSET (1 .. transcript[r].groups - 1) ELSE {{}} :
              transcript' = [transcript EXCEPT ![r].view = @ \ archived]
        BY <2>1 DEF Compact!_apply_jev_compaction_prepass
      <3>2. transcript' \in [Runs -> Transcript]
        BY <3>1 DEF CompactionInv, CompactionTypes, Transcript
      <3>3. ASSUME ~Archives PROVE transcript' = transcript
        <4>1. archived = {}
          BY <3>3
        <4> QED BY <3>1, <4>1 DEF CompactionInv, CompactionTypes, Transcript
      <3> QED BY <3>1, <3>2, <3>3 DEF CompactionInv, CompactionTypes, Transcript
    <2>2. CASE Compact!TranscriptGrows(r)
      BY <2>2 DEF Compact!TranscriptGrows, Compact!Idle, CompactionInv, CompactionTypes, Transcript
    <2>3. CASE UNCHANGED transcript
      BY <2>3 DEF CompactionInv, CompactionTypes
    <2> QED BY <2>1, <2>2, <2>3 DEF Compact!CallSummary, Compact!Raises
  <1>4. CompactionTypes'
    <2>1. \A s \in Runs : transcript'[s].view \subseteq 1 .. transcript'[s].groups
      <3>1. \A s \in Runs : /\ transcript'[s].view \subseteq transcript[s].view
                            /\ transcript'[s].groups \in {transcript[s].groups, transcript[s].groups + 1}
        BY DEF Compact!_apply_jev_compaction_prepass, Compact!CallSummary, Compact!Raises,
               Compact!TranscriptGrows, CompactionInv, CompactionTypes, Transcript
      <3>2. \A s \in Runs : /\ transcript[s].view \subseteq 1 .. transcript[s].groups
                            /\ transcript[s].groups \in Nat
        BY DEF CompactionInv, CompactionTypes, Transcript
      <3> QED BY <3>1, <3>2
    <2> QED BY <1>1, <1>2, <1>3, <2>1 DEF CompactionInv, CompactionTypes
  <1>5. LockHasOneHolder'
    BY <1>1, <1>2 DEF CompactionInv, LockHasOneHolder
  <1>6. CooldownIsServed'
    BY <1>1, <1>2 DEF CompactionInv, CooldownIsServed, Compact!Open, Compact!Trying
  <1>7. SummaryIsComplete'
    <2> SUFFICES ASSUME ~Archives, NEW s \in Runs
                 PROVE  /\ transcript'[s].covers <= transcript'[s].groups
                        /\ 1 .. transcript'[s].covers \subseteq transcript'[s].folded
                        /\ Compact!Trying(s)' => transcript'[s].view = 1 .. transcript'[s].groups
      BY DEF SummaryIsComplete
    <2>1. transcript[s].covers \in Nat /\ transcript[s].groups \in Nat
      BY DEF CompactionInv, CompactionTypes, Transcript
    <2>2. Compact!Trying(s)' => Compact!Trying(s)
      BY <1>2 DEF Compact!Trying
    <2> QED BY <1>3, <2>1, <2>2 DEF CompactionInv, SummaryIsComplete, Compact!Trying
  <1> QED BY <1>4, <1>5, <1>6, <1>7 DEF CompactionInv

\* The end of an attempt gives the lock back, and a failure that leaves the breaker open
\* begins a cooldown of its own.
LEMMA CompactionAttemptEnds ==
    ASSUME CompactionInv, NEW r \in Runs, Compact!Trying(r),
           NEW outcome_ \in {"failed", "success", "neutral"}, Compact!Completes(r, outcome_)
    PROVE  /\ orchestrator' \in Orchestrator /\ served' \in Nat
           /\ attempt' \in [Runs -> Attempt]
           /\ \A s \in Runs : attempt'[s].at = "idle"
           /\ LockHasOneHolder' /\ CooldownIsServed'
  <1> DEFINE failures == IF orchestrator.failures < failure_limit
                         THEN orchestrator.failures + 1 ELSE failure_limit
             opens == outcome_ = "failed" /\ failures = failure_limit
             f == CASE outcome_ = "failed" -> failures
                    [] outcome_ = "success" -> 0
                    [] OTHER -> orchestrator.failures
             d == CASE opens -> cooldown_attempts
                    [] outcome_ = "success" -> 0
                    [] OTHER -> orchestrator.cooldown
  <1>1. /\ orchestrator' = [failures |-> f, cooldown |-> d, half_open |-> FALSE, lock |-> FALSE]
        /\ served' = IF outcome_ = "failed" THEN 0 ELSE served
        /\ attempt' = [attempt EXCEPT ![r] = Compact!Idle]
    BY DEF Compact!Completes, Compact!complete_attempt
  <1>2. orchestrator.failures \in 0..failure_limit /\ orchestrator.cooldown \in 0..cooldown_attempts
    BY DEF CompactionInv, CompactionTypes, Orchestrator
  <1>3. failures \in 0..failure_limit
    BY <1>2, CompactionConstants
  <1>4. /\ f \in 0..failure_limit /\ d \in 0..cooldown_attempts
        /\ outcome_ = "failed" => f = failures
        /\ outcome_ = "success" => f = 0
        /\ outcome_ = "neutral" => f = orchestrator.failures /\ d = orchestrator.cooldown
        /\ outcome_ = "failed" /\ failures = failure_limit => d = cooldown_attempts
    <2>1. CASE outcome_ = "failed"
      BY <1>2, <1>3, <2>1, CompactionConstants
    <2>2. CASE outcome_ = "success"
      BY <1>2, <1>3, <2>2, CompactionConstants
    <2>3. CASE outcome_ = "neutral"
      BY <1>2, <1>3, <2>3, CompactionConstants
    <2> QED BY <2>1, <2>2, <2>3
  <1> HIDE DEF f, d, opens
  <1>5. orchestrator' \in Orchestrator
    BY <1>1, <1>4 DEF Orchestrator
  <1>6. served' \in Nat
    BY <1>1 DEF CompactionInv, CompactionTypes
  <1>7. attempt' \in [Runs -> Attempt] /\ \A s \in Runs : attempt'[s].at = "idle"
    <2>1. \A s \in Runs : s # r => attempt[s].at = "idle"
      BY DEF CompactionInv, LockHasOneHolder, Compact!Trying
    <2>2. Compact!Idle \in Attempt /\ Compact!Idle.at = "idle"
      BY DEF Compact!Idle, Attempt
    <2> QED BY <1>1, <2>1, <2>2 DEF CompactionInv, CompactionTypes
  <1>8. LockHasOneHolder'
    BY <1>7 DEF LockHasOneHolder
  <1>9. CooldownIsServed'
    <2>1. Compact!Open' <=> f >= failure_limit
      BY <1>1 DEF Compact!Open
    <2>2. ASSUME f >= failure_limit PROVE served' + orchestrator'.cooldown >= cooldown_attempts
      <3>1. CASE outcome_ = "failed"
        BY <1>1, <1>3, <1>4, <2>2, <3>1, CompactionConstants
      <3>2. CASE outcome_ = "success"
        BY <1>4, <2>2, <3>2, CompactionConstants
      <3>3. CASE outcome_ = "neutral"
        BY <1>1, <1>4, <2>2, <3>3 DEF CompactionInv, CooldownIsServed, Compact!Open
      <3> QED BY <3>1, <3>2, <3>3
    <2>3. \A s \in Runs : ~Compact!Trying(s)'
      BY <1>7 DEF Compact!Trying
    <2>4. ~orchestrator'.half_open
      BY <1>1
    <2> QED BY <2>1, <2>2, <2>3, <2>4 DEF CooldownIsServed
  <1> QED BY <1>5, <1>6, <1>7, <1>8, <1>9

\* The instance counts as the library does.
LEMMA CompactionCounts ==
    ASSUME NEW S PROVE Compact!Cardinality(S) = Cardinality(S)
  BY DEF Compact!Cardinality, Cardinality, Compact!IsFiniteSet, IsFiniteSet

\* What a summary of the whole transcript takes in is what the one before does not cover.
LEMMA SliceIsTheRest ==
    ASSUME CompactionInv, ~Archives, NEW r \in Runs, Compact!Trying(r), config.rolling
    PROVE  /\ Cardinality(transcript[r].view) = transcript[r].groups
           /\ 1 .. transcript[r].groups \subseteq transcript[r].folded \cup Compact!Slice(r)
           /\ Compact!Slice(r) \subseteq Nat
  <1>1. /\ transcript[r].view = 1 .. transcript[r].groups
        /\ transcript[r].groups \in Nat /\ transcript[r].covers \in Nat
        /\ 1 .. transcript[r].covers \subseteq transcript[r].folded
    BY DEF CompactionInv, SummaryIsComplete, CompactionTypes, Transcript
  <1>2. ASSUME NEW g \in 1 .. transcript[r].groups
        PROVE  Cardinality({h \in transcript[r].view : h <= g}) = g
    <2>1. {h \in transcript[r].view : h <= g} = 1 .. g
      BY <1>1
    <2>2. g \in Int /\ 1 \in Int /\ ~(1 > g)
      BY <1>1
    <2>3. Cardinality(1 .. g) = IF 1 > g THEN 0 ELSE g - 1 + 1
      BY <2>2, FS_Interval
    <2>4. Cardinality(1 .. g) = g
      BY <2>2, <2>3
    <2> QED BY <2>1, <2>4
  <1>3. \A g \in 1 .. transcript[r].groups : g > transcript[r].covers => g \in Compact!Slice(r)
    BY <1>1, <1>2, CompactionCounts DEF Compact!Slice
  <1>4. Cardinality(transcript[r].view) = transcript[r].groups
    <2>1. PICK g : g = transcript[r].groups /\ g \in Nat
      BY <1>1
    <2>2. g \in Int /\ 1 \in Int
      BY <2>1
    <2>3. Cardinality(1 .. g) = IF 1 > g THEN 0 ELSE g - 1 + 1
      BY <2>2, FS_Interval, Zenon
    <2>4. Cardinality(1 .. g) = g
      BY <2>1, <2>3
    <2> QED BY <1>1, <2>1, <2>4
  <1> QED BY <1>1, <1>3, <1>4 DEF Compact!Slice

LEMMA CompactionStep ==
    ASSUME CompactionInv, Compact!Next
    PROVE  CompactionInv'
  <1>1. PICK r \in Runs : \/ Compact!Check(r) \/ Compact!Step(r) \/ Compact!Raises(r)
                          \/ Compact!TranscriptGrows(r)
    BY DEF Compact!Next
  <1>2. CASE Compact!Check(r)
    BY <1>2, CompactionChecks DEF Compact!Check
  <1>3. CASE \/ Compact!_apply_jev_compaction_prepass(r) \/ Compact!CallSummary(r)
             \/ Compact!Raises(r) \/ Compact!TranscriptGrows(r)
    BY <1>3, CompactionGoesOn
  <1>4. ASSUME Compact!Trying(r), NEW outcome_ \in {"failed", "success", "neutral"},
               Compact!Completes(r, outcome_),
               \/ UNCHANGED transcript
               \/ transcript' = [transcript EXCEPT ![r] = Compact!_reset_rolling_summary_state(r)]
               \/ /\ config.rolling
                  /\ transcript' = [transcript EXCEPT
                        ![r].folded = @ \cup Compact!Slice(r),
                        ![r].covers = Compact!Cardinality(transcript[r].view)]
                  /\ Compact!Cardinality(transcript[r].view) \in Nat
                  /\ Compact!Slice(r) \subseteq Nat
        PROVE  CompactionInv'
    <2>1. /\ orchestrator' \in Orchestrator /\ served' \in Nat
          /\ attempt' \in [Runs -> Attempt]
          /\ \A s \in Runs : attempt'[s].at = "idle"
          /\ LockHasOneHolder' /\ CooldownIsServed'
      BY <1>4, CompactionAttemptEnds
    <2>2. transcript \in [Runs -> Transcript]
      BY DEF CompactionInv, CompactionTypes
    <2>3. transcript' \in [Runs -> Transcript]
      <3>1. CASE transcript' = [transcript EXCEPT ![r] = Compact!_reset_rolling_summary_state(r)]
        <4>1. Compact!_reset_rolling_summary_state(r) \in Transcript
          BY <2>2 DEF Transcript, Compact!_reset_rolling_summary_state
        <4> QED BY <2>2, <3>1, <4>1
      <3>2. ASSUME NEW n \in Nat, NEW S \in SUBSET Nat,
                   transcript' = [transcript EXCEPT ![r].folded = @ \cup S, ![r].covers = n]
            PROVE  transcript' \in [Runs -> Transcript]
        BY <2>2, <3>2 DEF Transcript
      <3> QED BY <1>4, <2>2, <3>1, <3>2
    <2>7. \A s \in Runs : transcript'[s].view \subseteq 1 .. transcript'[s].groups
      <3>1. \A s \in Runs : /\ transcript'[s].view = transcript[s].view
                            /\ transcript'[s].groups = transcript[s].groups
        <4>1. CASE transcript' = transcript
          BY <4>1
        <4>2. CASE transcript' = [transcript EXCEPT ![r] = Compact!_reset_rolling_summary_state(r)]
          BY <2>2, <4>2 DEF Transcript, Compact!_reset_rolling_summary_state
        <4>3. ASSUME NEW n, NEW S,
                     transcript' = [transcript EXCEPT ![r].folded = S, ![r].covers = n]
              PROVE  \A s \in Runs : /\ transcript'[s].view = transcript[s].view
                                     /\ transcript'[s].groups = transcript[s].groups
          BY <2>2, <4>3 DEF Transcript
        <4> QED BY <1>4, <4>1, <4>2, <4>3
      <3> QED BY <3>1 DEF CompactionInv, CompactionTypes
    <2>4. \A s \in Runs : ~Compact!Trying(s)'
      BY <2>1 DEF Compact!Trying
    <2>5. ASSUME ~Archives, NEW s \in Runs
          PROVE  /\ transcript'[s].covers <= transcript'[s].groups
                 /\ 1 .. transcript'[s].covers \subseteq transcript'[s].folded
      <3>1. CASE transcript'[s] = transcript[s]
        BY <2>5, <3>1 DEF CompactionInv, SummaryIsComplete
      <3>2. CASE transcript' = [transcript EXCEPT ![r] = Compact!_reset_rolling_summary_state(r)]
        <4>1. CASE s = r
          BY <2>2, <3>2, <4>1 DEF Transcript, Compact!_reset_rolling_summary_state
        <4> QED BY <2>2, <3>1, <3>2, <4>1
      <3>3. CASE /\ config.rolling
                 /\ transcript' = [transcript EXCEPT
                        ![r].folded = @ \cup Compact!Slice(r),
                        ![r].covers = Compact!Cardinality(transcript[r].view)]
        <4>1. CASE s = r
          <5>1. /\ Compact!Cardinality(transcript[r].view) = transcript[r].groups
                /\ 1 .. transcript[r].groups \subseteq transcript[r].folded \cup Compact!Slice(r)
            BY <1>4, <2>5, <3>3, SliceIsTheRest, CompactionCounts
          <5>2. /\ transcript'[s].covers = transcript[r].groups
                /\ transcript'[s].groups = transcript[r].groups
                /\ transcript'[s].folded = transcript[r].folded \cup Compact!Slice(r)
            BY <2>2, <3>3, <4>1, <5>1 DEF Transcript
          <5>3. transcript[r].groups \in Nat
            BY <2>2 DEF Transcript
          <5> QED BY <5>1, <5>2, <5>3
        <4> QED BY <2>2, <3>1, <3>3, <4>1
      <3> QED BY <1>4, <3>1, <3>2, <3>3
    <2>6. SummaryIsComplete'
      BY <2>4, <2>5 DEF SummaryIsComplete
    <2> QED BY <2>1, <2>3, <2>6, <2>7 DEF CompactionInv, CompactionTypes
  <1>5. CASE \/ Compact!_apply_session_memory_compaction(r) \/ Compact!_run_condenser_pipeline_dispatch(r)
             \/ Compact!SummaryFails(r) \/ Compact!_apply_partial_compaction(r)
             \/ Compact!_finalize_unimplemented_compaction_path(r)
    <2>1. Compact!Trying(r)
      BY <1>5
      DEF Compact!_apply_session_memory_compaction, Compact!_run_condenser_pipeline_dispatch,
          Compact!SummaryFails, Compact!_apply_partial_compaction,
          Compact!_finalize_unimplemented_compaction_path, Compact!Dispatched, Compact!Trying
    <2>2. \/ Compact!Completes(r, "failed") /\ UNCHANGED transcript
          \/ Compact!Completes(r, "success") /\ UNCHANGED transcript
          \/ Compact!Completes(r, "neutral") /\ UNCHANGED transcript
          \/ Compact!Completes(r, "success")
             /\ transcript' = [transcript EXCEPT ![r] = Compact!_reset_rolling_summary_state(r)]
      BY <1>5
      DEF Compact!_apply_session_memory_compaction, Compact!_run_condenser_pipeline_dispatch,
          Compact!SummaryFails, Compact!_apply_partial_compaction,
          Compact!_finalize_unimplemented_compaction_path
    <2> QED BY <1>4, <2>1, <2>2
  <1>6. CASE Compact!SummaryReturns(r)
    <2>1. Compact!Trying(r) /\ Compact!Completes(r, "success")
      BY <1>6 DEF Compact!SummaryReturns, Compact!Trying
    <2>2. CASE ~config.rolling
      BY <1>4, <1>6, <2>1, <2>2 DEF Compact!SummaryReturns
    <2>3. CASE config.rolling
      <3>1. transcript' = [transcript EXCEPT
                        ![r].folded = @ \cup Compact!Slice(r),
                        ![r].covers = Compact!Cardinality(transcript[r].view)]
        BY <1>6, <2>3 DEF Compact!SummaryReturns
      <3>2. Compact!Slice(r) \subseteq Nat
        BY DEF Compact!Slice, CompactionInv, CompactionTypes, Transcript
      <3>3. Compact!Cardinality(transcript[r].view) \in Nat
        <4>1. transcript[r].view \subseteq 1 .. transcript[r].groups /\ transcript[r].groups \in Nat
          BY DEF CompactionInv, CompactionTypes, Transcript
        <4>2. IsFiniteSet(transcript[r].view)
          BY <4>1, FS_Interval, FS_Subset
        <4> QED BY <4>2, FS_CardinalityType, CompactionCounts
      <3> QED BY <1>4, <2>1, <2>3, <3>1, <3>2, <3>3
    <2> QED BY <2>2, <2>3
  <1> QED BY <1>1, <1>2, <1>3, <1>5, <1>6 DEF Compact!Step

-----------------------------------------------------------------------------
(* The end of a run. *)

\* What the theorems read of the run's metadata.
Metadata == {"llm_steps", "granted", "synthesis", "plan", "early", "response"}

\* Model calls past the limit are those of a grace, which is granted at the limit.
CallsAreCounted(c, m) ==
    /\ Metadata \subseteq DOMAIN m /\ m.llm_steps \in Nat /\ m.response.n \in Nat
    /\ m.granted = None => m.llm_steps <= c.steps
    /\ m.granted # None => m.granted = c.steps /\ c.grace /\ m.llm_steps <= c.steps + 3

\* The hooks were asked about the answer the run is about to give, and let it pass.
JudgedLast(c) ==
    /\ judged.answer = Ending(c)!_sanitize_terminal_answer
    /\ judged.winner # 0 => /\ ~Ending(c)!FailsClosed(judged.winner)
                            /\ judged.count >= Ending(c)!revision_limit(judged.winner)

\* While the process lives a revision without tools has none, and the observers have not
\* been told before the run commits.
NotYetTold ==
    crashes = 0 => /\ leaked = FALSE /\ (meta.synthesis = TRUE => tools = FALSE)
                   /\ Len(told) <= 1 /\ (step \notin {"committing", "done"} => told = <<>>)

EndingInv(c) ==
    /\ CallsAreCounted(c, meta) /\ CallsAreCounted(c, saved.meta)
    /\ events.n \in Nat /\ crashes \in Nat /\ told \in Seq(Nat \cup {None, "evidence"})
    /\ step # "done" => /\ saved.at \in {"llm_call", "tool_stage", "finalize"}
                        /\ outcome.status = "running"
    /\ step \in {"judging", "completing", "committing"} => meta.plan = "off"
    /\ step \in {"completing", "committing"} => JudgedLast(c)
    /\ step = "committing" => told # <<>> /\ told[Len(told)] = judged.answer
    /\ Ending(c)!EndsAsJudged
    /\ NotYetTold

LEMMA EndingConstants ==
    ASSUME NEW c \in Endings
    PROVE  c.steps \in Nat /\ c.steps > 0
  BY EndingsAssumption DEF Ending!FinalizationAssumption

LEMMA EndingInitially ==
    ASSUME NEW c \in Endings, Ending(c)!Init
    PROVE  EndingInv(c)
  <1>1. PICK p \in c.plans :
          meta = [count |-> [g \in Ending(c)!Gates |-> 0], llm_steps |-> 0, calls |-> 0, used |-> FALSE,
                 worked |-> FALSE, todos |-> "none", plan |-> p, force |-> FALSE, choice |-> "auto",
                 granted |-> None, synthesis |-> FALSE, early |-> FALSE, strong |-> FALSE,
                 violation |-> "none", response |-> Ending(c)!FirstResponse]
    BY DEF Ending!Init
  <1>2. CallsAreCounted(c, meta) /\ meta.synthesis = FALSE
    BY <1>1, EndingConstants DEF CallsAreCounted, Metadata, Ending!FirstResponse
  <1>3. /\ step = "llm_call" /\ saved.at = "llm_call" /\ saved.meta = meta /\ events.n = 0
        /\ crashes = 0 /\ told = <<>> /\ leaked = FALSE /\ outcome.status = "running"
    BY DEF Ending!Init
  <1> QED BY <1>2, <1>3 DEF EndingInv, NotYetTold, Ending!EndsAsJudged

\* A step of the loop that neither calls the model nor grants anything.
Kept(m, n) ==
    /\ Metadata \subseteq DOMAIN n
    /\ n.llm_steps = m.llm_steps /\ n.granted = m.granted /\ n.synthesis = m.synthesis
    /\ n.response = m.response

LEMMA CountedKeeps ==
    ASSUME NEW c, NEW m, NEW g, Metadata \subseteq DOMAIN m
    PROVE  Kept(m, Ending(c)!Counted(m, g)) /\ Ending(c)!Counted(m, g).plan = m.plan
  BY DEF Ending!Counted, Kept, Metadata

\* The tool stage leaves the count of calls and the grace alone.
LEMMA ToolStageKeeps ==
    ASSUME NEW c, NEW effect, NEW heuristic, NEW again, NEW now, NEW judges,
           NEW n, Metadata \subseteq DOMAIN meta,
           n = Ending(c)!_maybe_force_final_answer(
                 Ending(c)!_finalize_tool_stage_transition(
                    Ending(c)!_refresh_force_final_controls(
                       IF Ending(c)!ToolRuns THEN Ending(c)!AfterCall(effect) ELSE meta, heuristic),
                    now, judges), again)
    PROVE  Kept(meta, n[2]) /\ n[1] \in {"llm_call", "finalize"}
  <1> DEFINE called == IF Ending(c)!ToolRuns THEN Ending(c)!AfterCall(effect) ELSE meta
  <1>1. Kept(meta, called)
    BY DEF Ending!AfterCall, Kept, Metadata
  <1>2. ASSUME NEW m, NEW h, Kept(meta, m)
        PROVE  Kept(meta, Ending(c)!_refresh_force_final_controls(m, h))
    BY <1>2 DEF Ending!_refresh_force_final_controls, Kept, Metadata
  <1>3. ASSUME NEW m, Kept(meta, m), NEW signal, NEW repair, NEW verdict,
               NEW p, p = Ending(c)!Judges(m, signal, repair, verdict)
        PROVE  Kept(meta, p[2]) /\ p[1] \in {"llm_call", "finalize"}
    <2>1. PICK r : r = IF signal /\ Ending(c)!_maybe_recovery_gate(m)
                       THEN Ending(c)!Counted(m, "recovery") ELSE m
      OBVIOUS
    <2>2. Kept(meta, r)
      BY <1>3, <2>1, CountedKeeps DEF Kept
    <2>3. PICK counted : counted = Ending(c)!Counted(r, "quality")
      OBVIOUS
    <2>4. Kept(meta, counted)
      BY <2>2, <2>3, CountedKeeps DEF Kept
    <2>5. Kept(meta, [counted EXCEPT !.strong = (verdict = "escalate_strong")])
      BY <2>4 DEF Kept, Metadata
    <2>6. \/ p = <<"llm_call", r>> \/ p = <<"finalize", counted>> \/ p = <<"finalize", r>>
          \/ p = <<"llm_call", [counted EXCEPT !.strong = (verdict = "escalate_strong")]>>
      BY <1>3, <2>1, <2>3 DEF Ending!Judges
    <2> QED BY <2>2, <2>4, <2>5, <2>6
  <1>4. ASSUME NEW m, Kept(meta, m), NEW p,
               p = Ending(c)!_finalize_tool_stage_transition(m, now, judges)
        PROVE  Kept(meta, p[2]) /\ p[1] \in {"llm_call", "finalize"}
    <2>1. PICK early : early = Ending(c)!_maybe_finalize_from_tool_evidence(m, now)
      OBVIOUS
    <2>2. PICK e : e = [m EXCEPT !.early = @ \/ early]
      OBVIOUS
    <2>3. Kept(meta, e)
      BY <1>4, <2>2 DEF Kept, Metadata
    <2>4. PICK g : g = Ending(c)!StageGates[Ending(c)!Min(Ending(c)!Holding(e))]
      OBVIOUS
    <2>5. \/ p = <<"llm_call", m>> \/ p = <<"llm_call", Ending(c)!Counted(e, g)>>
          \/ p = Ending(c)!Judges(e, judges.signal, judges.repair, judges.verdict)
      BY <1>4, <2>1, <2>2, <2>4 DEF Ending!_finalize_tool_stage_transition
    <2>6. Kept(meta, Ending(c)!Counted(e, g))
      BY <2>3, CountedKeeps DEF Kept
    <2> QED BY <1>3, <1>4, <2>3, <2>5, <2>6
  <1>5. PICK m : m = Ending(c)!_refresh_force_final_controls(called, heuristic)
    OBVIOUS
  <1>6. Kept(meta, m)
    BY <1>1, <1>2, <1>5
  <1>7. PICK p : p = Ending(c)!_finalize_tool_stage_transition(m, now, judges)
    OBVIOUS
  <1>8. Kept(meta, p[2]) /\ p[1] \in {"llm_call", "finalize"}
    BY <1>4, <1>6, <1>7
  <1>9. n = p \/ n = <<p[1], Ending(c)!_refresh_force_final_controls(p[2], again)>>
    BY <1>5, <1>7 DEF Ending!_maybe_force_final_answer
  <1> QED BY <1>2, <1>8, <1>9

\* A step that leaves the calls, the grace and the hooks' verdict alone, and does not complete.
LEMMA EndingGoesOn ==
    ASSUME NEW c \in Endings, EndingInv(c), step \notin {"committing", "done"}, Kept(meta, meta'),
           UNCHANGED <<tools, events, told, crashes>>,
           leaked' = FALSE \/ UNCHANGED leaked \/ crashes # 0,
           saved' = saved \/ saved' = [at |-> step', meta |-> meta'],
           \/ /\ step' \in {"llm_call", "tool_stage", "finalize"} /\ UNCHANGED outcome
           \/ step' = "done" /\ outcome'.status \in {"running", "max_steps", "guardrail_blocked"}
           \/ step' = "judging" /\ meta'.plan = "off" /\ UNCHANGED <<saved, outcome>>
    PROVE  EndingInv(c)'
  <1>1. CallsAreCounted(c, meta')
    BY DEF EndingInv, CallsAreCounted, Kept, Metadata
  <1>2. CallsAreCounted(c, saved'.meta)
    BY <1>1 DEF EndingInv
  <1>3. outcome'.status # "completed"
    BY DEF EndingInv
  <1>4. NotYetTold'
    <2>1. SUFFICES ASSUME crashes = 0
                   PROVE  /\ leaked' = FALSE /\ (meta'.synthesis = TRUE => tools' = FALSE)
                          /\ Len(told') <= 1
                          /\ (step' \notin {"committing", "done"} => told' = <<>>)
      BY DEF NotYetTold
    <2>2. /\ leaked = FALSE /\ (meta.synthesis = TRUE => tools = FALSE)
          /\ Len(told) <= 1 /\ (step \notin {"committing", "done"} => told = <<>>)
      BY <2>1 DEF EndingInv, NotYetTold
    <2>3. meta'.synthesis = meta.synthesis /\ tools' = tools /\ told' = told
      BY DEF Kept
    <2>4. leaked' = FALSE
      BY <2>1, <2>2
    <2> QED BY <2>2, <2>3, <2>4
  <1>5. step' # "done" => /\ saved'.at \in {"llm_call", "tool_stage", "finalize"}
                          /\ outcome'.status = "running"
    BY DEF EndingInv
  <1>6. /\ events'.n \in Nat /\ crashes' \in Nat /\ told' \in Seq(Nat \cup {None, "evidence"})
        /\ step' \notin {"completing", "committing"}
        /\ step' \in {"judging", "completing", "committing"} => meta'.plan = "off"
    BY DEF EndingInv
  <1>7. Ending(c)!EndsAsJudged'
    BY <1>3 DEF Ending!EndsAsJudged
  <1> QED BY <1>1, <1>2, <1>4, <1>5, <1>6, <1>7 DEF EndingInv

LEMMA EndingCalls ==
    ASSUME NEW c \in Endings, EndingInv(c),
           Ending(c)!GrantGrace \/ Ending(c)!execute_llm_call_step
    PROVE  EndingInv(c)'
  <1>1. c.steps \in Nat /\ CallsAreCounted(c, meta) /\ CallsAreCounted(c, saved.meta)
    BY EndingConstants DEF EndingInv
  <1>2. /\ step \in {"llm_call", "tool_stage", "finalize"}
        /\ step' \in {"llm_call", "tool_stage", "finalize"}
        /\ UNCHANGED <<tools, told, leaked, outcome, crashes>>
    BY DEF Ending!GrantGrace, Ending!execute_llm_call_step, Ending!AtStep
  <1>3. CallsAreCounted(c, meta') /\ events'.n \in Nat /\ meta'.synthesis = meta.synthesis
    <2>1. CASE Ending(c)!GrantGrace
      <3>1. meta.llm_steps >= c.steps /\ meta.granted = None /\ c.grace
            /\ meta' = [meta EXCEPT !.granted = meta.llm_steps, !.force = TRUE, !.choice = "none"]
            /\ UNCHANGED events
        BY <2>1 DEF Ending!GrantGrace, Ending!Exhausted
      <3>2. meta.llm_steps = c.steps
        BY <1>1, <3>1 DEF CallsAreCounted
      <3>3. /\ Metadata \subseteq DOMAIN meta' /\ meta'.llm_steps = c.steps
            /\ meta'.granted = c.steps /\ meta'.response = meta.response
            /\ meta'.synthesis = meta.synthesis
        BY <1>1, <3>1, <3>2 DEF CallsAreCounted, Metadata
      <3> QED BY <1>1, <3>1, <3>3 DEF CallsAreCounted, EndingInv
    <2>2. CASE Ending(c)!execute_llm_call_step
      <3>1. PICK response : /\ meta' = [meta EXCEPT !.llm_steps = @ + 1, !.response = response]
                            /\ response.n = events.n + 1 /\ events'.n = events.n + 1
        <4>1. PICK text \in c.texts, called \in BOOLEAN, ships \in BOOLEAN :
                 /\ meta' = [meta EXCEPT !.llm_steps = @ + 1,
                       !.response = [text |-> text, calls |-> called,
                          planned |-> ships /\ ~(ships /\ meta.force /\ (meta.choice = "none" \/ ~tools)),
                          suppressed |-> ships /\ meta.force /\ (meta.choice = "none" \/ ~tools),
                          n |-> events.n + 1]]
                 /\ events' = [n |-> events.n + 1,
                       long |-> IF events.long = 0 /\ text = "long" THEN events.n + 1 ELSE events.long]
          BY <2>2 DEF Ending!execute_llm_call_step
        <4>2. PICK response : response = [text |-> text, calls |-> called,
                          planned |-> ships /\ ~(ships /\ meta.force /\ (meta.choice = "none" \/ ~tools)),
                          suppressed |-> ships /\ meta.force /\ (meta.choice = "none" \/ ~tools),
                          n |-> events.n + 1]
          OBVIOUS
        <4>3. response.n = events.n + 1 /\ events'.n = events.n + 1
          BY <4>1, <4>2
        <4> QED BY <4>1, <4>2, <4>3
      <3>2. /\ Metadata \subseteq DOMAIN meta' /\ meta'.llm_steps = meta.llm_steps + 1
            /\ meta'.granted = meta.granted /\ meta'.response = response
            /\ meta'.synthesis = meta.synthesis
        BY <1>1, <3>1 DEF CallsAreCounted, Metadata
      <3>3. events.n \in Nat
        BY DEF EndingInv
      <3>4. meta.llm_steps >= c.steps => meta.granted # None /\ meta.llm_steps - meta.granted <= 2
        BY <2>2 DEF Ending!execute_llm_call_step, Ending!_terminal_from_limits, Ending!Exhausted,
                    Ending!InGrace, Ending!_GRACE_EXTRA_LLM_STEPS
      <3> QED BY <1>1, <3>1, <3>2, <3>3, <3>4 DEF CallsAreCounted
    <2> QED BY <2>1, <2>2
  <1>4. saved' = saved \/ (saved'.at = step' /\ saved'.meta = meta')
    <2>1. CASE Ending(c)!GrantGrace
      BY <2>1 DEF Ending!GrantGrace
    <2>2. CASE Ending(c)!execute_llm_call_step
      <3>1. saved' = [at |-> step', meta |-> meta']
        BY <2>2 DEF Ending!execute_llm_call_step
      <3> QED BY <3>1
    <2> QED BY <2>1, <2>2
  <1>5. /\ saved'.at \in {"llm_call", "tool_stage", "finalize"} /\ outcome'.status = "running"
        /\ CallsAreCounted(c, saved'.meta)
    BY <1>1, <1>2, <1>3, <1>4 DEF EndingInv
  <1>6. NotYetTold'
    BY <1>2, <1>3 DEF EndingInv, NotYetTold
  <1>7. Ending(c)!EndsAsJudged'
    BY <1>5 DEF Ending!EndsAsJudged
  <1>8. crashes' \in Nat /\ told' \in Seq(Nat \cup {None, "evidence"})
    BY <1>2 DEF EndingInv
  <1> QED BY <1>2, <1>3, <1>5, <1>6, <1>7, <1>8 DEF EndingInv

\* The hooks are asked: the run is sent back, fails, or goes on to complete.
LEMMA EndingIsJudged ==
    ASSUME NEW c \in Endings, EndingInv(c), Ending(c)!dispatch_finalize
    PROVE  EndingInv(c)'
  <1>1. /\ step = "judging" /\ meta.plan = "off" /\ UNCHANGED <<events, told, leaked, crashes>>
        /\ outcome.status = "running" /\ saved.at \in {"llm_call", "tool_stage", "finalize"}
        /\ CallsAreCounted(c, meta) /\ CallsAreCounted(c, saved.meta)
    BY DEF EndingInv, Ending!dispatch_finalize
  <1>2. PICK requests, w :
          /\ requests \in SUBSET (DOMAIN c.hooks)
          /\ w = Ending(c)!Winner(requests)
          /\ judged' = [answer |-> Ending(c)!_sanitize_terminal_answer, draft |-> meta.response.n,
                        rejecting |-> requests, winner |-> w, count |-> meta.count["rubric"]]
          /\ \/ w # 0 /\ Ending(c)!Revises(w)
             \/ /\ w # 0 /\ meta.count["rubric"] >= Ending(c)!revision_limit(w) /\ Ending(c)!FailsClosed(w)
                /\ Ending(c)!_fail_finalize_revision_gate([meta EXCEPT !.synthesis = FALSE]) /\ UNCHANGED tools
             \/ /\ w # 0 => meta.count["rubric"] >= Ending(c)!revision_limit(w) /\ ~Ending(c)!FailsClosed(w)
                /\ step' = "completing" /\ meta' = [meta EXCEPT !.synthesis = FALSE]
                /\ UNCHANGED <<tools, saved, outcome>>
    BY DEF Ending!dispatch_finalize
  <1>3. \A b : /\ Kept([meta EXCEPT !.synthesis = b], [meta EXCEPT !.synthesis = b])
               /\ CallsAreCounted(c, [meta EXCEPT !.synthesis = b])
               /\ [meta EXCEPT !.synthesis = b].synthesis = b
               /\ [meta EXCEPT !.synthesis = b].plan = meta.plan
               /\ [meta EXCEPT !.synthesis = b].early = meta.early
               /\ [meta EXCEPT !.synthesis = b].response = meta.response
    BY <1>1 DEF CallsAreCounted, Kept, Metadata
  <1>4. crashes' \in Nat /\ told' \in Seq(Nat \cup {None, "evidence"}) /\ events'.n \in Nat
    BY <1>1 DEF EndingInv
  <1>5. crashes = 0 => leaked' = FALSE /\ told' = <<>> /\ (meta.synthesis = TRUE => tools = FALSE)
    BY <1>1 DEF EndingInv, NotYetTold
  <1>6. CASE Ending(c)!Revises(w)
    <2>1. /\ tools' = (tools /\ ~c.hooks[w].disable)
          /\ meta' = Ending(c)!Counted([meta EXCEPT !.synthesis = c.hooks[w].disable], "rubric")
          /\ step' = "llm_call" /\ saved' = [at |-> step', meta |-> meta'] /\ UNCHANGED outcome
      BY <1>6 DEF Ending!Revises, Ending!_resume_after_finalize
    <2>2. PICK b : b = c.hooks[w].disable
      OBVIOUS
    <2>3. PICK m : m = [meta EXCEPT !.synthesis = b]
      OBVIOUS
    <2>4. CallsAreCounted(c, m) /\ m.synthesis = b
      BY <1>3, <2>3
    <2>5. Kept(m, meta')
      BY <2>1, <2>2, <2>3, <2>4, CountedKeeps DEF CallsAreCounted
    <2>6. CallsAreCounted(c, meta') /\ meta'.synthesis = b
      BY <2>4, <2>5 DEF Kept, CallsAreCounted
    <2>7. meta'.synthesis = TRUE => tools' = FALSE
      <3>1. tools' = (tools /\ ~b)
        BY <2>1, <2>2
      <3>2. b = TRUE => (tools /\ ~b) = FALSE
        OBVIOUS
      <3> QED BY <2>6, <3>1, <3>2
    <2>8. NotYetTold'
      BY <1>1, <1>4, <1>5, <2>7 DEF NotYetTold
    <2>9. Ending(c)!EndsAsJudged'
      BY <1>1, <2>1 DEF Ending!EndsAsJudged
    <2> QED BY <1>1, <1>4, <2>1, <2>6, <2>8, <2>9 DEF EndingInv
  <1>7. CASE Ending(c)!_fail_finalize_revision_gate([meta EXCEPT !.synthesis = FALSE])
    <2>1. /\ step' = "done" /\ outcome'.status = "guardrail_blocked"
          /\ meta' = [meta EXCEPT !.synthesis = FALSE] /\ saved'.meta = meta'
      BY <1>7 DEF Ending!_fail_finalize_revision_gate, Ending!_finish_terminal
    <2>2. CallsAreCounted(c, meta') /\ meta'.synthesis = FALSE
      BY <1>3, <2>1
    <2>3. NotYetTold'
      BY <1>1, <1>4, <1>5, <2>2 DEF NotYetTold
    <2>4. Ending(c)!EndsAsJudged'
      BY <2>1 DEF Ending!EndsAsJudged
    <2> QED BY <1>4, <2>1, <2>2, <2>3, <2>4 DEF EndingInv
  <1>8. CASE /\ w # 0 => meta.count["rubric"] >= Ending(c)!revision_limit(w) /\ ~Ending(c)!FailsClosed(w)
             /\ step' = "completing" /\ meta' = [meta EXCEPT !.synthesis = FALSE]
             /\ UNCHANGED <<tools, saved, outcome>>
    <2>1. /\ CallsAreCounted(c, meta') /\ meta'.synthesis = FALSE /\ meta'.plan = "off"
          /\ meta'.early = meta.early /\ meta'.response = meta.response
      BY <1>1, <1>3, <1>8
    <2>2. NotYetTold'
      BY <1>1, <1>4, <1>5, <2>1 DEF NotYetTold
    <2>3. Ending(c)!EndsAsJudged'
      BY <1>1, <1>8 DEF Ending!EndsAsJudged
    <2>4. JudgedLast(c)'
      <3>1. judged'.winner = w /\ judged'.count = meta.count["rubric"]
            /\ judged'.answer = Ending(c)!_sanitize_terminal_answer
        BY <1>2
      <3>2. Ending(c)!_sanitize_terminal_answer' = Ending(c)!_sanitize_terminal_answer
        BY <2>1 DEF Ending!_sanitize_terminal_answer
      <3>3. Ending(c)!FailsClosed(w) <=> c.hooks[w].closed
        BY DEF Ending!FailsClosed
      <3>5. judged'.winner # 0 => /\ ~(Ending(c)!FailsClosed(judged.winner))'
                                  /\ judged'.count >= Ending(c)!revision_limit(judged'.winner)
        BY <1>8, <3>1, <3>3 DEF Ending!FailsClosed
      <3> QED BY <3>1, <3>2, <3>5 DEF JudgedLast, Ending!revision_limit
    <2> QED BY <1>1, <1>4, <1>8, <2>1, <2>2, <2>3, <2>4 DEF EndingInv
  <1> QED BY <1>2, <1>6, <1>7, <1>8

LEMMA EndingStage ==
    ASSUME NEW c \in Endings, EndingInv(c),
           Ending(c)!LimitEnds \/ Ending(c)!execute_tool_stage_step
    PROVE  EndingInv(c)'
  <1>1. Metadata \subseteq DOMAIN meta
    BY DEF EndingInv, CallsAreCounted
  <1>2. CASE Ending(c)!LimitEnds
    <2>1. /\ step \in {"llm_call", "tool_stage", "finalize"} /\ step' = "done"
          /\ outcome'.status = "max_steps"
          /\ UNCHANGED <<meta, tools, events, saved, judged, told, leaked, crashes>>
      BY <1>2 DEF Ending!LimitEnds, Ending!AtStep, Ending!_finish_terminal
    <2>2. Kept(meta, meta')
      BY <1>1, <2>1 DEF Kept
    <2> QED BY <2>1, <2>2, EndingGoesOn
  <1>3. CASE Ending(c)!execute_tool_stage_step
    <2>1. PICK n : Kept(meta, n[2]) /\ n[1] \in {"llm_call", "finalize"} /\ step' = n[1] /\ meta' = n[2]
      BY <1>1, <1>3, ToolStageKeeps DEF Ending!execute_tool_stage_step
    <2>2. /\ step = "tool_stage" /\ saved' = [at |-> step', meta |-> meta']
          /\ UNCHANGED <<tools, events, judged, told, outcome, crashes>>
      BY <1>3 DEF Ending!execute_tool_stage_step
    <2>3. leaked' = FALSE \/ crashes # 0
      <3>1. leaked' = (leaked \/ (Ending(c)!ToolRuns /\ tools /\ meta.synthesis))
        BY <1>3 DEF Ending!execute_tool_stage_step
      <3>2. ASSUME crashes = 0
            PROVE  leaked = FALSE /\ (meta.synthesis = TRUE => tools = FALSE)
        BY <3>2 DEF EndingInv, NotYetTold
      <3>3. ASSUME crashes = 0
            PROVE  leaked' = FALSE
        <4>1. leaked = FALSE /\ (meta.synthesis => ~tools)
          BY <3>2, <3>3
        <4>2. ~(leaked \/ (Ending(c)!ToolRuns /\ tools /\ meta.synthesis))
          BY <4>1
        <4> QED BY <3>1, <4>2
      <3> QED BY <3>3
    <2>4. Kept(meta, meta') /\ step' \in {"llm_call", "finalize"}
      BY <2>1
    <2> QED BY <2>2, <2>3, <2>4, EndingGoesOn
  <1> QED BY <1>2, <1>3

\* The gates before the hooks.
LEMMA EndingGates ==
    ASSUME NEW c \in Endings, EndingInv(c),
           Ending(c)!PlanGates \/ Ending(c)!Reprompts \/ Ending(c)!_maybe_finalize_required_evidence
    PROVE  EndingInv(c)'
  <1>1. Metadata \subseteq DOMAIN meta
    BY DEF EndingInv, CallsAreCounted
  <1>2. /\ step = "finalize" /\ UNCHANGED <<tools, events, judged, told, leaked, crashes>>
        /\ outcome.status = "running"
    BY DEF EndingInv, Ending!PlanGates, Ending!Reprompts, Ending!_maybe_finalize_required_evidence
  <1>3. ASSUME NEW m, NEW g, Kept(meta, m), Ending(c)!_resume_after_finalize(m, g)
        PROVE  EndingInv(c)'
    <2>1. /\ meta' = Ending(c)!Counted(m, g) /\ step' = "llm_call"
          /\ saved' = [at |-> step', meta |-> meta'] /\ UNCHANGED outcome
      BY <1>3 DEF Ending!_resume_after_finalize
    <2>2. Kept(meta, meta')
      BY <1>3, <2>1, CountedKeeps DEF Kept
    <2> QED BY <1>2, <2>1, <2>2, EndingGoesOn
  <1>4. CASE Ending(c)!PlanGates
    <2>1. PICK g : \/ Ending(c)!_fail_finalize_revision_gate(meta)
                   \/ Ending(c)!_resume_after_finalize([meta EXCEPT !.choice = "exit"], g)
      BY <1>4 DEF Ending!PlanGates
    <2>2. CASE Ending(c)!_fail_finalize_revision_gate(meta)
      <3>1. /\ step' = "done" /\ outcome'.status = "guardrail_blocked" /\ meta' = meta
            /\ saved' = [at |-> step', meta |-> meta']
        BY <2>2 DEF Ending!_fail_finalize_revision_gate, Ending!_finish_terminal
      <3>2. Kept(meta, meta')
        BY <1>1, <3>1 DEF Kept
      <3> QED BY <1>2, <3>1, <3>2, EndingGoesOn
    <2>3. Kept(meta, [meta EXCEPT !.choice = "exit"])
      BY <1>1 DEF Kept, Metadata
    <2> QED BY <1>3, <2>1, <2>2, <2>3
  <1>5. CASE Ending(c)!Reprompts
    <2>1. PICK ready \in BOOLEAN, same \in BOOLEAN, force \in BOOLEAN :
            LET g == Ending(c)!Reprompt(ready, same)
            IN  Ending(c)!_resume_after_finalize(
                   IF g = "repair"
                   THEN [meta EXCEPT !.force = force, !.choice = IF force THEN "none" ELSE "tool"] ELSE meta, g)
      BY <1>5 DEF Ending!Reprompts
    <2>2. \A b, x : Kept(meta, [meta EXCEPT !.force = b, !.choice = x])
      BY <1>1 DEF Kept, Metadata
    <2>3. Kept(meta, meta)
      BY <1>1 DEF Kept
    <2> QED BY <1>3, <2>1, <2>2, <2>3
  <1>6. CASE Ending(c)!_maybe_finalize_required_evidence
    <2>1. /\ meta' = Ending(c)!Stamped /\ meta.plan = "off"
          /\ \/ /\ Ending(c)!_finish_terminal("guardrail_blocked", None)
                /\ saved' = [at |-> step', meta |-> meta']
             \/ step' = "judging" /\ UNCHANGED <<saved, outcome>>
      BY <1>6 DEF Ending!_maybe_finalize_required_evidence
    <2>2. Kept(meta, meta') /\ meta'.plan = "off"
      BY <1>1, <2>1 DEF Ending!Stamped, Kept, Metadata
    <2>3. \/ /\ step' = "done" /\ outcome'.status = "guardrail_blocked"
             /\ saved' = [at |-> step', meta |-> meta']
          \/ step' = "judging" /\ UNCHANGED <<saved, outcome>>
      BY <2>1 DEF Ending!_finish_terminal
    <2> QED BY <1>2, <2>2, <2>3, EndingGoesOn
  <1> QED BY <1>4, <1>5, <1>6

\* The observers are told, and the run completes.
LEMMA EndingCompletes ==
    ASSUME NEW c \in Endings, EndingInv(c),
           Ending(c)!dispatch_run_completed \/ Ending(c)!Completes
    PROVE  EndingInv(c)'
  <1>1. /\ step \in {"completing", "committing"} /\ meta.plan = "off" /\ JudgedLast(c)
        /\ UNCHANGED <<meta, tools, events, judged, leaked, crashes>>
        /\ outcome.status = "running" /\ saved.at \in {"llm_call", "tool_stage", "finalize"}
        /\ CallsAreCounted(c, meta) /\ CallsAreCounted(c, saved.meta)
        /\ told \in Seq(Nat \cup {None, "evidence"}) /\ crashes' \in Nat /\ events'.n \in Nat
    BY DEF EndingInv, Ending!dispatch_run_completed, Ending!Completes
  <1>2. crashes = 0 => leaked' = FALSE /\ (meta'.synthesis = TRUE => tools' = FALSE)
    BY <1>1 DEF EndingInv, NotYetTold
  <1>3. CASE Ending(c)!dispatch_run_completed
    <2>1. /\ step = "completing" /\ step' = "committing" /\ UNCHANGED <<saved, outcome>>
          /\ told' = Append(told, Ending(c)!_sanitize_terminal_answer)
      BY <1>3 DEF Ending!dispatch_run_completed
    <2>2. Ending(c)!_sanitize_terminal_answer \in Nat \cup {None, "evidence"}
      BY <1>1 DEF Ending!_sanitize_terminal_answer, CallsAreCounted
    <2>3. Ending(c)!_sanitize_terminal_answer = judged.answer
      BY <1>1 DEF JudgedLast
    <2>4. PICK a \in Nat \cup {None, "evidence"} : told' = Append(told, a) /\ a = judged'.answer
      BY <1>1, <2>1, <2>2, <2>3
    <2>5. /\ told' \in Seq(Nat \cup {None, "evidence"}) /\ Len(told') = Len(told) + 1
          /\ told'[Len(told')] = a /\ told' # <<>>
      BY <1>1, <2>4
    <2>6. crashes = 0 => Len(told') <= 1
      BY <2>1, <2>5 DEF EndingInv, NotYetTold
    <2>7. NotYetTold'
      BY <1>1, <1>2, <2>1, <2>6 DEF NotYetTold
    <2>8. JudgedLast(c)'
      <3>1. Ending(c)!_sanitize_terminal_answer' = Ending(c)!_sanitize_terminal_answer
        BY <1>1 DEF Ending!_sanitize_terminal_answer
      <3> QED BY <1>1, <3>1 DEF JudgedLast, Ending!FailsClosed, Ending!revision_limit
    <2>9. Ending(c)!EndsAsJudged'
      BY <1>1, <2>1 DEF Ending!EndsAsJudged
    <2> QED BY <1>1, <2>1, <2>4, <2>5, <2>7, <2>8, <2>9 DEF EndingInv
  <1>4. CASE Ending(c)!Completes
    <2>1. /\ step = "committing" /\ step' = "done" /\ UNCHANGED told /\ saved'.meta = meta
          /\ outcome'.event = Ending(c)!_sanitize_terminal_answer
      BY <1>4 DEF Ending!Completes, Ending!_finish_terminal
    <2>2. told[Len(told)] = judged.answer /\ Ending(c)!_sanitize_terminal_answer = judged.answer
      BY <1>1, <2>1 DEF EndingInv, JudgedLast
    <2>3. judged.winner # 0 => /\ ~c.hooks[judged.winner].closed
                               /\ judged.count >= Ending(c)!revision_limit(judged.winner)
      BY <1>1 DEF JudgedLast, Ending!FailsClosed
    <2>4. Ending(c)!EndsAsJudged'
      BY <1>1, <2>1, <2>2, <2>3 DEF Ending!EndsAsJudged, Ending!revision_limit
    <2>5. NotYetTold'
      BY <1>1, <1>2, <2>1 DEF NotYetTold, EndingInv
    <2> QED BY <1>1, <2>1, <2>4, <2>5 DEF EndingInv
  <1> QED BY <1>3, <1>4

LEMMA EndingStep ==
    ASSUME NEW c \in Endings, EndingInv(c), Ending(c)!Next
    PROVE  EndingInv(c)'
  <1>1. CASE Ending(c)!Crash
    <2>1. /\ step # "done" /\ crashes' = crashes + 1 /\ step' = saved.at /\ meta' = saved.meta
          /\ UNCHANGED <<events, saved, judged, told, leaked, outcome>>
      BY <1>1 DEF Ending!Crash
    <2>2. crashes' \in Nat /\ crashes' # 0
      BY <2>1 DEF EndingInv
    <2>3. /\ step' \in {"llm_call", "tool_stage", "finalize"} /\ outcome'.status = "running"
          /\ CallsAreCounted(c, meta') /\ CallsAreCounted(c, saved'.meta)
          /\ events'.n \in Nat /\ told' \in Seq(Nat \cup {None, "evidence"})
          /\ saved'.at \in {"llm_call", "tool_stage", "finalize"}
      BY <2>1 DEF EndingInv
    <2>4. NotYetTold'
      BY <2>2 DEF NotYetTold
    <2>5. Ending(c)!EndsAsJudged'
      BY <2>3 DEF Ending!EndsAsJudged
    <2> QED BY <2>2, <2>3, <2>4, <2>5 DEF EndingInv
  <1> QED BY <1>1, EndingCalls, EndingStage, EndingGates, EndingIsJudged, EndingCompletes
          DEF Ending!Next, Ending!Step

-----------------------------------------------------------------------------
(* Sets of numbers and their order. *)

\* Every set of numbers has a least one.
LEMMA NatHasLeast ==
    ASSUME NEW S, S \subseteq Nat, S # {}
    PROVE  \E m \in S : \A n \in S : m <= n
  <1> DEFINE Less == {ss \in Nat \X Nat : ss[1] < ss[2]}
  <1>1. IsWellFoundedOn(Less, Nat)
    BY NatLessThanWellFounded DEF OpToRel
  <1>2. ASSUME NEW x \in Nat, NEW y \in Nat, y < x
        PROVE  <<y, x>> \in Less
    BY <1>2
  <1> HIDE DEF Less
  <1>3. PICK m \in S : \A y \in S : <<y, m>> \notin Less
    BY <1>1, WFMin
  <1>4. ASSUME NEW n \in S
        PROVE  m <= n
    <2>1. m \in Nat /\ n \in Nat /\ ~(n < m)
      BY <1>2, <1>3
    <2> QED BY <2>1
  <1> QED BY <1>4

\* The rank of a member of a finite set of numbers: how many are smaller.
RankIn(K, i) == Cardinality({j \in K : j < i})
UpTo(K, i) == {j \in K : j <= i}

\* Ranks grow with the members and leave no number out.
LEMMA RanksAreTheNumbers ==
    ASSUME NEW K, K \subseteq Nat, IsFiniteSet(K)
    PROVE  /\ Cardinality(K) \in Nat
           /\ \A i \in K : RankIn(K, i) \in 0 .. Cardinality(K) - 1
           /\ \A i, j \in K : i < j => RankIn(K, i) < RankIn(K, j)
           /\ \A n \in 0 .. Cardinality(K) - 1 : \E i \in K : RankIn(K, i) = n
  <1>1. Cardinality(K) \in Nat
    BY FS_CardinalityType
  <1>2. ASSUME NEW i \in K
        PROVE  /\ RankIn(K, i) \in Nat /\ IsFiniteSet({j \in K : j < i})
               /\ Cardinality(UpTo(K, i)) = RankIn(K, i) + 1
    <2>1. IsFiniteSet({j \in K : j < i})
      BY FS_Subset
    <2>2. i \notin {j \in K : j < i} /\ UpTo(K, i) = {j \in K : j < i} \cup {i}
      <3>1. i \in Nat /\ ~(i < i) /\ \A j \in K : j <= i <=> j < i \/ j = i
        OBVIOUS
      <3>2. i \notin {j \in K : j < i}
        BY <3>1
      <3>3. \A j : j \in UpTo(K, i) <=> j \in {k \in K : k < i} \cup {i}
        BY <3>1 DEF UpTo
      <3> QED BY <3>2, <3>3
    <2> QED BY <2>1, <2>2, FS_CardinalityType, FS_AddElement DEF RankIn
  <1>3. ASSUME NEW i \in K
        PROVE  RankIn(K, i) \in 0 .. Cardinality(K) - 1
    <2>1. UpTo(K, i) \in SUBSET K
      BY DEF UpTo
    <2>2. Cardinality(UpTo(K, i)) <= Cardinality(K)
      BY <2>1, FS_Subset
    <2>3. RankIn(K, i) \in Nat /\ Cardinality(UpTo(K, i)) = RankIn(K, i) + 1
      BY <1>2
    <2> QED BY <1>1, <2>2, <2>3
  <1>4. ASSUME NEW i \in K, NEW j \in K, i < j
        PROVE  RankIn(K, i) < RankIn(K, j)
    <2>1. \A k \in K : k <= i => k < j
      BY <1>4
    <2>2. UpTo(K, i) \in SUBSET {k \in K : k < j}
      BY <2>1 DEF UpTo
    <2>3. Cardinality(UpTo(K, i)) <= Cardinality({k \in K : k < j})
      BY <1>2, <2>2, FS_Subset
    <2>4. RankIn(K, i) \in Nat /\ Cardinality(UpTo(K, i)) = RankIn(K, i) + 1 /\ RankIn(K, j) \in Nat
      BY <1>2
    <2> QED BY <2>3, <2>4 DEF RankIn
  <1> DEFINE f == [i \in K |-> RankIn(K, i)]
  <1>5. f \in Injection(K, 0 .. Cardinality(K) - 1)
    <2>1. f \in [K -> 0 .. Cardinality(K) - 1]
      BY <1>3
    <2>2. ASSUME NEW i \in K, NEW j \in K, f[i] = f[j]
          PROVE  i = j
      <3>1. RankIn(K, i) = RankIn(K, j) /\ RankIn(K, i) \in Nat /\ i \in Nat /\ j \in Nat
        BY <1>2, <2>2
      <3>2. ~(i < j) /\ ~(j < i)
        BY <1>4, <3>1
      <3> QED BY <3>1, <3>2
    <2> HIDE DEF f
    <2> QED BY <2>1, <2>2 DEF Injection, IsInjective
  <1>6. IsFiniteSet(0 .. Cardinality(K) - 1) /\ Cardinality(0 .. Cardinality(K) - 1) = Cardinality(K)
    <2>1. Cardinality(K) - 1 \in Int /\ 0 \in Int
      BY <1>1
    <2>2. /\ IsFiniteSet(0 .. Cardinality(K) - 1)
          /\ Cardinality(0 .. Cardinality(K) - 1)
               = IF 0 > Cardinality(K) - 1 THEN 0 ELSE Cardinality(K) - 1 - 0 + 1
      BY <2>1, FS_Interval
    <2> QED BY <1>1, <2>2
  <1>7. f \in Surjection(K, 0 .. Cardinality(K) - 1)
    <2> HIDE DEF f
    <2> QED BY <1>5, <1>6, FS_Injection
  <1>8. ASSUME NEW n \in 0 .. Cardinality(K) - 1
        PROVE  \E i \in K : RankIn(K, i) = n
    <2>1. PICK i \in K : f[i] = n
      <3> HIDE DEF f
      <3> QED BY <1>7 DEF Surjection
    <2> QED BY <2>1
  <1> QED BY <1>1, <1>3, <1>4, <1>8

-----------------------------------------------------------------------------
(* The tool executor. *)

Envelope == {"none", "denied", "completed", "approval", "clarify", "plan"}

LEMMA ExecutorCounts ==
    ASSUME NEW c, NEW S
    PROVE  Executor(c)!Cardinality(S) = Cardinality(S)
  BY DEF Executor!Cardinality, Cardinality, Executor!IsFiniteSet, IsFiniteSet

IsMerged(M, S) ==
    /\ M \in Seq([i : Nat, env : Envelope])
    /\ \A n \in 1 .. Len(M) : /\ M[n].i \in S /\ M[n].env = sub[M[n].i].env
                              /\ M[n].env # "none"
    /\ \A n, m \in 1 .. Len(M) : n < m => M[n].i < M[m].i
    /\ \A i \in S : sub[i].env # "none" => \E n \in 1 .. Len(M) : M[n].i = i

\* The envelopes of a unit are merged in the order of its calls, one for each call that has one.
LEMMA MergedIsInOrder ==
    ASSUME NEW c, NEW S, S \subseteq Nat, IsFiniteSet(S),
           \A i \in S : sub[i].env \in Envelope,
           NEW M, M = Executor(c)!Merged(S)
    PROVE  IsMerged(M, S)
  <1> DEFINE K == {i \in S : sub[i].env # "none"}
             nth(n) == CHOOSE i \in K : Executor(c)!Cardinality({j \in K : j < i}) = n - 1
  <1>1. K \subseteq Nat /\ IsFiniteSet(K) /\ K \subseteq S
    BY FS_Subset
  <1>2. M = [n \in 1 .. Cardinality(K) |-> [i |-> nth(n), env |-> sub[nth(n)].env]]
    <2>1. M = [n \in 1 .. Executor(c)!Cardinality(K) |-> [i |-> nth(n), env |-> sub[nth(n)].env]]
      BY DEF Executor!Merged
    <2> HIDE DEF K, nth
    <2> QED BY <2>1, ExecutorCounts
  <1>k. \A i \in K : sub[i].env # "none" /\ sub[i].env \in Envelope
    OBVIOUS
  <1>l. \A i \in S : sub[i].env # "none" => i \in K
    OBVIOUS
  <1> HIDE DEF K
  <1>3. /\ Cardinality(K) \in Nat
        /\ \A i \in K : RankIn(K, i) \in 0 .. Cardinality(K) - 1
        /\ \A i, j \in K : i < j => RankIn(K, i) < RankIn(K, j)
        /\ \A n \in 0 .. Cardinality(K) - 1 : \E i \in K : RankIn(K, i) = n
    BY <1>1, RanksAreTheNumbers
  <1>4. ASSUME NEW n \in 1 .. Cardinality(K)
        PROVE  nth(n) \in K /\ RankIn(K, nth(n)) = n - 1
    <2>1. n - 1 \in 0 .. Cardinality(K) - 1
      BY <1>3
    <2>2. \A i : Executor(c)!Cardinality({j \in K : j < i}) = RankIn(K, i)
      BY ExecutorCounts DEF RankIn
    <2>3. \E i \in K : Executor(c)!Cardinality({j \in K : j < i}) = n - 1
      BY <1>3, <2>1, <2>2
    <2>4. nth(n) \in K /\ Executor(c)!Cardinality({j \in K : j < nth(n)}) = n - 1
      BY <2>3
    <2> QED BY <2>2, <2>4
  <1> HIDE DEF nth
  <1>5. Len(M) = Cardinality(K) /\ DOMAIN M = 1 .. Cardinality(K)
    BY <1>2, <1>3
  <1>6. ASSUME NEW n \in 1 .. Len(M)
        PROVE  /\ M[n] = [i |-> nth(n), env |-> sub[nth(n)].env]
               /\ M[n].i = nth(n) /\ M[n].env = sub[nth(n)].env
    <2>1. M[n] = [i |-> nth(n), env |-> sub[nth(n)].env]
      BY <1>2, <1>5
    <2> QED BY <2>1
  <1>7. ASSUME NEW n \in 1 .. Len(M)
        PROVE  /\ M[n].i \in S /\ M[n].env = sub[M[n].i].env /\ M[n].env # "none"
               /\ M[n] \in [i : Nat, env : Envelope]
    <2>1. nth(n) \in K /\ nth(n) \in Nat /\ nth(n) \in S
      BY <1>1, <1>4, <1>5
    <2>2. sub[nth(n)].env # "none" /\ sub[nth(n)].env \in Envelope
      BY <1>k, <2>1
    <2>3. /\ M[n] = [i |-> nth(n), env |-> sub[nth(n)].env]
          /\ M[n].i = nth(n) /\ M[n].env = sub[nth(n)].env
      BY <1>6
    <2> QED BY <2>1, <2>2, <2>3
  <1>8. M \in Seq([i : Nat, env : Envelope])
    <2>1. M = [n \in 1 .. Cardinality(K) |-> M[n]]
      BY <1>2
    <2>2. \A n \in 1 .. Cardinality(K) : M[n] \in [i : Nat, env : Envelope]
      BY <1>5, <1>7
    <2>3. M \in [1 .. Cardinality(K) -> [i : Nat, env : Envelope]]
      BY <2>1, <2>2
    <2> HIDE DEF nth
    <2>4. \A T, N, x : N \in Nat /\ x \in [1 .. N -> T] => x \in Seq(T)
      OBVIOUS
    <2> QED BY <1>3, <2>3, <2>4, Zenon
  <1>9. ASSUME NEW n \in 1 .. Len(M), NEW m \in 1 .. Len(M), n < m
        PROVE  M[n].i < M[m].i
    <2>1. /\ nth(n) \in K /\ RankIn(K, nth(n)) = n - 1
          /\ nth(m) \in K /\ RankIn(K, nth(m)) = m - 1
      BY <1>4, <1>5
    <2>2. PICK x \in K, y \in K : /\ x = nth(n) /\ y = nth(m)
                                 /\ RankIn(K, x) = n - 1 /\ RankIn(K, y) = m - 1
      BY <2>1
    <2>3. x \in Nat /\ y \in Nat /\ n \in Int /\ m \in Int
      BY <1>1
    <2>4. x # y
      BY <1>9, <2>2, <2>3
    <2>5. ~(y < x)
      BY <1>3, <1>9, <2>2, <2>3
    <2>6. M[n].i = x /\ M[m].i = y
      BY <1>6, <2>2
    <2> QED BY <2>3, <2>4, <2>5, <2>6
  <1>10. ASSUME NEW i \in S, sub[i].env # "none"
         PROVE  \E n \in 1 .. Len(M) : M[n].i = i
    <2>1. i \in K
      BY <1>10, <1>l
    <2>2. RankIn(K, i) + 1 \in 1 .. Len(M)
      BY <1>3, <1>5, <2>1
    <2>3. PICK n \in 1 .. Len(M) : n = RankIn(K, i) + 1
      BY <2>2
    <2>4. nth(n) \in K /\ RankIn(K, nth(n)) = RankIn(K, i)
      BY <1>3, <1>4, <1>5, <2>1, <2>3
    <2>5. PICK x \in K : x = nth(n) /\ RankIn(K, x) = RankIn(K, i)
      BY <2>4
    <2>6. x \in Nat /\ i \in Nat /\ RankIn(K, i) \in Int
      BY <1>1, <1>3, <2>1
    <2>7. ~(x < i) /\ ~(i < x)
      BY <1>3, <2>1, <2>5, <2>6
    <2>8. x = i
      BY <2>6, <2>7
    <2> QED BY <1>6, <2>5, <2>8
  <1> QED BY <1>7, <1>8, <1>9, <1>10 DEF IsMerged

Outcome == [env : Envelope, stop : BOOLEAN]

ExecutorTypes(c) ==
    /\ mode \in c.modes /\ pc \in {"llm", "units", "store", "paused", "end"}
    /\ calls \in Seq([tool : c.tools, approved : BOOLEAN])
    /\ at \in 1 .. Len(calls) + 1
    /\ stage \in [1 .. Len(calls) -> {"idle", "gate", "input", "args", "running", "done"}]
    /\ sub \in [1 .. Len(calls) -> Outcome]
    /\ result \in Seq([i : Nat, env : Envelope])
    /\ interrupt \in 0 .. Len(calls)
    /\ tool_calls \in Nat /\ refunded \in Nat /\ work \in Nat
    /\ ran \subseteq 1 .. Len(calls) /\ refused \subseteq 1 .. Len(calls)

\* A call has an envelope when it is done; one that was refused is done and never ran; those
\* the policy counts are below its limit; and an envelope that interrupts is not one of a
\* handler that works.
CallIsSound(c, i) ==
    /\ stage[i] # "done" => sub[i].env = "none" /\ sub[i].stop = FALSE
    /\ i \in ran => stage[i] \in {"running", "done"}
    /\ i \in refused => stage[i] = "done" /\ i \notin ran
    /\ mode = "allow_tools" /\ (i \in ran \/ stage[i] \notin {"idle", "done"}) => i <= c.policy
    /\ stage[i] = "done" /\ sub[i].env = "none" => calls[i].tool \notin {"read", "write"}
    /\ sub[i].env \in {"approval", "clarify", "plan"} =>
          sub[i].stop = TRUE /\ (i \in ran => calls[i].tool \notin {"read", "write"})
    /\ sub[i].env = "plan" => calls[i].tool = "exit"

\* The calls before next_index are done, those after the unit were not looked at.
UnitsAreInOrder(c) ==
    /\ \A i \in 1 .. at - 1 : stage[i] = "done"
    /\ \A i \in ran : i < at \/ (pc = "units" /\ i \in Executor(c)!Unit)
    /\ pc = "units" => at <= Len(calls)

\* The result holds the envelopes of the calls before next_index, in their order.
ResultIsMerged ==
    /\ \A n \in 1 .. Len(result) : /\ result[n].i \in 1 .. at - 1
                                   /\ result[n].env = sub[result[n].i].env
    /\ \A n, m \in 1 .. Len(result) : n < m => result[n].i < result[m].i
    /\ \A i \in 1 .. at - 1 : sub[i].env # "none" => \E n \in 1 .. Len(result) : result[n].i = i

\* The interrupt is the first of them that interrupts, and the turn stops there.
InterruptIsFirst(c) ==
    /\ pc = "units" => interrupt = 0
    /\ pc = "paused" => interrupt # 0
    /\ interrupt = 0 => \A i \in 1 .. at - 1 : sub[i].env \notin {"approval", "clarify", "plan"}
    /\ interrupt # 0 => /\ interrupt < at /\ sub[interrupt].env \in {"approval", "clarify", "plan"}
                        /\ \A i \in 1 .. interrupt - 1 : sub[i].env \notin {"approval", "clarify", "plan"}
    /\ Executor(c)!NothingPastAnInterrupt

Workers == {i \in 1 .. Len(calls) : calls[i].tool \in {"read", "write"}}
Working == ran \cap Workers

\* The calls that were counted pay for the handlers that ran before this turn, and the turn
\* has no more calls than are left; a pending call has paid for itself.
WorkIsPaid ==
    /\ work >= Cardinality(Working)
    /\ pc \in {"units", "store"} => work - Cardinality(Working) + refunded <= tool_calls
    /\ pc \in {"llm", "paused"} => work + refunded <= tool_calls
    /\ pc = "paused" /\ calls[interrupt].tool # "todo" => work + 1 + refunded <= tool_calls

WorkIsBounded(c) ==
    /\ work <= c.budget
    /\ pc \in {"units", "store", "paused"} =>
          work - Cardinality(Working) + Cardinality(Workers) <= c.budget

ExecutorInv(c) ==
    /\ ExecutorTypes(c) /\ \A i \in 1 .. Len(calls) : CallIsSound(c, i)
    /\ UnitsAreInOrder(c) /\ ResultIsMerged /\ InterruptIsFirst(c)
    /\ RefundsOnce(c) => WorkIsPaid /\ WorkIsBounded(c)

LEMMA ExecutorConstants ==
    ASSUME NEW c \in Executors
    PROVE  /\ c.tools \subseteq {"read", "write", "todo", "ask", "exit", "unknown"}
           /\ c.policy \in Nat /\ c.budget \in Nat /\ c.budget > 0 /\ c.calls \in Nat
           /\ c.hooks \subseteq {"allow", "interrupt", "deny"}
  BY ExecutorsAssumption DEF Executor!ExecutorAssumption

\* What a step of one call may do.
CallMove(c, i, x, o) ==
    /\ pc = "units" /\ i \in Executor(c)!Unit /\ stage[i] # "done"
    /\ stage' = [stage EXCEPT ![i] = x] /\ sub' = [sub EXCEPT ![i] = o]
    /\ x \in {"gate", "input", "args", "running", "done"} /\ o \in Outcome
    /\ x # "done" => o.env = "none" /\ o.stop = FALSE
    /\ stage[i] = "running" => x = "done"
    /\ stage[i] = "idle" /\ mode = "allow_tools" /\ x # "done" => i <= c.policy
    /\ x = "done" /\ o.env = "none" => calls[i].tool \notin {"read", "write"}
    /\ o.env \in {"approval", "clarify", "plan"} =>
          o.stop = TRUE /\ (stage[i] \in {"idle", "gate"} \/ calls[i].tool \notin {"read", "write"})
    /\ o.env = "plan" => calls[i].tool = "exit"
    /\ \/ UNCHANGED <<ran, work>>
       \/ /\ ran' = ran \cup {i} /\ stage[i] = "args" /\ x = "running"
          /\ work' = IF calls[i].tool \in {"read", "write"} THEN work + 1 ELSE work
    /\ \/ UNCHANGED refused
       \/ refused' = refused \cup {i} /\ x = "done" /\ stage[i] \in {"idle", "gate"}
    /\ UNCHANGED <<mode, pc, calls, at, result, interrupt, tool_calls, refunded>>

LEMMA UnitIsAhead ==
    ASSUME NEW c \in Executors, ExecutorTypes(c), NEW i \in Executor(c)!Unit
    PROVE  i \in 1 .. Len(calls) /\ i >= at /\ i \in Nat
  BY DEF ExecutorTypes, Executor!Unit

Decided(i, d, x, o) ==
    /\ stage' = [stage EXCEPT ![i] = x] /\ sub' = [sub EXCEPT ![i] = o]
    /\ x # "done" => o.env = "none" /\ o.stop = FALSE /\ d = "allow"
    /\ x = "done" => o.env \in {"denied", "approval"} /\ (o.env = "approval" => o.stop = TRUE)
    /\ refused' = refused \/ (refused' = refused \cup {i} /\ x = "done")

\* Policy, gate and hooks: the strictest word counts.
LEMMA StrictestCounts ==
    ASSUME NEW c \in Executors, ExecutorTypes(c), NEW i \in 1 .. Len(calls), CallIsSound(c, i),
           stage[i] # "done", NEW d \in {"allow", "deny", "interrupt"}, Executor(c)!Decide(i, d)
    PROVE  \E x \in {"input", "done"}, o \in Outcome : Decided(i, d, x, o)
  <1>1. PICK p, final :
          /\ p \in {"allow", "interrupt", "deny"}
          /\ final = IF Executor(c)!Rank[p] > Executor(c)!Rank[d] THEN p ELSE d
          /\ refused' = IF d = "allow" /\ p = "allow" THEN refused ELSE refused \cup {i}
          /\ CASE final = "deny"      -> Executor(c)!Settle(i, "denied", FALSE)
               [] final = "interrupt" -> Executor(c)!Settle(i, "approval", TRUE)
               [] final = "allow"     -> stage' = [stage EXCEPT ![i] = "input"] /\ UNCHANGED sub
    BY ExecutorConstants DEF Executor!Decide, Executor!tighten_decision
  <1>2. /\ Executor(c)!Rank["allow"] = 0 /\ Executor(c)!Rank["interrupt"] = 1
        /\ Executor(c)!Rank["deny"] = 2
    BY DEF Executor!Rank
  <1>3. final \in {"allow", "interrupt", "deny"} /\ (final = "allow" <=> d = "allow" /\ p = "allow")
    BY <1>1, <1>2
  <1>4. CASE final = "allow"
    <2>1. stage' = [stage EXCEPT ![i] = "input"] /\ sub' = sub /\ refused' = refused /\ d = "allow"
      BY <1>1, <1>3, <1>4
    <2>2. sub[i] \in Outcome /\ sub[i].env = "none" /\ sub[i].stop = FALSE /\ sub = [sub EXCEPT ![i] = sub[i]]
      BY DEF ExecutorTypes, CallIsSound
    <2> QED BY <2>1, <2>2 DEF Decided
  <1>5. ASSUME NEW e \in {"denied", "approval"}, NEW s \in BOOLEAN, e = "approval" => s = TRUE,
               Executor(c)!Settle(i, e, s), final # "allow"
        PROVE  \E x \in {"input", "done"}, o \in Outcome : Decided(i, d, x, o)
    <2>1. PICK o \in Outcome : o = [env |-> e, stop |-> s]
      BY DEF Outcome, Envelope
    <2>2. stage' = [stage EXCEPT ![i] = "done"] /\ sub' = [sub EXCEPT ![i] = o]
      BY <1>5, <2>1 DEF Executor!Settle
    <2>3. o.env \in {"denied", "approval"} /\ (o.env = "approval" => o.stop = TRUE)
      BY <1>5, <2>1
    <2>4. refused' = refused \cup {i}
      BY <1>1, <1>3, <1>5
    <2> QED BY <2>2, <2>3, <2>4 DEF Decided
  <1>6. CASE final = "deny"
    BY <1>1, <1>3, <1>5, <1>6
  <1>7. CASE final = "interrupt"
    BY <1>1, <1>3, <1>5, <1>7
  <1> QED BY <1>3, <1>4, <1>6, <1>7

LEMMA CallStepMoves ==
    ASSUME NEW c \in Executors, ExecutorInv(c), NEW i, Executor(c)!CallStep(i)
    PROVE  \E x, o : CallMove(c, i, x, o)
  <1>1. pc = "units" /\ i \in Executor(c)!Unit
    BY DEF Executor!CallStep, Executor!Enter, Executor!_apply_tool_gate, Executor!on_input,
           Executor!StartHandler, Executor!_allowed_precheck_blocked, Executor!execute_allowed_path,
           Executor!InUnit
  <1>2. UNCHANGED <<mode, pc, calls, at, result, interrupt, tool_calls, refunded>>
    BY DEF Executor!CallStep, Executor!Enter, Executor!_apply_tool_gate, Executor!on_input,
           Executor!StartHandler, Executor!_allowed_precheck_blocked, Executor!execute_allowed_path,
           Executor!Keeps
  <1>3. i \in 1 .. Len(calls) /\ i \in Nat /\ ExecutorTypes(c)
    BY <1>1, UnitIsAhead DEF ExecutorInv
  <1>4. CallIsSound(c, i) /\ sub[i] \in Outcome /\ calls[i] \in [tool : c.tools, approved : BOOLEAN]
    <2>1. CallIsSound(c, i)
      BY <1>3 DEF ExecutorInv
    <2>2. sub[i] \in Outcome
      BY <1>3 DEF ExecutorTypes
    <2>3. calls[i] \in [tool : c.tools, approved : BOOLEAN]
      BY <1>3, ElementOfSeq, Zenon DEF ExecutorTypes
    <2> QED BY <2>1, <2>2, <2>3
  <1>5. stage[i] # "done" => /\ sub[i].env = "none" /\ sub[i].stop = FALSE
                             /\ sub = [sub EXCEPT ![i] = sub[i]]
    BY <1>3, <1>4 DEF CallIsSound, ExecutorTypes
  <1>6. ASSUME NEW d \in {"allow", "deny", "interrupt"}, Executor(c)!Decide(i, d),
               stage[i] \in {"idle", "gate"}, UNCHANGED <<ran, work>>,
               stage[i] = "idle" /\ mode = "allow_tools" /\ d = "allow" => i <= c.policy
        PROVE  \E x, o : CallMove(c, i, x, o)
    <2>0. stage[i] # "done"
      BY <1>6
    <2>1. PICK x \in {"input", "done"}, o \in Outcome : Decided(i, d, x, o)
      BY <1>3, <1>4, <1>6, <2>0, StrictestCounts
    <2>2. CallMove(c, i, x, o)
      BY <1>1, <1>2, <1>6, <2>1 DEF CallMove, Decided
    <2> QED BY <2>2
  <1>7. ASSUME NEW x \in {"gate", "input", "args", "running"}, stage[i] \notin {"running", "done"},
               stage' = [stage EXCEPT ![i] = x], UNCHANGED <<sub, refused>>,
               stage[i] = "idle" /\ mode = "allow_tools" => i <= c.policy,
               \/ UNCHANGED <<ran, work>>
               \/ /\ ran' = ran \cup {i} /\ stage[i] = "args" /\ x = "running"
                  /\ work' = IF calls[i].tool \in {"read", "write"} THEN work + 1 ELSE work
        PROVE  \E y, o : CallMove(c, i, y, o)
    <2>1. PICK o \in Outcome : /\ o.env = "none" /\ o.stop = FALSE /\ sub' = [sub EXCEPT ![i] = o]
      BY <1>4, <1>5, <1>7
    <2>2. CallMove(c, i, x, o)
      BY <1>1, <1>2, <1>7, <2>1 DEF CallMove
    <2> QED BY <2>2
  <1>8. ASSUME NEW e \in Envelope, NEW s \in BOOLEAN, Executor(c)!Settle(i, e, s),
               stage[i] \in {"input", "args", "running"}, UNCHANGED <<ran, refused, work>>,
               e = "none" => calls[i].tool \notin {"read", "write"},
               e \in {"approval", "clarify", "plan"} => s = TRUE /\ calls[i].tool \notin {"read", "write"},
               e = "plan" => calls[i].tool = "exit"
        PROVE  \E x, o : CallMove(c, i, x, o)
    <2>1. PICK o \in Outcome : o = [env |-> e, stop |-> s]
      BY DEF Outcome
    <2>2. o.env = e /\ o.stop = s
      BY <2>1
    <2>3. stage' = [stage EXCEPT ![i] = "done"] /\ sub' = [sub EXCEPT ![i] = o]
      BY <1>8, <2>1 DEF Executor!Settle
    <2>4. CallMove(c, i, "done", o)
      BY <1>1, <1>2, <1>8, <2>2, <2>3 DEF CallMove
    <2> QED BY <2>4
  <1>9. CASE Executor(c)!Enter(i)
    <2>1. stage[i] = "idle" /\ UNCHANGED <<ran, work>>
      BY <1>9 DEF Executor!Enter
    <2>2. PICK s \in Executor(c)!evaluate_tool_policy(i) : \E d \in Executor(c)!Collapsed(i, s) :
             IF d = "allow" /\ ~calls[i].approved
             THEN stage' = [stage EXCEPT ![i] = "gate"] /\ UNCHANGED <<sub, refused>>
             ELSE Executor(c)!Decide(i, d)
      BY <1>9 DEF Executor!Enter
    <2>3. PICK d \in Executor(c)!Collapsed(i, s) :
             IF d = "allow" /\ ~calls[i].approved
             THEN stage' = [stage EXCEPT ![i] = "gate"] /\ UNCHANGED <<sub, refused>>
             ELSE Executor(c)!Decide(i, d)
      BY <2>2
    <2>4. s \in {"allow", "deny", "interrupt"} /\ d \in {"allow", "deny", "interrupt"}
      BY <2>2, <2>3 DEF Executor!evaluate_tool_policy, Executor!Collapsed
    <2>5. mode = "allow_tools" /\ d = "allow" => i <= c.policy
      <3>1. SUFFICES ASSUME mode = "allow_tools", d = "allow", ~(i <= c.policy) PROVE FALSE
        OBVIOUS
      <3>2. i - 1 >= c.policy
        BY <1>3, <3>1, ExecutorConstants
      <3>3. s = "deny"
        BY <2>2, <3>1, <3>2 DEF Executor!evaluate_tool_policy, Executor!CallCount
      <3> QED BY <2>3, <3>1, <3>3 DEF Executor!Collapsed
    <2>6. CASE d = "allow" /\ ~calls[i].approved
      BY <1>7, <2>1, <2>3, <2>5, <2>6
    <2>7. CASE ~(d = "allow" /\ ~calls[i].approved)
      BY <1>6, <2>1, <2>3, <2>4, <2>5, <2>7
    <2> QED BY <2>6, <2>7
  <1>10. CASE Executor(c)!_apply_tool_gate(i)
    BY <1>6, <1>10 DEF Executor!_apply_tool_gate
  <1>11. CASE Executor(c)!on_input(i)
    <2>1. stage[i] = "input" /\ UNCHANGED <<ran, refused, work>>
      BY <1>11 DEF Executor!on_input
    <2>2. \/ Executor(c)!Settle(i, "denied", FALSE)
          \/ stage' = [stage EXCEPT ![i] = "args"] /\ UNCHANGED sub
      BY <1>11 DEF Executor!on_input
    <2> QED BY <1>7, <1>8, <2>1, <2>2 DEF Envelope
  <1>12. CASE Executor(c)!StartHandler(i)
    <2>1. /\ stage[i] = "args" /\ stage' = [stage EXCEPT ![i] = "running"] /\ ran' = ran \cup {i}
          /\ work' = IF calls[i].tool \in {"read", "write"} THEN work + 1 ELSE work
          /\ UNCHANGED <<sub, refused>>
      BY <1>12 DEF Executor!StartHandler, Executor!Executable
    <2> QED BY <1>7, <2>1
  <1>13. CASE Executor(c)!_allowed_precheck_blocked(i)
    BY <1>8, <1>13 DEF Executor!_allowed_precheck_blocked, Envelope
  <1>14. CASE Executor(c)!execute_allowed_path(i)
    <2>1. stage[i] = "running" /\ UNCHANGED <<ran, refused, work>>
      BY <1>14 DEF Executor!execute_allowed_path
    <2>2. PICK o \in Executor(c)!Outcomes(calls[i]) : Executor(c)!Settle(i, o.env, o.stop)
      BY <1>14 DEF Executor!execute_allowed_path
    <2>3. /\ o.env \in {"none", "denied", "completed", "clarify", "plan"} /\ o.stop \in BOOLEAN
          /\ o.env = "none" => calls[i].tool = "exit"
          /\ o.env = "clarify" => calls[i].tool = "ask" /\ o.stop = TRUE
          /\ o.env = "plan" => calls[i].tool = "exit" /\ o.stop = TRUE
      <3>0. \A e, s : o = [env |-> e, stop |-> s] => o.env = e /\ o.stop = s
        OBVIOUS
      <3>1. CASE calls[i].tool = "ask"
        <4>1. \/ o = [env |-> "denied", stop |-> FALSE] \/ o = [env |-> "clarify", stop |-> TRUE]
          BY <2>2, <3>1 DEF Executor!Outcomes
        <4> QED BY <3>0, <3>1, <4>1
      <3>2. CASE calls[i].tool = "exit" /\ ~calls[i].approved
        <4>1. \/ o = [env |-> "denied", stop |-> FALSE] \/ o = [env |-> "none", stop |-> FALSE]
              \/ o = [env |-> "denied", stop |-> TRUE] \/ o = [env |-> "plan", stop |-> TRUE]
          BY <2>2, <3>2 DEF Executor!Outcomes, Executor!NotRun
        <4>2. \/ (o.env = "denied" /\ o.stop = FALSE) \/ (o.env = "none" /\ o.stop = FALSE)
              \/ (o.env = "denied" /\ o.stop = TRUE) \/ (o.env = "plan" /\ o.stop = TRUE)
          BY <3>0, <4>1, Zenon
        <4> QED BY <3>2, <4>2
      <3>3. CASE calls[i].tool # "ask" /\ ~(calls[i].tool = "exit" /\ ~calls[i].approved)
        <4>1. \/ o = [env |-> "denied", stop |-> FALSE] \/ o = [env |-> "completed", stop |-> FALSE]
          BY <2>2, <3>3 DEF Executor!Outcomes
        <4> QED BY <3>0, <4>1
      <3> QED BY <3>1, <3>2, <3>3
    <2> QED BY <1>8, <2>1, <2>2, <2>3 DEF Envelope
  <1> QED BY <1>9, <1>10, <1>11, <1>12, <1>13, <1>14 DEF Executor!CallStep

LEMMA WorkersAreCounted ==
    ASSUME NEW c, ExecutorTypes(c)
    PROVE  /\ IsFiniteSet(Workers) /\ IsFiniteSet(Working)
           /\ Cardinality(Workers) \in Nat /\ Cardinality(Working) \in Nat
           /\ Cardinality(Working) <= Cardinality(Workers)
           /\ Cardinality(Workers) <= Len(calls) /\ Len(calls) \in Nat
  <1>1. Len(calls) \in Nat
    BY DEF ExecutorTypes
  <1>2. IsFiniteSet(1 .. Len(calls)) /\ Cardinality(1 .. Len(calls)) = Len(calls)
    <2>1. 1 \in Int /\ Len(calls) \in Int
      BY <1>1
    <2>2. /\ IsFiniteSet(1 .. Len(calls))
          /\ Cardinality(1 .. Len(calls)) = IF 1 > Len(calls) THEN 0 ELSE Len(calls) - 1 + 1
      BY <2>1, FS_Interval
    <2> QED BY <1>1, <2>2
  <1>3. Workers \in SUBSET (1 .. Len(calls)) /\ Working \in SUBSET Workers
    BY DEF Workers, Working
  <1>4. IsFiniteSet(Workers) /\ Cardinality(Workers) <= Len(calls)
    BY <1>2, <1>3, FS_Subset
  <1>5. IsFiniteSet(Working) /\ Cardinality(Working) <= Cardinality(Workers)
    BY <1>3, <1>4, FS_Subset
  <1> QED BY <1>1, <1>4, <1>5, FS_CardinalityType

LEMMA CallMoveKeeps ==
    ASSUME NEW c \in Executors, ExecutorInv(c), NEW i, NEW x, NEW o, CallMove(c, i, x, o)
    PROVE  ExecutorInv(c)'
  <1>1. /\ ExecutorTypes(c) /\ i \in 1 .. Len(calls) /\ i >= at /\ i \in Nat
        /\ CallIsSound(c, i)
    BY UnitIsAhead DEF ExecutorInv, CallMove
  <1>2. UNCHANGED <<mode, pc, calls, at, result, interrupt, tool_calls, refunded>> /\ pc = "units"
    BY DEF CallMove
  <1>3. /\ \A j \in 1 .. Len(calls) : stage'[j] = IF j = i THEN x ELSE stage[j]
        /\ \A j \in 1 .. Len(calls) : sub'[j] = IF j = i THEN o ELSE sub[j]
    BY <1>1 DEF ExecutorTypes, CallMove
  <1>4. ExecutorTypes(c)'
    <2>1. /\ stage' \in [1 .. Len(calls) -> {"idle", "gate", "input", "args", "running", "done"}]
          /\ sub' \in [1 .. Len(calls) -> Outcome]
      BY <1>1 DEF ExecutorTypes, CallMove
    <2>2. work' \in Nat /\ ran' \subseteq 1 .. Len(calls) /\ refused' \subseteq 1 .. Len(calls)
      <3>1. work \in Nat /\ ran \subseteq 1 .. Len(calls) /\ refused \subseteq 1 .. Len(calls)
        BY <1>1 DEF ExecutorTypes
      <3>2. work' = work \/ work' = work + 1
        BY DEF CallMove
      <3>3. ran' \subseteq ran \cup {i} /\ refused' \subseteq refused \cup {i}
        BY DEF CallMove
      <3> QED BY <1>1, <3>1, <3>2, <3>3
    <2>3. /\ mode' \in c.modes /\ pc' \in {"llm", "units", "store", "paused", "end"}
          /\ calls' \in Seq([tool : c.tools, approved : BOOLEAN]) /\ at' \in 1 .. Len(calls') + 1
          /\ result' \in Seq([i : Nat, env : Envelope]) /\ interrupt' \in 0 .. Len(calls')
          /\ tool_calls' \in Nat /\ refunded' \in Nat
      BY <1>1, <1>2 DEF ExecutorTypes
    <2>4. calls' = calls
      BY <1>2
    <2> QED BY <2>1, <2>2, <2>3, <2>4 DEF ExecutorTypes
  <1>5. ASSUME NEW j \in 1 .. Len(calls)
        PROVE  CallIsSound(c, j)'
    <2>1. CASE j # i
      <3>1. /\ stage'[j] = stage[j] /\ sub'[j] = sub[j] /\ (j \in ran' <=> j \in ran)
            /\ (j \in refused' <=> j \in refused)
        BY <1>3, <2>1 DEF CallMove
      <3>2. CallIsSound(c, j)
        BY DEF ExecutorInv
      <3> QED BY <1>2, <3>1, <3>2 DEF CallIsSound
    <2>2. CASE j = i
      <3>1. stage'[i] = x /\ sub'[i] = o
        BY <1>1, <1>3
      <3>2. stage[i] \in {"idle", "gate", "input", "args", "running", "done"}
        BY <1>1 DEF ExecutorTypes
      <3>3. x # "done" => o.env = "none" /\ o.stop = FALSE
        BY DEF CallMove
      <3>4. i \in ran' => x \in {"running", "done"}
        BY <1>1, <3>2 DEF CallMove, CallIsSound
      <3>5. i \in refused' => x = "done" /\ i \notin ran'
        BY <1>1, <3>2 DEF CallMove, CallIsSound
      <3>6. mode = "allow_tools" /\ (i \in ran' \/ x # "done") => i <= c.policy
        <4>1. CASE stage[i] = "idle"
          BY <1>1, <4>1 DEF CallMove, CallIsSound
        <4>2. CASE stage[i] # "idle"
          BY <1>1, <4>2 DEF CallMove, CallIsSound
        <4> QED BY <4>1, <4>2
      <3>7. o.env \in {"approval", "clarify", "plan"} =>
               o.stop = TRUE /\ (i \in ran' => calls[i].tool \notin {"read", "write"})
        BY <1>1, <3>2, <3>3 DEF CallMove, CallIsSound
      <3>8. /\ x = "done" /\ o.env = "none" => calls[i].tool \notin {"read", "write"}
            /\ o.env = "plan" => calls[i].tool = "exit"
        BY DEF CallMove
      <3> QED BY <1>2, <2>2, <3>1, <3>3, <3>4, <3>5, <3>6, <3>7, <3>8 DEF CallIsSound
    <2> QED BY <2>1, <2>2
  <1>6. ASSUME NEW j \in 1 .. at - 1
        PROVE  j \in 1 .. Len(calls) /\ stage'[j] = stage[j] /\ sub'[j] = sub[j]
    <2>1. j \in 1 .. Len(calls) /\ j # i
      BY <1>1 DEF ExecutorTypes
    <2> QED BY <1>3, <2>1
  <1>7. UnitsAreInOrder(c)'
    <2>1. Executor(c)!Unit' = Executor(c)!Unit
      BY <1>2 DEF Executor!Unit, Executor!SameUnit, Executor!is_call_concurrency_safe
    <2>2. i \in Executor(c)!Unit /\ ran' \subseteq ran \cup {i}
      BY DEF CallMove
    <2>3. \A j \in ran' : j < at \/ j \in Executor(c)!Unit
      BY <1>2, <2>2 DEF ExecutorInv, UnitsAreInOrder
    <2>4. \A j \in 1 .. at - 1 : stage'[j] = "done"
      BY <1>6 DEF ExecutorInv, UnitsAreInOrder
    <2>5. at <= Len(calls)
      BY <1>2 DEF ExecutorInv, UnitsAreInOrder
    <2> QED BY <1>2, <2>1, <2>3, <2>4, <2>5 DEF UnitsAreInOrder
  <1>8. ResultIsMerged'
    <2>1. \A n \in 1 .. Len(result) : /\ result[n].i \in 1 .. at - 1
                                      /\ result[n].env = sub'[result[n].i].env
      BY <1>6 DEF ExecutorInv, ResultIsMerged
    <2>2. \A n, m \in 1 .. Len(result) : n < m => result[n].i < result[m].i
      BY DEF ExecutorInv, ResultIsMerged
    <2>3. \A j \in 1 .. at - 1 : sub'[j].env # "none" => \E n \in 1 .. Len(result) : result[n].i = j
      BY <1>6 DEF ExecutorInv, ResultIsMerged
    <2> QED BY <1>2, <2>1, <2>2, <2>3 DEF ResultIsMerged
  <1>9. InterruptIsFirst(c)'
    <2>1. interrupt = 0 /\ \A j \in 1 .. at - 1 : sub[j].env \notin {"approval", "clarify", "plan"}
      BY <1>2 DEF ExecutorInv, InterruptIsFirst
    <2>2. \A j \in 1 .. at - 1 : sub'[j].env \notin {"approval", "clarify", "plan"}
      BY <1>6, <2>1
    <2>3. Executor(c)!NothingPastAnInterrupt'
      BY <1>2, <2>1 DEF Executor!NothingPastAnInterrupt
    <2> QED BY <1>2, <2>1, <2>2, <2>3 DEF InterruptIsFirst
  <1>10. ASSUME RefundsOnce(c)
         PROVE  (WorkIsPaid /\ WorkIsBounded(c))'
    <2>1. WorkIsPaid /\ WorkIsBounded(c)
      BY <1>10 DEF ExecutorInv
    <2>2. /\ IsFiniteSet(Workers) /\ IsFiniteSet(Working)
          /\ Cardinality(Workers) \in Nat /\ Cardinality(Working) \in Nat
          /\ Cardinality(Working) <= Cardinality(Workers)
      BY <1>1, WorkersAreCounted
    <2>3. Workers' = Workers
      BY <1>2 DEF Workers
    <2>4. work \in Nat /\ c.budget \in Nat /\ refunded \in Nat /\ tool_calls \in Nat
      BY <1>1, ExecutorConstants DEF ExecutorTypes
    <2>5. /\ work' - Cardinality(Working') = work - Cardinality(Working) /\ work' \in Nat
          /\ Cardinality(Working') \in Nat
      <3>1. CASE ran' = ran /\ work' = work
        <4>1. Working' = Working
          BY <2>3, <3>1 DEF Working
        <4> QED BY <2>2, <2>4, <3>1, <4>1
      <3>2. CASE /\ ran' = ran \cup {i} /\ stage[i] = "args"
                 /\ work' = IF calls[i].tool \in {"read", "write"} THEN work + 1 ELSE work
        <4>1. i \notin ran
          BY <1>1, <3>2 DEF CallIsSound
        <4>2. CASE calls[i].tool \in {"read", "write"}
          <5>1. i \in Workers /\ Working' = Working \cup {i} /\ i \notin Working
            BY <1>1, <2>3, <3>2, <4>1, <4>2 DEF Working, Workers
          <5>2. Cardinality(Working') = Cardinality(Working) + 1
            BY <2>2, <5>1, FS_AddElement
          <5> QED BY <2>2, <2>4, <3>2, <4>2, <5>2
        <4>3. CASE calls[i].tool \notin {"read", "write"}
          <5>1. Working' = Working
            BY <2>3, <3>2, <4>3 DEF Working, Workers
          <5> QED BY <2>2, <2>4, <3>2, <4>3, <5>1
        <4> QED BY <4>2, <4>3
      <3> QED BY <3>1, <3>2 DEF CallMove
    <2>6. Cardinality(Working') <= Cardinality(Workers)
      BY <1>4, <2>3, WorkersAreCounted, FS_Subset, <2>2 DEF Working, Workers
    <2>7. work - Cardinality(Working) + refunded <= tool_calls
          /\ work - Cardinality(Working) + Cardinality(Workers) <= c.budget
          /\ work >= Cardinality(Working)
      BY <1>2, <2>1 DEF WorkIsPaid, WorkIsBounded
    <2>8. work' <= c.budget /\ work' >= Cardinality(Working')
      BY <2>2, <2>4, <2>5, <2>6, <2>7
    <2>9. /\ work' - Cardinality(Working') + refunded <= tool_calls
          /\ work' - Cardinality(Working') + Cardinality(Workers') <= c.budget
      BY <2>3, <2>5, <2>7
    <2> QED BY <1>2, <2>8, <2>9 DEF WorkIsPaid, WorkIsBounded
  <1>11. \A j \in 1 .. Len(calls') : CallIsSound(c, j)'
    BY <1>2, <1>5
  <1> QED BY <1>4, <1>7, <1>8, <1>9, <1>10, <1>11 DEF ExecutorInv, RefundsOnce, Executor!Housekeeping

\* A unit is an interval that begins at next_index.
LEMMA UnitIsAnInterval ==
    ASSUME NEW c \in Executors, ExecutorTypes(c), at <= Len(calls)
    PROVE  /\ at \in Executor(c)!Unit /\ IsFiniteSet(Executor(c)!Unit)
           /\ Executor(c)!Unit \subseteq Nat /\ Executor(c)!Unit \subseteq 1 .. Len(calls)
           /\ Executor(c)!Max(Executor(c)!Unit) \in Executor(c)!Unit
           /\ \A i \in Executor(c)!Unit : i >= at /\ i <= Executor(c)!Max(Executor(c)!Unit)
           /\ \A i \in at .. Executor(c)!Max(Executor(c)!Unit) : i \in Executor(c)!Unit
           /\ \A i, j \in Executor(c)!Unit : i < j => Executor(c)!SameUnit(i, j)
  <1>1. at \in Nat /\ at >= 1 /\ Len(calls) \in Nat
    BY DEF ExecutorTypes
  <1> DEFINE U == Executor(c)!Unit
             safe(k) == Executor(c)!is_call_concurrency_safe(k)
  <1>2. U = {i \in at .. Len(calls) : i = at \/ \A k \in at .. i : safe(k)}
    BY DEF Executor!Unit, Executor!SameUnit
  <1>3. \A i, j : Executor(c)!SameUnit(i, j) <=> i = j \/ \A k \in i .. j : safe(k)
    BY DEF Executor!SameUnit
  <1> HIDE DEF U, safe
  <1>4. at \in U /\ U \subseteq 1 .. Len(calls) /\ U \subseteq Nat /\ \A i \in U : i >= at
    BY <1>1, <1>2
  <1>5. IsFiniteSet(U)
    <2>1. IsFiniteSet(1 .. Len(calls))
      BY <1>1, FS_Interval
    <2>2. U \in SUBSET (1 .. Len(calls))
      BY <1>4
    <2> QED BY <2>1, <2>2, FS_Subset
  <1>6. PICK m \in U : \A i \in U : i <= m
    <2> DEFINE D == {Len(calls) - i : i \in U}
    <2>1. D \subseteq Nat /\ D # {}
      BY <1>1, <1>4
    <2>2. PICK d \in D : \A e \in D : d <= e
      BY <2>1, NatHasLeast
    <2>3. PICK m \in U : d = Len(calls) - m
      BY <2>2
    <2>4. ASSUME NEW i \in U PROVE i <= m
      <3>1. Len(calls) - i \in D
        OBVIOUS
      <3>2. Len(calls) - m <= Len(calls) - i
        BY <2>2, <2>3, <3>1
      <3> QED BY <1>1, <1>4, <3>2
    <2> QED BY <2>4
  <1>7. Executor(c)!Max(U) = m
    <2>1. \A y \in U : m >= y
      BY <1>4, <1>6
    <2>2. \A x \in U : (\A y \in U : x >= y) => x = m
      BY <1>4, <1>6
    <2> QED BY <2>1, <2>2 DEF Executor!Max
  <1>8. ASSUME NEW i \in at .. m PROVE i \in U
    <2>1. m \in at .. Len(calls) /\ (m = at \/ \A k \in at .. m : safe(k))
      BY <1>2
    <2>2. i = at \/ \A k \in at .. i : safe(k)
      BY <1>1, <2>1
    <2>3. i \in at .. Len(calls)
      BY <1>1, <2>1
    <2> QED BY <1>2, <2>2, <2>3
  <1>9. ASSUME NEW i \in U, NEW j \in U, i < j PROVE Executor(c)!SameUnit(i, j)
    <2>1. i \in Nat /\ j \in Nat /\ i >= at
      BY <1>4
    <2>2. \A k \in at .. j : safe(k)
      BY <1>1, <1>2, <1>9, <2>1
    <2>3. \A k \in i .. j : safe(k)
      BY <1>1, <2>1, <2>2
    <2> QED BY <1>3, <2>3
  <1> QED BY <1>4, <1>5, <1>6, <1>7, <1>8, <1>9 DEF U

\* What a unit leaves interrupts the turn, and the first call of it that does is the interrupt.
LEMMA FirstOfTheUnit ==
    ASSUME NEW c \in Executors, ExecutorInv(c), pc = "units",
           NEW U, U = Executor(c)!Unit, NEW k, k = Executor(c)!FirstInterrupt(U)
    PROVE  /\ k = 0 => \A i \in U : sub[i].env \notin {"approval", "clarify", "plan"}
           /\ k # 0 => /\ k \in U /\ sub[k].env \in {"approval", "clarify", "plan"}
                       /\ \A i \in U : i < k => sub[i].env \notin {"approval", "clarify", "plan"}
                       /\ Executor(c)!Stops(U)
  <1>1. interrupt = 0 /\ at <= Len(calls) /\ ExecutorTypes(c)
    BY DEF ExecutorInv, InterruptIsFirst, UnitsAreInOrder
  <1>2. U \subseteq Nat /\ U \subseteq 1 .. Len(calls) /\ at \in U /\ \A i \in U : i >= at
    BY <1>1, UnitIsAnInterval
  <1> DEFINE I == {i \in U : sub[i].env \in {"approval", "clarify", "plan"}}
  <1>3. I = Executor(c)!Interrupting(U)
    BY DEF Executor!Interrupting, Executor!Interrupts
  <1>4. k = IF I # {} THEN Executor(c)!Min(I) ELSE 0
    BY <1>1, <1>3 DEF Executor!FirstInterrupt
  <1>5. CASE I = {}
    <2>1. k = 0
      BY <1>4, <1>5
    <2> QED BY <1>5, <2>1
  <1>6. CASE I # {}
    <2>1. I \subseteq Nat /\ I \subseteq U
      BY <1>2
    <2>2. PICK m \in I : \A n \in I : m <= n
      BY <1>6, <2>1, NatHasLeast
    <2>3. Executor(c)!Min(I) = m
      <3> HIDE DEF I
      <3>1. \A x \in I : (\A y \in I : x <= y) => x = m
        BY <2>1, <2>2
      <3> QED BY <2>2, <3>1 DEF Executor!Min
    <2>4. k = m /\ k \in U /\ sub[k].env \in {"approval", "clarify", "plan"} /\ k \in Nat /\ k # 0
      BY <1>2, <1>4, <1>6, <2>2, <2>3
    <2>5. \A i \in U : i < k => sub[i].env \notin {"approval", "clarify", "plan"}
      <3>1. \A i \in U : i \in I => m <= i
        BY <2>2
      <3> QED BY <1>2, <2>4, <3>1
    <2>6. Executor(c)!Stops(U)
      <3>1. CASE Executor(c)!is_call_concurrency_safe(at)
        BY <1>3, <1>6, <3>1 DEF Executor!Stops
      <3>2. CASE ~Executor(c)!is_call_concurrency_safe(at)
        <4>1. k = at
          BY <1>1, <1>2, <2>4, <3>2 DEF Executor!Unit, Executor!SameUnit, ExecutorTypes
        <4>2. at \in 1 .. Len(calls)
          BY <1>2
        <4>3. CallIsSound(c, at)
          BY <4>2 DEF ExecutorInv
        <4>4. sub[at].stop = TRUE
          BY <2>4, <4>1, <4>3 DEF CallIsSound
        <4> QED BY <3>2, <4>4 DEF Executor!Stops
      <3> QED BY <3>1, <3>2
    <2> QED BY <2>4, <2>5, <2>6
  <1> QED BY <1>5, <1>6

LEMMA UnitEndsKeeps ==
    ASSUME NEW c \in Executors, ExecutorInv(c), Executor(c)!UnitEnds
    PROVE  ExecutorInv(c)'
  <1>1. PICK U : U = Executor(c)!Unit
    OBVIOUS
  <1>2. PICK top : top = Executor(c)!Max(U)
    OBVIOUS
  <1>3. PICK M : M = Executor(c)!Merged(U)
    OBVIOUS
  <1>4. PICK k : k = Executor(c)!FirstInterrupt(U)
    OBVIOUS
  <1>5. /\ pc = "units" /\ at <= Len(calls) /\ ExecutorTypes(c) /\ interrupt = 0
        /\ \A i \in 1 .. Len(calls) : CallIsSound(c, i)
    BY DEF ExecutorInv, UnitsAreInOrder, InterruptIsFirst, Executor!UnitEnds
  <1>6. /\ at \in U /\ IsFiniteSet(U) /\ U \subseteq Nat /\ U \subseteq 1 .. Len(calls)
        /\ top \in U /\ \A i \in U : i >= at /\ i <= top
        /\ \A i \in at .. top : i \in U
        /\ \A i, j \in U : i < j => Executor(c)!SameUnit(i, j)
    BY <1>1, <1>2, <1>5, UnitIsAnInterval
  <1>7. /\ \A i \in U : stage[i] = "done"
        /\ result' = result \o M /\ interrupt' = k /\ at' = top + 1
        /\ pc' = IF Executor(c)!Stops(U) \/ at' > Len(calls) THEN "store" ELSE "units"
        /\ UNCHANGED <<mode, calls, stage, sub, ran, refused, tool_calls, refunded, work>>
    BY <1>1, <1>2, <1>3, <1>4 DEF Executor!UnitEnds
  <1>8. /\ k = 0 => \A i \in U : sub[i].env \notin {"approval", "clarify", "plan"}
        /\ k # 0 => /\ k \in U /\ sub[k].env \in {"approval", "clarify", "plan"}
                    /\ \A i \in U : i < k => sub[i].env \notin {"approval", "clarify", "plan"}
                    /\ Executor(c)!Stops(U)
    BY <1>1, <1>4, <1>5, FirstOfTheUnit
  <1>9. /\ M \in Seq([i : Nat, env : Envelope])
        /\ \A n \in 1 .. Len(M) : /\ M[n].i \in U /\ M[n].env = sub[M[n].i].env
                                  /\ M[n].env # "none"
        /\ \A n, m \in 1 .. Len(M) : n < m => M[n].i < M[m].i
        /\ \A i \in U : sub[i].env # "none" => \E n \in 1 .. Len(M) : M[n].i = i
    <2>1. \A i \in U : sub[i].env \in Envelope
      BY <1>5, <1>6 DEF ExecutorTypes, Outcome
    <2>2. U \subseteq Nat /\ IsFiniteSet(U) /\ M = Executor(c)!Merged(U)
      BY <1>3, <1>6
    <2>3. IsMerged(M, U)
      BY <2>1, <2>2, MergedIsInOrder
    <2> QED BY <2>3 DEF IsMerged
  <1>10. /\ at \in Nat /\ at >= 1 /\ top \in Nat /\ at <= top /\ top <= Len(calls) /\ Len(calls) \in Nat
    BY <1>5, <1>6 DEF ExecutorTypes
  <1>11. \A i \in 1 .. at' - 1 : i \in 1 .. at - 1 \/ i \in U
    BY <1>6, <1>7, <1>10
  <1>12. ExecutorTypes(c)'
    <2>1. result' \in Seq([i : Nat, env : Envelope])
      BY <1>5, <1>7, <1>9 DEF ExecutorTypes
    <2>2. at' \in 1 .. Len(calls) + 1 /\ interrupt' \in 0 .. Len(calls)
      <3>1. at' \in 1 .. Len(calls) + 1
        BY <1>7, <1>10
      <3>2. k = 0 \/ k \in 1 .. Len(calls)
        BY <1>6, <1>8
      <3> QED BY <1>7, <1>10, <3>1, <3>2
    <2>3. pc' \in {"llm", "units", "store", "paused", "end"}
      BY <1>7
    <2> QED BY <1>5, <1>7, <2>1, <2>2, <2>3 DEF ExecutorTypes
  <1>13. \A i \in 1 .. Len(calls') : CallIsSound(c, i)'
    BY <1>5, <1>7 DEF CallIsSound
  <1>14. \A i \in ran : i < at'
    <2>1. \A i \in ran : i < at \/ i \in U
      BY <1>1 DEF ExecutorInv, UnitsAreInOrder
    <2>2. \A i \in ran : i \in Nat
      BY <1>5 DEF ExecutorTypes
    <2> QED BY <1>6, <1>7, <1>10, <2>1, <2>2
  <1>15. UnitsAreInOrder(c)'
    <2>1. \A i \in 1 .. at' - 1 : stage[i] = "done"
      BY <1>7, <1>11 DEF ExecutorInv, UnitsAreInOrder
    <2>2. pc' = "units" => at' <= Len(calls)
      BY <1>7, <1>10
    <2> QED BY <1>7, <1>14, <2>1, <2>2 DEF UnitsAreInOrder
  <1>16. ResultIsMerged'
    <2>1. /\ result \in Seq([i : Nat, env : Envelope]) /\ Len(result) \in Nat /\ Len(M) \in Nat
      BY <1>5, <1>9 DEF ExecutorTypes
    <2>2. Len(result') = Len(result) + Len(M)
      BY <1>7, <1>9, <2>1
    <2>3. \A n \in 1 .. Len(result') :
             \/ n \in 1 .. Len(result) /\ result'[n] = result[n]
             \/ n - Len(result) \in 1 .. Len(M) /\ n > Len(result) /\ result'[n] = M[n - Len(result)]
      BY <1>7, <1>9, <2>1, <2>2
    <2>4. /\ \A n \in 1 .. Len(result) : result'[n] = result[n]
          /\ \A n \in 1 .. Len(M) : n + Len(result) \in 1 .. Len(result') /\ result'[n + Len(result)] = M[n]
      BY <1>7, <1>9, <2>1, <2>2
    <2>5. \A n \in 1 .. Len(result) : /\ result[n].i \in 1 .. at - 1
                                      /\ result[n].env = sub[result[n].i].env
      BY DEF ExecutorInv, ResultIsMerged
    <2>6. ASSUME NEW n \in 1 .. Len(result')
          PROVE  /\ result'[n].i \in 1 .. at' - 1
                 /\ result'[n].env = sub[result'[n].i].env
      <3>1. CASE n \in 1 .. Len(result) /\ result'[n] = result[n]
        BY <1>7, <1>10, <2>5, <3>1
      <3>2. ASSUME NEW m \in 1 .. Len(M), result'[n] = M[m]
            PROVE  /\ result'[n].i \in 1 .. at' - 1
                   /\ result'[n].env = sub[result'[n].i].env
        <4>1. M[m].i \in U /\ M[m].env = sub[M[m].i].env
          BY <1>9
        <4>2. PICK x \in U : x = M[m].i
          BY <4>1
        <4>3. x \in Nat /\ x >= at /\ x <= top
          BY <1>6
        <4>4. x \in 1 .. at' - 1
          BY <1>7, <1>10, <4>3
        <4> QED BY <3>2, <4>1, <4>2, <4>4
      <3> QED BY <2>3, <3>1, <3>2
    <2>7. ASSUME NEW n \in 1 .. Len(result'), NEW m \in 1 .. Len(result'), n < m
          PROVE  result'[n].i < result'[m].i
      <3>1. CASE m \in 1 .. Len(result)
        <4>1. n \in 1 .. Len(result)
          BY <2>1, <2>7, <3>1
        <4> QED BY <2>4, <2>7, <3>1, <4>1 DEF ExecutorInv, ResultIsMerged
      <3>2. CASE n \in 1 .. Len(result) /\ m \notin 1 .. Len(result)
        <4>1. result'[n].i \in 1 .. at - 1
          BY <2>4, <2>5, <3>2
        <4>2. result'[m].i \in U
          BY <1>9, <2>3, <3>2
        <4>3. PICK x, y : x = result'[n].i /\ y = result'[m].i
          OBVIOUS
        <4>4. x \in Nat /\ x < at /\ y \in Nat /\ y >= at
          <5>1. x \in 1 .. at - 1 /\ y \in U
            BY <4>1, <4>2, <4>3
          <5>2. y \in Nat /\ y >= at
            BY <1>6, <5>1
          <5> QED BY <1>10, <5>1, <5>2
        <4> QED BY <1>10, <4>3, <4>4
      <3>3. CASE n \notin 1 .. Len(result) /\ m \notin 1 .. Len(result)
        <4>1. PICK a \in 1 .. Len(M) : a = n - Len(result) /\ result'[n] = M[a]
          BY <2>3, <3>3
        <4>2. PICK b \in 1 .. Len(M) : b = m - Len(result) /\ result'[m] = M[b]
          BY <2>3, <3>3
        <4>3. a < b
          BY <2>1, <2>7, <4>1, <4>2
        <4> QED BY <1>9, <4>1, <4>2, <4>3
      <3> QED BY <3>1, <3>2, <3>3
    <2>8. ASSUME NEW i \in 1 .. at' - 1, sub[i].env # "none"
          PROVE  \E n \in 1 .. Len(result') : result'[n].i = i
      <3>1. CASE i \in 1 .. at - 1
        <4>1. PICK n \in 1 .. Len(result) : result[n].i = i
          BY <2>8, <3>1 DEF ExecutorInv, ResultIsMerged
        <4>2. n \in 1 .. Len(result')
          BY <2>1, <2>2
        <4> QED BY <2>4, <4>1, <4>2
      <3>2. CASE i \in U
        <4>1. PICK n \in 1 .. Len(M) : M[n].i = i
          BY <1>9, <2>8, <3>2
        <4> QED BY <2>4, <4>1
      <3> QED BY <1>11, <3>1, <3>2
    <2> QED BY <1>7, <2>6, <2>7, <2>8 DEF ResultIsMerged
  <1>17. InterruptIsFirst(c)'
    <2>1. \A i \in 1 .. at - 1 : sub[i].env \notin {"approval", "clarify", "plan"}
      BY <1>5 DEF ExecutorInv, InterruptIsFirst
    <2>2. /\ pc' = "units" => k = 0
          /\ pc' # "paused"
      BY <1>7, <1>8
    <2>3. k = 0 => \A i \in 1 .. at' - 1 : sub[i].env \notin {"approval", "clarify", "plan"}
      BY <1>8, <1>11, <2>1
    <2>4. k # 0 => /\ k < at' /\ sub[k].env \in {"approval", "clarify", "plan"}
                   /\ \A i \in 1 .. k - 1 : sub[i].env \notin {"approval", "clarify", "plan"}
      <3>1. SUFFICES ASSUME k # 0
                     PROVE  /\ k < at' /\ sub[k].env \in {"approval", "clarify", "plan"}
                            /\ \A i \in 1 .. k - 1 : sub[i].env \notin {"approval", "clarify", "plan"}
        OBVIOUS
      <3>2. k \in U /\ k \in Nat /\ k <= top
        BY <1>6, <1>8, <3>1
      <3>3. \A i \in 1 .. k - 1 : i \in 1 .. at - 1 \/ (i \in U /\ i < k)
        BY <1>6, <1>10, <3>2
      <3>4. k < at'
        BY <1>7, <1>10, <3>2
      <3> QED BY <1>8, <2>1, <3>1, <3>3, <3>4
    <2>5. \A i \in ran : k # 0 /\ k < i => Executor(c)!SameUnit(k, i)
      <3>1. SUFFICES ASSUME NEW i \in ran, k # 0, k < i PROVE Executor(c)!SameUnit(k, i)
        OBVIOUS
      <3>2. k \in U /\ k >= at /\ k \in Nat /\ i \in Nat
        <4>1. k \in U
          BY <1>8, <3>1
        <4>2. ran \subseteq 1 .. Len(calls)
          BY <1>5 DEF ExecutorTypes
        <4>3. i \in Nat
          BY <4>2
        <4> QED BY <1>6, <4>1, <4>3
      <3>3. i < at \/ i \in U
        BY <1>1 DEF ExecutorInv, UnitsAreInOrder
      <3>4. i \in U
        BY <1>10, <3>1, <3>2, <3>3
      <3> QED BY <1>6, <3>1, <3>2, <3>4
    <2>6. Executor(c)!NothingPastAnInterrupt'
      BY <1>7, <2>5 DEF Executor!NothingPastAnInterrupt, Executor!SameUnit,
                        Executor!is_call_concurrency_safe
    <2> QED BY <1>7, <2>2, <2>3, <2>4, <2>6 DEF InterruptIsFirst
  <1>18. ASSUME RefundsOnce(c)
         PROVE  (WorkIsPaid /\ WorkIsBounded(c))'
    <2>1. WorkIsPaid /\ WorkIsBounded(c) /\ Working' = Working /\ Workers' = Workers
      BY <1>7, <1>18 DEF ExecutorInv, Working, Workers
    <2>2. pc' \in {"units", "store"} /\ pc' \notin {"llm", "paused"}
      BY <1>7
    <2> QED BY <1>5, <1>7, <2>1, <2>2 DEF WorkIsPaid, WorkIsBounded
  <1> QED BY <1>12, <1>13, <1>15, <1>16, <1>17, <1>18 DEF ExecutorInv, RefundsOnce, Executor!Housekeeping

\* The pending call is the one the interrupt names.
LEMMA PendingIsTheInterrupt ==
    ASSUME NEW c \in Executors, ExecutorInv(c), interrupt # 0
    PROVE  Executor(c)!Pending = interrupt
  <1>1. /\ ExecutorTypes(c) /\ ResultIsMerged /\ interrupt \in 1 .. at - 1
        /\ sub[interrupt].env \in {"approval", "clarify", "plan"}
        /\ \A i \in 1 .. interrupt - 1 : sub[i].env \notin {"approval", "clarify", "plan"}
    BY DEF ExecutorInv, InterruptIsFirst, ExecutorTypes
  <1> DEFINE N == {n \in 1 .. Len(result) : result[n].env \in {"approval", "clarify", "plan"}}
  <1>2. PICK n \in 1 .. Len(result) : result[n].i = interrupt
    BY <1>1 DEF ResultIsMerged
  <1>3. n \in N /\ N \subseteq Nat
    BY <1>1, <1>2 DEF ResultIsMerged
  <1>4. PICK m \in N : \A k \in N : m <= k
    BY <1>3, NatHasLeast
  <1>5. result[m].i = interrupt
    <2>1. m \in 1 .. Len(result) /\ m <= n /\ m \in Nat /\ n \in Nat
      BY <1>3, <1>4
    <2>2. PICK x : x = result[m].i
      OBVIOUS
    <2>3. x \in 1 .. at - 1 /\ sub[x].env \in {"approval", "clarify", "plan"}
      BY <1>1, <1>4, <2>1, <2>2 DEF ResultIsMerged
    <2>4. m < n => x < interrupt
      BY <1>1, <1>2, <2>1, <2>2 DEF ResultIsMerged
    <2>5. ~(x < interrupt)
      BY <1>1, <2>3
    <2> QED BY <1>2, <2>1, <2>2, <2>4, <2>5
  <1>6. Executor(c)!Min(N) = m
    <2> HIDE DEF N
    <2>1. \A x \in N : (\A y \in N : x <= y) => x = m
      BY <1>3, <1>4
    <2> QED BY <1>4, <2>1 DEF Executor!Min
  <1>7. Executor(c)!Pending = result[Executor(c)!Min(N)].i
    BY DEF Executor!Pending, Executor!Interrupts
  <1> QED BY <1>5, <1>6, <1>7

\* Execution begins with a fresh result, and calls that the budget has room for.
LEMMA ExecuteBegins ==
    ASSUME NEW c \in Executors, mode \in c.modes,
           tool_calls \in Nat, refunded \in Nat, work \in Nat,
           NEW planned \in Seq([tool : c.tools, approved : BOOLEAN]), Executor(c)!Execute(planned),
           UNCHANGED <<mode, tool_calls, refunded, work>>,
           RefundsOnce(c) => work + refunded <= tool_calls /\ work + Cardinality(Workers') <= c.budget
    PROVE  ExecutorInv(c)'
  <1>1. /\ calls' = planned /\ at' = 1 /\ result' = <<>> /\ interrupt' = 0 /\ ran' = {} /\ refused' = {}
        /\ stage' = [i \in 1 .. Len(planned) |-> "idle"]
        /\ sub' = [i \in 1 .. Len(planned) |-> [env |-> "none", stop |-> FALSE]]
        /\ pc' = IF planned = << >> THEN "store" ELSE "units"
    BY DEF Executor!Execute, Executor!NotRun
  <1>2. Len(planned) \in Nat
    OBVIOUS
  <1>3. [env |-> "none", stop |-> FALSE] \in Outcome
    BY DEF Outcome, Envelope
  <1>4. \A i \in 1 .. Len(planned) : stage'[i] = "idle" /\ sub'[i].env = "none" /\ sub'[i].stop = FALSE
    BY <1>1
  <1>5. ExecutorTypes(c)'
    <2>1. /\ stage' \in [1 .. Len(calls') -> {"idle", "gate", "input", "args", "running", "done"}]
          /\ sub' \in [1 .. Len(calls') -> Outcome]
      BY <1>1, <1>3
    <2>2. calls' \in Seq([tool : c.tools, approved : BOOLEAN]) /\ result' \in Seq([i : Nat, env : Envelope])
      BY <1>1
    <2>3. /\ at' \in 1 .. Len(calls') + 1 /\ interrupt' \in 0 .. Len(calls')
          /\ pc' \in {"llm", "units", "store", "paused", "end"}
      BY <1>1, <1>2
    <2>4. ran' \subseteq 1 .. Len(calls') /\ refused' \subseteq 1 .. Len(calls')
      BY <1>1
    <2> QED BY <2>1, <2>2, <2>3, <2>4 DEF ExecutorTypes
  <1>6. \A i \in 1 .. Len(calls') : CallIsSound(c, i)'
    BY <1>1, <1>4 DEF CallIsSound
  <1>7. UnitsAreInOrder(c)'
    <2>1. pc' = "units" => 1 <= Len(planned)
      BY <1>1, <1>2
    <2> QED BY <1>1, <2>1 DEF UnitsAreInOrder
  <1>8. ResultIsMerged'
    BY <1>1 DEF ResultIsMerged
  <1>9. InterruptIsFirst(c)'
    BY <1>1 DEF InterruptIsFirst, Executor!NothingPastAnInterrupt
  <1>10. ASSUME RefundsOnce(c)
         PROVE  (WorkIsPaid /\ WorkIsBounded(c))'
    <2>1. Working' = {} /\ Cardinality(Working') = 0
      BY <1>1, FS_EmptySet DEF Working
    <2>2. Cardinality(Workers') \in Nat
      <3>1. Workers' \in SUBSET (1 .. Len(planned))
        BY <1>1 DEF Workers
      <3>2. IsFiniteSet(1 .. Len(planned))
        BY <1>2, FS_Interval
      <3> QED BY <3>1, <3>2, FS_Subset, FS_CardinalityType
    <2>3. c.budget \in Nat
      BY ExecutorConstants
    <2>4. pc' \in {"units", "store"}
      BY <1>1
    <2> QED BY <1>10, <2>1, <2>2, <2>3, <2>4 DEF WorkIsPaid, WorkIsBounded
  <1> QED BY <1>5, <1>6, <1>7, <1>8, <1>9, <1>10 DEF ExecutorInv, RefundsOnce, Executor!Housekeeping

\* A step between turns leaves the turn as it was.
LEMMA BetweenTurns ==
    ASSUME NEW c \in Executors, ExecutorInv(c), pc # "units",
           UNCHANGED <<mode, calls, at, stage, sub, result, interrupt, ran, refused, work>>,
           pc' \in {"llm", "store", "paused", "end"}, pc' = "paused" => interrupt # 0,
           tool_calls' \in Nat, refunded' \in Nat,
           RefundsOnce(c) => (WorkIsPaid /\ WorkIsBounded(c))'
    PROVE  ExecutorInv(c)'
  <1>1. ExecutorTypes(c)'
    BY DEF ExecutorInv, ExecutorTypes
  <1>2. \A i \in 1 .. Len(calls') : CallIsSound(c, i)'
    BY DEF ExecutorInv, CallIsSound
  <1>3. UnitsAreInOrder(c)'
    BY DEF ExecutorInv, UnitsAreInOrder
  <1>4. ResultIsMerged'
    BY DEF ExecutorInv, ResultIsMerged
  <1>5. InterruptIsFirst(c)'
    <2>1. Executor(c)!NothingPastAnInterrupt'
      BY DEF ExecutorInv, InterruptIsFirst, Executor!NothingPastAnInterrupt, Executor!SameUnit,
             Executor!is_call_concurrency_safe
    <2> QED BY <2>1 DEF ExecutorInv, InterruptIsFirst
  <1> QED BY <1>1, <1>2, <1>3, <1>4, <1>5 DEF ExecutorInv, RefundsOnce, Executor!Housekeeping

\* The clamp: a turn has no more calls than the budget has left.
LEMMA TurnIsClamped ==
    ASSUME NEW c \in Executors, ExecutorInv(c), Executor(c)!llm_call
    PROVE  ExecutorInv(c)'
  <1>1. /\ pc = "llm" /\ UNCHANGED <<mode, tool_calls, refunded, work>> /\ ExecutorTypes(c)
        /\ mode \in c.modes /\ tool_calls \in Nat /\ refunded \in Nat /\ work \in Nat
    BY DEF Executor!llm_call, ExecutorInv, ExecutorTypes
  <1>2. PICK n, wanted :
          /\ n \in 1 .. c.calls /\ wanted \in [1 .. n -> [tool : c.tools, approved : {FALSE}]]
          /\ Executor(c)!Execute(Executor(c)!_apply_tool_call_step_limit(wanted))
    BY DEF Executor!llm_call, Executor!Plans
  <1>3. PICK effective : effective = IF tool_calls > refunded THEN tool_calls - refunded ELSE 0
    OBVIOUS
  <1>4. PICK left : left = IF c.budget > effective THEN c.budget - effective ELSE 0
    OBVIOUS
  <1>5. PICK length : length = Executor(c)!Min({Len(wanted), left})
    OBVIOUS
  <1>6. PICK planned : planned = SubSeq(wanted, 1, length)
    OBVIOUS
  <1>7. Executor(c)!Execute(planned)
    BY <1>2, <1>3, <1>4, <1>5, <1>6 DEF Executor!_apply_tool_call_step_limit
  <1>8. c.budget \in Nat /\ c.calls \in Nat /\ n \in Nat /\ effective \in Nat /\ left \in Nat
    BY <1>1, <1>2, <1>3, <1>4, ExecutorConstants
  <1>9. /\ wanted \in Seq([tool : c.tools, approved : BOOLEAN]) /\ Len(wanted) = n
        /\ \A i \in 1 .. n : wanted[i] \in [tool : c.tools, approved : BOOLEAN]
    <2>1. \A i \in 1 .. n : wanted[i] \in [tool : c.tools, approved : BOOLEAN]
      BY <1>2
    <2>2. wanted \in [1 .. n -> [tool : c.tools, approved : BOOLEAN]]
      BY <1>2, <2>1
    <2>3. \A T, N, x : N \in Nat /\ x \in [1 .. N -> T] => x \in Seq(T) /\ Len(x) = N
      OBVIOUS
    <2> QED BY <1>8, <2>1, <2>2, <2>3, Zenon
  <1>10. length = IF n <= left THEN n ELSE left
    <2>1. PICK l : l = IF n <= left THEN n ELSE left
      OBVIOUS
    <2>2. l \in {n, left} /\ \A y \in {n, left} : l <= y
      BY <1>8, <2>1
    <2>3. \A x \in {n, left} : (\A y \in {n, left} : x <= y) => x = l
      BY <1>8, <2>1
    <2>4. (CHOOSE x \in {n, left} : \A y \in {n, left} : x <= y) = l
      BY <2>2, <2>3
    <2> QED BY <1>5, <1>9, <2>1, <2>4 DEF Executor!Min
  <1>11. length \in Nat /\ length <= left /\ length <= n
    BY <1>8, <1>10
  <1>12. planned \in Seq([tool : c.tools, approved : BOOLEAN]) /\ Len(planned) = length
    <2>1. \A i \in 1 .. length : wanted[i] \in [tool : c.tools, approved : BOOLEAN]
      <3>1. \A i \in 1 .. length : i \in 1 .. n
        BY <1>8, <1>11
      <3> QED BY <1>9, <3>1, Zenon
    <2>2. 1 \in Int /\ length \in Int
      BY <1>11
    <2>3. /\ SubSeq(wanted, 1, length) \in Seq([tool : c.tools, approved : BOOLEAN])
          /\ Len(SubSeq(wanted, 1, length)) = IF 1 <= length THEN length - 1 + 1 ELSE 0
      BY <2>1, <2>2, SubSeqProperties
    <2> QED BY <1>6, <1>11, <2>3
  <1>13. ASSUME RefundsOnce(c)
         PROVE  work + refunded <= tool_calls /\ work + Cardinality(Workers') <= c.budget
    <2>1. work + refunded <= tool_calls /\ work <= c.budget
      BY <1>1, <1>13 DEF ExecutorInv, WorkIsPaid, WorkIsBounded
    <2>2. Cardinality(Workers') \in Nat /\ Cardinality(Workers') <= length
      <3>1. calls' = planned
        BY <1>7 DEF Executor!Execute
      <3>2. Workers' \in SUBSET (1 .. length)
        BY <1>12, <3>1 DEF Workers
      <3>3. IsFiniteSet(1 .. length) /\ Cardinality(1 .. length) = length
        <4>1. 1 \in Int /\ length \in Int
          BY <1>11
        <4>2. /\ IsFiniteSet(1 .. length)
              /\ Cardinality(1 .. length) = IF 1 > length THEN 0 ELSE length - 1 + 1
          BY <4>1, FS_Interval
        <4> QED BY <1>11, <4>2
      <3> QED BY <3>2, <3>3, FS_Subset, FS_CardinalityType
    <2>3. work <= effective
      BY <1>1, <1>3, <2>1
    <2>4. work + left <= c.budget
      BY <1>1, <1>4, <1>8, <2>1, <2>3
    <2> QED BY <1>1, <1>8, <1>11, <2>1, <2>2, <2>4
  <1> QED BY <1>1, <1>7, <1>12, <1>13, ExecuteBegins

\* What the turn's handlers and a pending call left in the result pays for them.
LEMMA ResultPays ==
    ASSUME NEW c \in Executors, ExecutorInv(c), pc = "store",
           NEW H, H = {n \in 1 .. Len(result) : calls[result[n].i].tool \in Executor(c)!Housekeeping}
    PROVE  /\ Cardinality(H) \in Nat /\ Len(result) \in Nat
           /\ Cardinality(Working) + Cardinality(H) <= Len(result)
           /\ interrupt # 0 /\ calls[interrupt].tool # "todo" =>
                 Cardinality(Working) + 1 + Cardinality(H) <= Len(result)
  <1>1. /\ ExecutorTypes(c) /\ Len(result) \in Nat /\ Len(calls) \in Nat
        /\ \A i \in 1 .. at - 1 : sub[i].env # "none" => \E n \in 1 .. Len(result) : result[n].i = i
        /\ \A i \in ran : i \in 1 .. at - 1 /\ stage[i] = "done"
    BY DEF ExecutorInv, ExecutorTypes, ResultIsMerged, UnitsAreInOrder
  <1> DEFINE N == (1 .. Len(result)) \ H
             T == {result[n].i : n \in N}
  <1>2. IsFiniteSet(1 .. Len(result)) /\ Cardinality(1 .. Len(result)) = Len(result)
    <2>1. 1 \in Int /\ Len(result) \in Int
      BY <1>1
    <2>2. /\ IsFiniteSet(1 .. Len(result))
          /\ Cardinality(1 .. Len(result)) = IF 1 > Len(result) THEN 0 ELSE Len(result) - 1 + 1
      BY <2>1, FS_Interval
    <2> QED BY <1>1, <2>2
  <1>3. H \in SUBSET (1 .. Len(result)) /\ (1 .. Len(result)) \cap H = H
    OBVIOUS
  <1>4. IsFiniteSet(H) /\ Cardinality(H) \in Nat
    BY <1>2, <1>3, FS_Subset, FS_CardinalityType
  <1>5. IsFiniteSet(N) /\ Cardinality(N) = Len(result) - Cardinality(H)
    <2>1. IsFiniteSet(N) /\ Cardinality(N) = Cardinality(1 .. Len(result)) - Cardinality((1 .. Len(result)) \cap H)
      BY <1>2, FS_Difference
    <2> QED BY <1>2, <1>3, <2>1
  <1>6. IsFiniteSet(T) /\ Cardinality(T) <= Cardinality(N)
    <2> DEFINE f == [n \in N |-> result[n].i]
    <2>1. f \in Surjection(N, T)
      BY DEF Surjection
    <2> HIDE DEF f, N, T
    <2> QED BY <1>5, <2>1, FS_Surjection
  <1>7. ASSUME NEW i \in 1 .. at - 1, sub[i].env # "none", calls[i].tool # "todo"
        PROVE  i \in T
    <2>1. PICK n \in 1 .. Len(result) : result[n].i = i
      BY <1>1, <1>7
    <2>2. n \in N
      BY <1>7, <2>1 DEF Executor!Housekeeping
    <2> QED BY <2>1, <2>2
  <1>8. Working \subseteq T
    <2>1. SUFFICES ASSUME NEW i \in Working PROVE i \in T
      OBVIOUS
    <2>2. i \in ran /\ i \in 1 .. Len(calls) /\ calls[i].tool \in {"read", "write"}
      BY DEF Working, Workers
    <2>3. CallIsSound(c, i)
      BY <2>2 DEF ExecutorInv
    <2>4. i \in 1 .. at - 1 /\ sub[i].env # "none"
      BY <1>1, <2>2, <2>3 DEF CallIsSound
    <2> QED BY <1>7, <2>2, <2>4
  <1>9. Cardinality(T) \in Nat /\ Cardinality(N) \in Nat /\ IsFiniteSet(Working) /\ Cardinality(Working) \in Nat
    BY <1>1, <1>5, <1>6, WorkersAreCounted, FS_CardinalityType
  <1>10. ASSUME interrupt # 0, calls[interrupt].tool # "todo"
         PROVE  Cardinality(Working) + 1 <= Cardinality(T)
    <2>1. interrupt \in 1 .. at - 1 /\ sub[interrupt].env \in {"approval", "clarify", "plan"}
      BY <1>1, <1>10 DEF ExecutorInv, InterruptIsFirst, ExecutorTypes
    <2>2. interrupt \in T
      BY <1>7, <1>10, <2>1
    <2>3. interrupt \in 1 .. Len(calls)
      BY <1>1, <2>1 DEF ExecutorTypes
    <2>4. CallIsSound(c, interrupt)
      BY <2>3 DEF ExecutorInv
    <2>5. interrupt \notin Working
      BY <2>1, <2>4 DEF CallIsSound, Working, Workers
    <2>6. Cardinality(Working \cup {interrupt}) = Cardinality(Working) + 1
      BY <1>9, <2>5, FS_AddElement
    <2> HIDE DEF T
    <2>7. Cardinality(Working \cup {interrupt}) <= Cardinality(T)
      BY <1>6, <1>8, <2>2, FS_Subset
    <2> QED BY <2>6, <2>7
  <1>11. Cardinality(Working) <= Cardinality(T)
    <2> HIDE DEF T
    <2> QED BY <1>6, <1>8, FS_Subset
  <1> HIDE DEF T, N
  <1> QED BY <1>1, <1>4, <1>5, <1>6, <1>9, <1>10, <1>11

LEMMA ExecutorStores ==
    ASSUME NEW c \in Executors, ExecutorInv(c), Executor(c)!_store_tool_stage_outputs
    PROVE  ExecutorInv(c)'
  <1>1. PICK H : H = {n \in 1 .. Len(result) : calls[result[n].i].tool \in Executor(c)!Housekeeping}
    OBVIOUS
  <1>2. /\ pc = "store" /\ tool_calls' = tool_calls + Len(result)
        /\ refunded' = refunded + Cardinality(H)
        /\ pc' = IF interrupt # 0 THEN "paused" ELSE IF aborted THEN "end" ELSE "llm"
        /\ UNCHANGED <<mode, calls, at, stage, sub, result, interrupt, ran, refused, work>>
    BY <1>1, ExecutorCounts DEF Executor!_store_tool_stage_outputs, Executor!turn
  <1>3. /\ Cardinality(H) \in Nat /\ Len(result) \in Nat
        /\ Cardinality(Working) + Cardinality(H) <= Len(result)
        /\ interrupt # 0 /\ calls[interrupt].tool # "todo" =>
              Cardinality(Working) + 1 + Cardinality(H) <= Len(result)
    BY <1>1, <1>2, ResultPays
  <1>4. tool_calls \in Nat /\ refunded \in Nat /\ work \in Nat /\ ExecutorTypes(c)
    BY DEF ExecutorInv, ExecutorTypes
  <1>5. ASSUME RefundsOnce(c)
        PROVE  (WorkIsPaid /\ WorkIsBounded(c))'
    <2>1. WorkIsPaid /\ WorkIsBounded(c) /\ Working' = Working /\ Workers' = Workers
      BY <1>2, <1>5 DEF ExecutorInv, Working, Workers
    <2>2. Cardinality(Working) \in Nat
      BY <1>4, WorkersAreCounted
    <2>3. /\ work - Cardinality(Working) + refunded <= tool_calls /\ work >= Cardinality(Working)
          /\ work <= c.budget /\ work - Cardinality(Working) + Cardinality(Workers) <= c.budget
      BY <1>2, <2>1 DEF WorkIsPaid, WorkIsBounded
    <2>4. work + refunded' <= tool_calls'
      BY <1>2, <1>3, <1>4, <2>2, <2>3
    <2>5. interrupt # 0 /\ calls[interrupt].tool # "todo" => work + 1 + refunded' <= tool_calls'
      <3>1. SUFFICES ASSUME interrupt # 0, calls[interrupt].tool # "todo"
                     PROVE  work + 1 + refunded' <= tool_calls'
        OBVIOUS
      <3>2. Cardinality(Working) + 1 + Cardinality(H) <= Len(result)
        BY <1>3, <3>1
      <3>3. tool_calls' = tool_calls + Len(result) /\ refunded' = refunded + Cardinality(H)
        BY <1>2
      <3>4. \A w, o, r, t, k, h, n \in Nat :
               w - o + r <= t /\ o + 1 + h <= n /\ k = t + n => w + 1 + (r + h) <= k
        OBVIOUS
      <3>5. tool_calls' \in Nat /\ Cardinality(H) \in Nat /\ Len(result) \in Nat
        BY <1>3, <1>4, <3>3
      <3>6. work - Cardinality(Working) + refunded <= tool_calls
        BY <2>3
      <3>7. work + 1 + (refunded + Cardinality(H)) <= tool_calls'
        BY <1>4, <2>2, <3>2, <3>3, <3>4, <3>5, <3>6, Zenon
      <3> QED BY <3>3, <3>7
    <2>6. WorkIsPaid'
      BY <1>2, <2>1, <2>3, <2>4, <2>5 DEF WorkIsPaid
    <2>7. WorkIsBounded(c)'
      BY <1>2, <2>1, <2>3 DEF WorkIsBounded
    <2> QED BY <2>6, <2>7
  <1>6. tool_calls' \in Nat /\ refunded' \in Nat
    BY <1>2, <1>3, <1>4
  <1>7. pc' \in {"llm", "store", "paused", "end"} /\ (pc' = "paused" => interrupt # 0)
    BY <1>2
  <1> QED BY <1>2, <1>5, <1>6, <1>7, BetweenTurns

\* An operator's answer: the pending call alone runs again, or the run goes on or ends.
LEMMA ExecutorResumes ==
    ASSUME NEW c \in Executors, ExecutorInv(c),
           \/ Executor(c)!ResumeWithCall \/ Executor(c)!ResumePlan
           \/ Executor(c)!_apply_corrective_rejection \/ Executor(c)!ResumeClarify
           \/ Executor(c)!ResumeEnds
    PROVE  ExecutorInv(c)'
  <1>1. pc = "paused" /\ UNCHANGED <<mode, refunded, work>>
    BY DEF Executor!ResumeWithCall, Executor!ResumePlan, Executor!_apply_corrective_rejection,
           Executor!ResumeClarify, Executor!ResumeEnds, Executor!Resume
  <1>2. /\ ExecutorTypes(c) /\ interrupt # 0 /\ interrupt \in 1 .. Len(calls)
        /\ CallIsSound(c, interrupt) /\ sub[interrupt].env \in {"approval", "clarify", "plan"}
    BY <1>1 DEF ExecutorInv, InterruptIsFirst, ExecutorTypes
  <1>3. /\ mode \in c.modes /\ tool_calls \in Nat /\ refunded \in Nat /\ work \in Nat
        /\ calls[interrupt].tool \in c.tools
    <2>1. calls[interrupt] \in [tool : c.tools, approved : BOOLEAN]
      BY <1>2, ElementOfSeq, Zenon DEF ExecutorTypes
    <2> QED BY <1>2, <2>1 DEF ExecutorTypes
  <1>4. RefundsOnce(c) => WorkIsPaid /\ WorkIsBounded(c)
    BY DEF ExecutorInv
  <1>5. CASE Executor(c)!ResumeWithCall
    <2>1. PICK planned : planned = <<[tool |-> calls[interrupt].tool, approved |-> TRUE]>>
      OBVIOUS
    <2>2. Executor(c)!Execute(planned) /\ UNCHANGED tool_calls
      BY <1>2, <1>5, <2>1, PendingIsTheInterrupt DEF Executor!ResumeWithCall
    <2>3. planned \in Seq([tool : c.tools, approved : BOOLEAN])
      <3>1. [tool |-> calls[interrupt].tool, approved |-> TRUE] \in [tool : c.tools, approved : BOOLEAN]
        BY <1>3
      <3>2. \A T, x : x \in T => <<x>> \in Seq(T)
        OBVIOUS
      <3> QED BY <2>1, <3>1, <3>2, Zenon
    <2>4. ASSUME RefundsOnce(c)
          PROVE  work + refunded <= tool_calls /\ work + Cardinality(Workers') <= c.budget
      <3>1. calls' = planned /\ Len(planned) = 1 /\ planned[1].tool = calls[interrupt].tool
        BY <2>1, <2>2 DEF Executor!Execute
      <3>2. Workers' = IF calls[interrupt].tool \in {"read", "write"} THEN {1} ELSE {}
        BY <3>1 DEF Workers
      <3>3. /\ work + refunded <= tool_calls /\ work <= c.budget
            /\ work - Cardinality(Working) + Cardinality(Workers) <= c.budget
        BY <1>1, <1>4, <2>4 DEF WorkIsPaid, WorkIsBounded
      <3>4. CASE calls[interrupt].tool \in {"read", "write"}
        <4>1. interrupt \in Workers /\ interrupt \notin Working
          BY <1>2, <3>4 DEF Workers, Working, CallIsSound
        <4>2. /\ IsFiniteSet(Workers) /\ IsFiniteSet(Working)
              /\ Cardinality(Workers) \in Nat /\ Cardinality(Working) \in Nat
          BY <1>2, WorkersAreCounted
        <4>3. Cardinality(Working \cup {interrupt}) = Cardinality(Working) + 1
          BY <4>1, <4>2, FS_AddElement
        <4>4. (Working \cup {interrupt}) \in SUBSET Workers
          BY <4>1 DEF Working
        <4>5. Cardinality(Working \cup {interrupt}) <= Cardinality(Workers)
          BY <4>2, <4>4, FS_Subset
        <4>6. work + 1 <= c.budget
          BY <1>3, <3>3, <4>2, <4>3, <4>5, ExecutorConstants
        <4>7. Cardinality(Workers') = 1
          BY <3>2, <3>4, FS_Singleton
        <4> QED BY <3>3, <4>6, <4>7
      <3>5. CASE calls[interrupt].tool \notin {"read", "write"}
        <4>1. Cardinality(Workers') = 0
          BY <3>2, <3>5, FS_EmptySet
        <4> QED BY <1>3, <3>3, <4>1
      <3> QED BY <3>4, <3>5
    <2> QED BY <1>1, <1>3, <2>2, <2>3, <2>4, ExecuteBegins
  <1>6. ASSUME UNCHANGED <<calls, at, stage, sub, result, interrupt, ran, refused>>,
               pc' \in {"llm", "end"}, tool_calls' \in Nat,
               RefundsOnce(c) => work + refunded <= tool_calls'
        PROVE  ExecutorInv(c)'
    <2>1. ASSUME RefundsOnce(c)
          PROVE  (WorkIsPaid /\ WorkIsBounded(c))'
      <3>1. Working' = Working /\ Workers' = Workers
        BY <1>6 DEF Working, Workers
      <3> QED BY <1>1, <1>4, <1>6, <2>1, <3>1 DEF WorkIsPaid, WorkIsBounded
    <2>2. refunded' \in Nat /\ pc' \in {"llm", "store", "paused", "end"} /\ pc' # "paused" /\ pc # "units"
      BY <1>1, <1>3, <1>6
    <2> QED BY <1>1, <1>6, <2>1, <2>2, BetweenTurns
  <1>7. CASE Executor(c)!ResumePlan \/ Executor(c)!_apply_corrective_rejection
    <2>1. /\ pc' = "llm" /\ tool_calls' = IF tool_calls > 0 THEN tool_calls - 1 ELSE 0
          /\ UNCHANGED <<calls, at, stage, sub, result, interrupt, ran, refused>>
          /\ sub[interrupt].env = "plan" \/ c.corrective
      BY <1>7 DEF Executor!ResumePlan, Executor!_apply_corrective_rejection, Executor!Refund, Executor!turn
    <2>2. ASSUME RefundsOnce(c)
          PROVE  work + refunded <= tool_calls'
      <3>1. calls[interrupt].tool # "todo"
        <4>1. CASE sub[interrupt].env = "plan"
          BY <1>2, <4>1 DEF CallIsSound
        <4>2. CASE c.corrective
          BY <1>3, <2>2, <4>2 DEF RefundsOnce, Executor!Housekeeping
        <4> QED BY <2>1, <4>1, <4>2
      <3>2. work + 1 + refunded <= tool_calls
        BY <1>1, <1>4, <2>2, <3>1 DEF WorkIsPaid
      <3> QED BY <1>3, <2>1, <3>2
    <2>3. tool_calls' \in Nat /\ pc' \in {"llm", "end"}
      BY <1>3, <2>1
    <2> QED BY <1>6, <2>1, <2>2, <2>3
  <1>8. CASE Executor(c)!ResumeClarify \/ Executor(c)!ResumeEnds
    <2>1. /\ pc' \in {"llm", "end"} /\ UNCHANGED <<tool_calls, calls, at, stage, sub, result, interrupt, ran, refused>>
      BY <1>8 DEF Executor!ResumeClarify, Executor!ResumeEnds, Executor!turn
    <2>2. RefundsOnce(c) => work + refunded <= tool_calls'
      BY <1>1, <1>4, <2>1 DEF WorkIsPaid
    <2>3. tool_calls' \in Nat
      BY <1>3, <2>1
    <2> QED BY <1>6, <2>1, <2>2, <2>3
  <1> QED BY <1>5, <1>7, <1>8

\* An abort changes nothing the invariant speaks of.
LEMMA ExecutorStays ==
    ASSUME NEW c \in Executors, ExecutorInv(c),
           UNCHANGED <<mode, pc, calls, at, stage, sub, result, interrupt, ran, refused,
                       work, tool_calls, refunded>>
    PROVE  ExecutorInv(c)'
  <1>1. ExecutorTypes(c)' /\ ResultIsMerged' /\ (RefundsOnce(c) => WorkIsPaid' /\ WorkIsBounded(c)')
    BY DEF ExecutorInv, ExecutorTypes, ResultIsMerged, WorkIsPaid, WorkIsBounded, Working, Workers
  <1>2. \A i \in 1 .. Len(calls') : CallIsSound(c, i)'
    BY DEF ExecutorInv, CallIsSound
  <1>3. UnitsAreInOrder(c)' /\ InterruptIsFirst(c)'
    BY DEF ExecutorInv, UnitsAreInOrder, InterruptIsFirst, Executor!NothingPastAnInterrupt,
           Executor!Unit, Executor!SameUnit, Executor!is_call_concurrency_safe
  <1> QED BY <1>1, <1>2, <1>3 DEF ExecutorInv, RefundsOnce, Executor!Housekeeping

LEMMA ExecutorStep ==
    ASSUME NEW c \in Executors, ExecutorInv(c), Executor(c)!Next
    PROVE  ExecutorInv(c)'
  <1>1. CASE Executor(c)!finalize
    <2>1. /\ pc = "llm" /\ pc' = "end"
          /\ UNCHANGED <<mode, calls, at, stage, sub, result, interrupt, ran, refused,
                         work, tool_calls, refunded>>
      BY <1>1 DEF Executor!finalize, Executor!turn
    <2>2. ASSUME RefundsOnce(c)
          PROVE  (WorkIsPaid /\ WorkIsBounded(c))'
      <3>1. Working' = Working /\ Workers' = Workers /\ WorkIsPaid /\ WorkIsBounded(c)
        BY <2>1, <2>2 DEF Working, Workers, ExecutorInv
      <3> QED BY <2>1, <3>1 DEF WorkIsPaid, WorkIsBounded
    <2>3. tool_calls' \in Nat /\ refunded' \in Nat
      BY <2>1 DEF ExecutorInv, ExecutorTypes
    <2> QED BY <2>1, <2>2, <2>3, BetweenTurns
  <1>2. CASE Executor(c)!Abort
    BY <1>2, ExecutorStays DEF Executor!Abort, Executor!turn
  <1>3. CASE \E i \in 1 .. c.calls : Executor(c)!CallStep(i)
    BY <1>3, CallStepMoves, CallMoveKeeps
  <1> QED BY <1>1, <1>2, <1>3, TurnIsClamped, UnitEndsKeeps, ExecutorStores, ExecutorResumes
          DEF Executor!Next, Executor!TurnStep

LEMMA ExecutorInitially ==
    ASSUME NEW c \in Executors, Executor(c)!Init
    PROVE  ExecutorInv(c)
  <1>1. /\ mode \in c.modes /\ pc = "llm" /\ calls = <<>> /\ at = 1 /\ stage = <<>> /\ sub = <<>>
        /\ result = <<>> /\ interrupt = 0 /\ ran = {} /\ refused = {}
        /\ tool_calls = 0 /\ refunded = 0 /\ work = 0
    BY DEF Executor!Init
  <1>2. Len(calls) = 0 /\ Len(result) = 0
    BY <1>1
  <1>3. ExecutorTypes(c)
    <2>1. calls \in Seq([tool : c.tools, approved : BOOLEAN]) /\ result \in Seq([i : Nat, env : Envelope])
      BY <1>1
    <2>2. /\ stage \in [1 .. Len(calls) -> {"idle", "gate", "input", "args", "running", "done"}]
          /\ sub \in [1 .. Len(calls) -> Outcome]
      BY <1>1, <1>2
    <2> QED BY <1>1, <1>2, <2>1, <2>2 DEF ExecutorTypes
  <1>4. UnitsAreInOrder(c) /\ ResultIsMerged /\ InterruptIsFirst(c)
    BY <1>1, <1>2 DEF UnitsAreInOrder, ResultIsMerged, InterruptIsFirst, Executor!NothingPastAnInterrupt
  <1>5. Working = {} /\ Cardinality(Working) = 0
    BY <1>1, FS_EmptySet DEF Working
  <1>6. WorkIsPaid /\ WorkIsBounded(c)
    BY <1>1, <1>5, ExecutorConstants DEF WorkIsPaid, WorkIsBounded
  <1> QED BY <1>2, <1>3, <1>4, <1>6 DEF ExecutorInv

\* The properties of the executor follow.
LEMMA ExecutorIsSafe ==
    ASSUME NEW c \in Executors, ExecutorInv(c)
    PROVE  /\ Executor(c)!TurnBudget /\ Executor(c)!RunsOnlyAllowed
           /\ Executor(c)!ShownIsWhatRuns /\ Executor(c)!NothingPastAnInterrupt
           /\ RefundsOnce(c) => Executor(c)!RunBudget
  <1>1. ran \subseteq 1 .. Len(calls) /\ \A i \in 1 .. Len(calls) : CallIsSound(c, i)
    BY DEF ExecutorInv, ExecutorTypes
  <1>2. Executor(c)!TurnBudget
    <2>1. SUFFICES ASSUME mode = "allow_tools" PROVE Cardinality(ran) <= c.policy
      BY ExecutorCounts DEF Executor!TurnBudget
    <2>2. c.policy \in Nat
      BY ExecutorConstants
    <2>3. ran \in SUBSET (1 .. c.policy)
      BY <1>1, <2>1, <2>2 DEF CallIsSound
    <2>4. 1 \in Int /\ c.policy \in Int
      BY <2>2
    <2>5. /\ IsFiniteSet(1 .. c.policy)
          /\ Cardinality(1 .. c.policy) = IF 1 > c.policy THEN 0 ELSE c.policy - 1 + 1
      BY <2>4, FS_Interval
    <2>6. Cardinality(ran) <= Cardinality(1 .. c.policy)
      BY <2>3, <2>5, FS_Subset
    <2> QED BY <2>2, <2>5, <2>6
  <1>3. Executor(c)!RunsOnlyAllowed
    BY <1>1 DEF Executor!RunsOnlyAllowed, CallIsSound
  <1>4. Executor(c)!ShownIsWhatRuns
    BY PendingIsTheInterrupt DEF Executor!ShownIsWhatRuns, ExecutorInv, InterruptIsFirst
  <1>5. Executor(c)!NothingPastAnInterrupt
    BY DEF ExecutorInv, InterruptIsFirst
  <1>6. RefundsOnce(c) => Executor(c)!RunBudget
    BY DEF ExecutorInv, WorkIsBounded, Executor!RunBudget
  <1> QED BY <1>2, <1>3, <1>4, <1>5, <1>6

\* No step starts a handler when the run is aborted.
LEMMA AbortedStartsNothing ==
    ASSUME NEW c \in Executors, Executor(c)!Next
    PROVE  ran' \subseteq ran \/ ~aborted
  <1>1. CASE \E i \in 1 .. c.calls : Executor(c)!CallStep(i)
    BY <1>1
    DEF Executor!CallStep, Executor!Enter, Executor!_apply_tool_gate, Executor!on_input,
        Executor!StartHandler, Executor!_allowed_precheck_blocked, Executor!execute_allowed_path
  <1>2. CASE Executor(c)!llm_call \/ Executor(c)!ResumeWithCall
    BY <1>2 DEF Executor!llm_call, Executor!ResumeWithCall, Executor!Execute
  <1>3. CASE \/ Executor(c)!finalize \/ Executor(c)!Abort \/ Executor(c)!UnitEnds
             \/ Executor(c)!_store_tool_stage_outputs \/ Executor(c)!ResumePlan
             \/ Executor(c)!_apply_corrective_rejection \/ Executor(c)!ResumeClarify
             \/ Executor(c)!ResumeEnds
    BY <1>3
    DEF Executor!finalize, Executor!Abort, Executor!UnitEnds, Executor!_store_tool_stage_outputs,
        Executor!ResumePlan, Executor!_apply_corrective_rejection, Executor!ResumeClarify,
        Executor!ResumeEnds, Executor!turn
  <1> QED BY <1>1, <1>2, <1>3 DEF Executor!Next, Executor!TurnStep

-----------------------------------------------------------------------------
(***************************************************************************)
(* The planning gate.                                                      *)
(***************************************************************************)
GateEnvelopes(c) == [call : Gate(c)!Calls, payload : BOOLEAN,
                     outcome : {"new", "started", "denied", "interrupt", "ran"}]
GatePolicies(c) == [allowed : SUBSET (Gate(c)!Tools \cup c.allowed), denied : SUBSET Gate(c)!Tools,
                    continue_without_plan : BOOLEAN, approved : BOOLEAN]
GateLogs(c) == [declared : BOOLEAN, approved : BOOLEAN, denied : SUBSET Gate(c)!Calls,
                first : Gate(c)!Calls \cup {None},
                ran : Seq([call : Gate(c)!Calls, by : {"grant", "plain", "plan", "bypass"}]),
                owed : BOOLEAN, asked : c.plans \cup {None}]

GateTypes(c) ==
    /\ policy \in GatePolicies(c) /\ hostForce \in BOOLEAN
    /\ refinement \in Gate(c)!Refinement \cup {None}
    /\ ledger \in Gate(c)!Ledger \cup {None}
    /\ phase \in {"model", "tools", "approved", "paused", "ended"}
    /\ todo \in Seq(Gate(c)!Calls)
    /\ batch \in Seq(GateEnvelopes(c)) /\ envelopes \in Seq(GateEnvelopes(c))
    /\ plan \in c.plans \cup {None}
    /\ log \in GateLogs(c)

\* A task has no payload before it returns; a plan that is let through asks for approval,
\* unless it is the approved one.
EnvelopeIsSound(e, ph) ==
    /\ e.outcome \in {"new", "started"} => e.payload = FALSE
    /\ e.outcome = "interrupt" => e.call.tool = "exit_plan_mode_v2" /\ e.payload = TRUE
    /\ e.call.tool = "exit_plan_mode_v2" /\ e.payload = TRUE /\ e.outcome # "denied" =>
          e.outcome = "interrupt" \/ ph = "approved"

\* The interrupt is a plan one of the envelopes proposes, and the turn stops there.
TurnIsSound(c) ==
    /\ phase \notin {"tools", "approved"} => todo = <<>> /\ batch = <<>> /\ envelopes = <<>>
    /\ Len(todo) + Len(batch) + Len(envelopes) <= c.calls
    /\ batch # <<>> => plan = None
    /\ phase = "paused" => plan # None
    /\ \A i \in 1 .. Len(batch) : EnvelopeIsSound(batch[i], phase)
    /\ \A i \in 1 .. Len(envelopes) :
          EnvelopeIsSound(envelopes[i], phase) /\ (envelopes[i].outcome = "interrupt" => plan # None)
    /\ phase \in {"tools", "approved"} /\ plan # None =>
          \E i \in 1 .. Len(envelopes) :
              envelopes[i].outcome = "interrupt" /\ envelopes[i].call.arg = plan

\* A declaration counts, or will at the end of the tool stage.
Declares(e) == e.call.tool = "continue_without_plan" /\ e.payload = TRUE
WordIsOut ==
    \/ policy.continue_without_plan = TRUE
    \/ \E i \in 1 .. Len(envelopes) : Declares(envelopes[i])
    \/ \E i \in 1 .. Len(batch) : Declares(batch[i])

RanBy(i, why) == i \in 1 .. Len(log.ran) /\ log.ran[i].by = why

\* A grant is armed by a declaration for a call that was denied; when it was used, either the
\* ledger says so or the declaration counts and no grant is asked for.
GrantIsSpent ==
    /\ ledger # None => ledger.first \in log.denied
    /\ ledger # None /\ ledger.armed = TRUE => WordIsOut /\ log.declared = TRUE
    /\ \A i : RanBy(i, "grant") =>
          /\ log.ran[i].call \in log.denied /\ log.declared = TRUE /\ WordIsOut
          /\ policy.continue_without_plan = TRUE \/ (ledger # None /\ ledger.consumed = TRUE)
    /\ \A i, j : RanBy(i, "grant") /\ RanBy(j, "grant") => i = j
    /\ policy.approved = TRUE => log.approved = TRUE
    /\ \A i : RanBy(i, "plan") => log.approved = TRUE

\* Outside a revision a declaration is never denied, so that it counts only when it ran.
WordIsHeard ==
    /\ "continue_without_plan" \in policy.allowed /\ policy.denied = {}
    /\ WordIsOut => log.declared = TRUE
    /\ \A i : RanBy(i, "bypass") => log.declared = TRUE

\* Inside one nothing but the plan is allowed until another plan is put before the operator.
RevisionIsLocked(c) ==
    /\ log.ran = <<>> /\ phase # "approved"
    /\ phase \in {"model", "tools"} =>
          /\ policy.allowed = {"exit_plan_mode_v2"} /\ refinement # None
          /\ refinement.content_hash = log.asked /\ log.asked \in c.plans
    /\ phase = "paused" => plan # log.asked

OnlyByAWord(c) ==
    /\ hostForce = FALSE
    /\ log.owed = FALSE => WordIsHeard
    /\ log.owed = TRUE => RevisionIsLocked(c)

GateInv(c) ==
    /\ GateTypes(c) /\ TurnIsSound(c) /\ GrantIsSpent
    /\ PlansOneByOne(c) => OnlyByAWord(c)

LEMMA GateConstants ==
    ASSUME NEW c \in PlanningGates
    PROVE  /\ c.calls \in Nat /\ c.calls > 0 /\ c.reuses \in BOOLEAN /\ None \notin c.plans
           /\ None \notin Gate(c)!Ledger /\ None \notin Gate(c)!Refinement
  BY GatesAssumption DEF Gate!PlanningGateAssumption

LEMMA GateCall ==
    ASSUME NEW c, NEW x \in Gate(c)!Calls
    PROVE  /\ x.tool \in {"continue_without_plan", "exit_plan_mode_v2", "gated", "plain"}
           /\ x.tool = "exit_plan_mode_v2" => x.arg \in c.plans
  BY DEF Gate!Calls, Gate!Gated, Gate!Exit, Gate!Declare, Gate!Plain

LEMMA GateInitially ==
    ASSUME NEW c \in PlanningGates, Gate(c)!Init
    PROVE  GateInv(c)
  <1>1. /\ hostForce = FALSE /\ refinement = None /\ ledger = None /\ phase = "model" /\ todo = <<>>
        /\ batch = <<>> /\ envelopes = <<>> /\ plan = None
        /\ policy = [allowed |-> c.allowed, denied |-> {},
                     continue_without_plan |-> FALSE, approved |-> FALSE]
        /\ log = [declared |-> FALSE, approved |-> FALSE, denied |-> {}, first |-> None,
                  ran |-> <<>>, owed |-> FALSE, asked |-> None]
    BY DEF Gate!Init, Gate!FreshLog
  <1>2. Len(todo) = 0 /\ Len(batch) = 0 /\ Len(envelopes) = 0 /\ Len(log.ran) = 0
    BY <1>1
  <1>3. GateTypes(c)
    <2>1. \A S : <<>> \in Seq(S)
      OBVIOUS
    <2>2. policy \in GatePolicies(c)
      BY <1>1 DEF GatePolicies
    <2>3. log \in GateLogs(c)
      BY <1>1, <2>1 DEF GateLogs
    <2> QED BY <1>1, <2>1, <2>2, <2>3 DEF GateTypes
  <1>4. TurnIsSound(c)
    BY <1>1, <1>2, GateConstants DEF TurnIsSound
  <1>5. \A i, why : ~RanBy(i, why)
    BY <1>2 DEF RanBy
  <1>6. GrantIsSpent
    BY <1>1, <1>5 DEF GrantIsSpent
  <1>7. ASSUME PlansOneByOne(c) PROVE OnlyByAWord(c)
    <2>1. ~WordIsOut
      BY <1>1, <1>2 DEF WordIsOut
    <2> QED BY <1>1, <1>5, <1>7, <2>1 DEF OnlyByAWord, WordIsHeard, PlansOneByOne, Gate!Declare
  <1> QED BY <1>3, <1>4, <1>6, <1>7 DEF GateInv

\* A step that leaves the ledger and the log alone and takes no declaration back.
LEMMA GrantStays ==
    ASSUME GrantIsSpent, UNCHANGED <<ledger, log, policy>>, WordIsOut => WordIsOut'
    PROVE  GrantIsSpent'
  BY DEF GrantIsSpent, RanBy

LEMMA WordStays ==
    ASSUME NEW c, OnlyByAWord(c), UNCHANGED <<hostForce, log, policy, refinement>>,
           \/ UNCHANGED phase /\ phase # "paused"
           \/ phase = "model" /\ phase' = "tools"
           \/ phase' = "ended",
           WordIsOut' => WordIsOut
    PROVE  OnlyByAWord(c)'
  BY DEF OnlyByAWord, WordIsHeard, RevisionIsLocked, RanBy

\* A leg and a run start with an empty ledger and an empty log.
LEMMA GrantStarts ==
    ASSUME ledger' = None, log'.ran = <<>>, policy'.approved = TRUE => log'.approved = TRUE
    PROVE  GrantIsSpent' /\ \A i, why : ~RanBy(i, why)'
  <1>1. \A i, why : ~RanBy(i, why)'
    BY DEF RanBy
  <1> QED BY <1>1 DEF GrantIsSpent

\* What evaluating a call decides and writes.
Granted(x) ==
    /\ ledger # None /\ ledger.armed = TRUE /\ ledger.consumed = FALSE /\ ledger.first = x
    /\ policy.continue_without_plan = FALSE
    /\ ledger' = [ledger EXCEPT !.armed = FALSE, !.consumed = TRUE]

StrategyDenies(x) ==
    /\ log' = [log EXCEPT !.denied = @ \cup {x}, !.first = IF @ = None THEN x ELSE @]
    /\ \/ ledger' = ledger
       \/ ledger = None /\ ledger' = [first |-> x, armed |-> FALSE, consumed |-> FALSE]
    /\ policy.continue_without_plan = FALSE

CallRuns(x, why) ==
    /\ log' = [log EXCEPT !.ran = Append(@, [call |-> x, by |-> why])]
    /\ \/ why = "grant" /\ Granted(x)
       \/ why = "plain" /\ UNCHANGED ledger
       \/ why = "plan" /\ policy.approved = TRUE /\ UNCHANGED ledger
       \/ why = "bypass" /\ policy.continue_without_plan = TRUE /\ UNCHANGED ledger

EvaluationMove(x, d) ==
    /\ x.tool \notin policy.allowed => d = "deny"
    /\ x.tool \in policy.allowed /\ policy.denied = {} => d # "deny"
    /\ x.tool \in {"continue_without_plan", "exit_plan_mode_v2"} => UNCHANGED <<ledger, log>>
    /\ \/ UNCHANGED <<ledger, log>>
       \/ d # "deny" /\ StrategyDenies(x)
       \/ d # "deny" /\ \E why : CallRuns(x, why)

LEMMA EvaluatedMoves ==
    ASSUME NEW c \in PlanningGates, NEW x \in Gate(c)!Calls, NEW d, NEW inTask \in BOOLEAN,
           GateTypes(c), d = Gate(c)!evaluate_tool_policy(x), Gate(c)!Evaluated(x, d, inTask)
    PROVE  EvaluationMove(x, d)
  <1> DEFINE open == policy.continue_without_plan \/ policy.approved
  <1>1. /\ x.tool \in {"continue_without_plan", "exit_plan_mode_v2", "gated", "plain"}
        /\ policy.continue_without_plan \in BOOLEAN /\ policy.approved \in BOOLEAN
        /\ ledger # None => ledger.armed \in BOOLEAN /\ ledger.consumed \in BOOLEAN
    BY GateCall DEF GateTypes, GatePolicies, Gate!Ledger
  <1>2. d = IF x.tool \notin policy.allowed \/ x.tool \in policy.denied THEN "deny"
            ELSE IF x.tool # "gated" \/ open THEN "allow"
            ELSE IF Gate(c)!GrantMatches(x) THEN "grant" ELSE "strategy"
    BY DEF Gate!evaluate_tool_policy, Gate!Gated, Gate!_force_planning_has_approved_plan
  <1>3. x.tool \notin policy.allowed => d = "deny"
    BY <1>2
  <1>4. /\ x.tool \in policy.allowed /\ policy.denied = {} => d # "deny"
        /\ x.tool \in {"continue_without_plan", "exit_plan_mode_v2"} => UNCHANGED <<ledger, log>>
    <2>1. ASSUME x.tool \in {"continue_without_plan", "exit_plan_mode_v2"}
          PROVE  ledger' = ledger /\ log' = log
      <3>1. d \in {"allow", "deny"} /\ x.tool \notin {"gated", "plain"}
        BY <1>2, <2>1
      <3> QED BY <3>1 DEF Gate!Evaluated, Gate!Allowed, Gate!Gated, Gate!Plain
    <2> QED BY <1>2, <2>1
  <1>5. CASE d = "deny"
    <2>1. ledger' = ledger /\ log' = log
      BY <1>5 DEF Gate!Evaluated, Gate!Allowed
    <2> QED BY <1>3, <1>4, <2>1 DEF EvaluationMove
  <1>6. CASE d = "strategy"
    <2>1. log' = [log EXCEPT !.denied = @ \cup {x}, !.first = IF @ = None THEN x ELSE @]
      BY <1>6 DEF Gate!Evaluated, Gate!Allowed
    <2>2. ledger' = Gate(c)!record_first_strategy_denial(x, inTask)
      BY <1>6 DEF Gate!Evaluated, Gate!Allowed
    <2>3. \/ ledger' = ledger
          \/ ledger = None /\ ledger' = [first |-> x, armed |-> FALSE, consumed |-> FALSE]
      BY <2>2 DEF Gate!record_first_strategy_denial
    <2>4. policy.continue_without_plan = FALSE
      BY <1>1, <1>2, <1>6
    <2> QED BY <1>3, <1>4, <1>6, <2>1, <2>3, <2>4 DEF EvaluationMove, StrategyDenies
  <1>7. CASE d = "grant"
    <2>1. ledger' = [ledger EXCEPT !.armed = FALSE, !.consumed = TRUE]
      BY <1>7 DEF Gate!Evaluated, Gate!consume_strategy_grant
    <2>2. x.tool = "gated" /\ ~open /\ Gate(c)!GrantMatches(x)
      BY <1>2, <1>7
    <2>3. log' = [log EXCEPT !.ran = Append(@, [call |-> x, by |-> "grant"])]
      BY <1>7, <2>2 DEF Gate!Evaluated, Gate!Allowed, Gate!Gated
    <2>4. Granted(x)
      BY <1>1, <2>1, <2>2 DEF Granted, Gate!GrantMatches
    <2>5. CallRuns(x, "grant")
      BY <2>3, <2>4 DEF CallRuns
    <2> QED BY <1>3, <1>4, <1>7, <2>5 DEF EvaluationMove
  <1>8. CASE d = "allow"
    <2>1. ledger' = ledger
      BY <1>8 DEF Gate!Evaluated
    <2>2. CASE x.tool \notin {"gated", "plain"}
      <3>1. log' = log
        BY <1>8, <2>2 DEF Gate!Evaluated, Gate!Allowed, Gate!Gated, Gate!Plain
      <3> QED BY <1>3, <1>4, <2>1, <3>1 DEF EvaluationMove
    <2>3. CASE x.tool = "plain"
      <3>1. log' = [log EXCEPT !.ran = Append(@, [call |-> x, by |-> "plain"])]
        BY <1>8, <2>3 DEF Gate!Evaluated, Gate!Allowed, Gate!Gated, Gate!Plain
      <3>2. CallRuns(x, "plain")
        BY <2>1, <3>1 DEF CallRuns
      <3> QED BY <1>3, <1>4, <1>8, <3>2 DEF EvaluationMove
    <2>4. CASE x.tool = "gated"
      <3>1. open
        BY <1>2, <1>8, <2>4
      <3>2. CASE policy.approved = TRUE
        <4>1. log' = [log EXCEPT !.ran = Append(@, [call |-> x, by |-> "plan"])]
          BY <1>8, <2>4, <3>2 DEF Gate!Evaluated, Gate!Allowed, Gate!Gated, Gate!Plain
        <4>2. CallRuns(x, "plan")
          BY <2>1, <3>2, <4>1 DEF CallRuns
        <4> QED BY <1>3, <1>4, <1>8, <4>2 DEF EvaluationMove
      <3>3. CASE policy.approved = FALSE
        <4>1. log' = [log EXCEPT !.ran = Append(@, [call |-> x, by |-> "bypass"])]
          BY <1>8, <2>4, <3>3 DEF Gate!Evaluated, Gate!Allowed, Gate!Gated, Gate!Plain
        <4>2. policy.continue_without_plan = TRUE
          BY <1>1, <3>1, <3>3
        <4>3. CallRuns(x, "bypass")
          BY <2>1, <4>1, <4>2 DEF CallRuns
        <4> QED BY <1>3, <1>4, <1>8, <4>3 DEF EvaluationMove
      <3> QED BY <1>1, <3>2, <3>3
    <2> QED BY <1>1, <2>2, <2>3, <2>4
  <1> QED BY <1>2, <1>5, <1>6, <1>7, <1>8

\* What it keeps.
EvaluationKept(c) ==
    /\ ledger' \in Gate(c)!Ledger \cup {None} /\ log' \in GateLogs(c)
    /\ log'.owed = log.owed /\ log'.asked = log.asked /\ log'.declared = log.declared
    /\ \A i : RanBy(i, "bypass")' => RanBy(i, "bypass") \/ policy.continue_without_plan = TRUE

LEMMA EvaluationKeeps ==
    ASSUME NEW c \in PlanningGates, NEW x \in Gate(c)!Calls, NEW d,
           GateTypes(c), GrantIsSpent, EvaluationMove(x, d), UNCHANGED policy, WordIsOut => WordIsOut'
    PROVE  GrantIsSpent' /\ EvaluationKept(c)
  <1>1. log \in GateLogs(c) /\ (ledger # None => ledger \in Gate(c)!Ledger)
    BY DEF GateTypes
  <1>2. CASE UNCHANGED <<ledger, log>>
    <2>1. GrantIsSpent'
      BY <1>2, GrantStays
    <2> QED BY <1>2, <2>1 DEF GateTypes, EvaluationKept, RanBy
  <1>3. CASE StrategyDenies(x)
    <2>1. /\ log'.denied = log.denied \cup {x} /\ log'.ran = log.ran /\ log'.declared = log.declared
          /\ log'.approved = log.approved /\ log'.owed = log.owed /\ log'.asked = log.asked
          /\ log' \in GateLogs(c)
      BY <1>1, <1>3 DEF StrategyDenies, GateLogs
    <2>2. ledger' # None => ledger'.first \in log'.denied
      BY <1>3, <2>1 DEF StrategyDenies, GrantIsSpent
    <2>3. ledger' # None /\ ledger'.armed = TRUE => ledger # None /\ ledger.armed = TRUE
      BY <1>3 DEF StrategyDenies
    <2>4. \A i, why : RanBy(i, why)' <=> RanBy(i, why)
      BY <2>1 DEF RanBy
    <2>5. ~(ledger = None /\ \E i : RanBy(i, "grant"))
      BY <1>3 DEF StrategyDenies, GrantIsSpent
    <2>6. \A i : RanBy(i, "grant") => ledger' = ledger
      BY <1>3, <2>5 DEF StrategyDenies
    <2>7. GrantIsSpent'
      BY <2>1, <2>2, <2>3, <2>4, <2>6 DEF GrantIsSpent
    <2>8. ledger' \in Gate(c)!Ledger \cup {None}
      <3>1. [first |-> x, armed |-> FALSE, consumed |-> FALSE] \in Gate(c)!Ledger
        BY DEF Gate!Ledger
      <3> QED BY <1>3, <3>1 DEF StrategyDenies, GateTypes
    <2> QED BY <2>1, <2>4, <2>7, <2>8 DEF EvaluationKept
  <1>4. ASSUME NEW why, CallRuns(x, why)
        PROVE  GrantIsSpent' /\ EvaluationKept(c)
    <2>1. PICK n \in Nat : n = Len(log.ran)
      BY <1>1 DEF GateLogs
    <2>2. /\ log'.ran = Append(log.ran, [call |-> x, by |-> why])
          /\ log'.denied = log.denied /\ log'.declared = log.declared
          /\ log'.approved = log.approved /\ log'.owed = log.owed /\ log'.asked = log.asked
      BY <1>1, <1>4 DEF CallRuns, GateLogs
    <2>3. why \in {"grant", "plain", "plan", "bypass"}
      BY <1>4 DEF CallRuns
    <2>4. log' \in GateLogs(c)
      <3>1. [call |-> x, by |-> why] \in [call : Gate(c)!Calls, by : {"grant", "plain", "plan", "bypass"}]
        BY <2>3
      <3>2. \A S, s, e : s \in Seq(S) /\ e \in S => Append(s, e) \in Seq(S)
        OBVIOUS
      <3>3. log.ran \in Seq([call : Gate(c)!Calls, by : {"grant", "plain", "plan", "bypass"}])
        BY <1>1 DEF GateLogs
      <3>4. Append(log.ran, [call |-> x, by |-> why])
              \in Seq([call : Gate(c)!Calls, by : {"grant", "plain", "plan", "bypass"}])
        BY <3>1, <3>2, <3>3, Zenon
      <3> QED BY <1>1, <1>4, <3>4 DEF CallRuns, GateLogs
    <2>5. \A i, w : RanBy(i, w)' <=> RanBy(i, w) \/ (i = n + 1 /\ w = why)
      <3>1. \A S, s, e : s \in Seq(S) => /\ Len(Append(s, e)) = Len(s) + 1
                                         /\ Append(s, e)[Len(s) + 1] = e
                                         /\ \A i \in 1 .. Len(s) : Append(s, e)[i] = s[i]
        OBVIOUS
      <3>2. log.ran \in Seq([call : Gate(c)!Calls, by : {"grant", "plain", "plan", "bypass"}])
        BY <1>1 DEF GateLogs
      <3>3. /\ Len(log'.ran) = n + 1 /\ log'.ran[n + 1] = [call |-> x, by |-> why]
            /\ \A i \in 1 .. n : log'.ran[i] = log.ran[i]
        BY <2>1, <2>2, <3>1, <3>2
      <3>4. log'.ran[n + 1].by = why
        BY <3>3
      <3> QED BY <2>1, <3>3, <3>4 DEF RanBy
    <2>6. log'.ran[n + 1].call = x /\ \A i, w : RanBy(i, w) => log'.ran[i] = log.ran[i]
      BY <1>1, <2>1, <2>2 DEF RanBy, GateLogs
    <2>7. \A w : ~RanBy(n + 1, w)
      BY <2>1 DEF RanBy
    <2>8. ledger' \in Gate(c)!Ledger \cup {None}
      BY <1>1, <1>4 DEF CallRuns, Granted, GateTypes, Gate!Ledger
    <2>9. CASE why # "grant"
      <3>1. UNCHANGED ledger
        BY <1>4, <2>9 DEF CallRuns
      <3>2. policy.approved = TRUE \/ why # "plan"
        BY <1>4 DEF CallRuns
      <3>3. policy.continue_without_plan = TRUE \/ why # "bypass"
        BY <1>4 DEF CallRuns
      <3>4. \A i : RanBy(i, "grant")' => RanBy(i, "grant")
        BY <2>5, <2>9
      <3>5. \A i : RanBy(i, "plan")' => RanBy(i, "plan") \/ policy.approved = TRUE
        BY <2>5, <3>2
      <3>6. GrantIsSpent'
        BY <2>2, <2>6, <3>1, <3>4, <3>5 DEF GrantIsSpent
      <3> QED BY <2>2, <2>4, <2>5, <2>8, <3>3, <3>6 DEF EvaluationKept
    <2>10. CASE why = "grant"
      <3>1. /\ Granted(x) /\ ledger \in Gate(c)!Ledger
        BY <1>1, <1>4, <2>10 DEF CallRuns, Granted
      <3>2. ledger'.first = x /\ ledger'.armed = FALSE /\ ledger'.consumed = TRUE
        BY <3>1 DEF Granted, Gate!Ledger
      <3>3. ledger' # None
        <4>1. ledger' \in Gate(c)!Ledger
          BY <3>1 DEF Granted, Gate!Ledger
        <4> QED BY <4>1, GateConstants
      <3>4. x \in log.denied /\ log.declared = TRUE /\ WordIsOut
        BY <3>1 DEF Granted, GrantIsSpent
      <3>5. \A i : ~RanBy(i, "grant")
        BY <3>1 DEF Granted, GrantIsSpent
      <3>6. \A i : RanBy(i, "grant")' => i = n + 1
        BY <2>5, <3>5
      <3>7. \A i : RanBy(i, "plan")' => RanBy(i, "plan")
        BY <2>5, <2>10
      <3>8. GrantIsSpent'
        BY <2>2, <2>6, <3>2, <3>3, <3>4, <3>6, <3>7 DEF GrantIsSpent
      <3>9. \A i : RanBy(i, "bypass")' => RanBy(i, "bypass")
        BY <2>5, <2>10
      <3> QED BY <2>2, <2>4, <2>8, <3>8, <3>9 DEF EvaluationKept
    <2> QED BY <2>9, <2>10
  <1> QED BY <1>2, <1>3, <1>4 DEF EvaluationMove

LEMMA EvaluationWord ==
    ASSUME NEW c \in PlanningGates, NEW x \in Gate(c)!Calls, NEW d,
           GateTypes(c), OnlyByAWord(c), EvaluationMove(x, d), EvaluationKept(c),
           UNCHANGED <<hostForce, policy, refinement, phase, plan>>, phase \in {"tools", "approved"},
           WordIsOut' => WordIsOut \/ (x.tool = "continue_without_plan" /\ d = "deny")
    PROVE  OnlyByAWord(c)'
  <1>1. log.owed \in BOOLEAN
    BY DEF GateTypes, GateLogs
  <1>2. CASE log.owed = FALSE
    <2>1. WordIsHeard /\ log'.owed = FALSE /\ log'.declared = log.declared
      BY <1>2 DEF OnlyByAWord, EvaluationKept
    <2>2. WordIsOut' => WordIsOut
      BY <2>1 DEF WordIsHeard, EvaluationMove
    <2>3. \A i : RanBy(i, "bypass")' => log.declared = TRUE
      BY <2>1 DEF EvaluationKept, WordIsHeard, WordIsOut
    <2> QED BY <2>1, <2>2, <2>3 DEF OnlyByAWord, WordIsHeard
  <1>3. CASE log.owed = TRUE
    <2>1. RevisionIsLocked(c) /\ policy.allowed = {"exit_plan_mode_v2"}
      BY <1>3 DEF OnlyByAWord, RevisionIsLocked
    <2>2. UNCHANGED log
      BY <2>1 DEF EvaluationMove
    <2> QED BY <1>3, <2>1, <2>2 DEF OnlyByAWord, RevisionIsLocked
  <1> QED BY <1>1, <1>2, <1>3

\* The model plans a turn.
LEMMA GatePlans ==
    ASSUME NEW c \in PlanningGates, GateInv(c), Gate(c)!llm_call
    PROVE  GateInv(c)'
  <1>1. /\ phase = "model" /\ phase' = "tools" /\ envelopes' = <<>> /\ plan' = None
        /\ UNCHANGED <<policy, hostForce, refinement, ledger, batch, log>>
    BY DEF Gate!llm_call
  <1>2. PICK n \in 1 .. c.calls : todo' \in [1 .. n -> Gate(c)!Calls]
    BY DEF Gate!llm_call, Gate!PlannedCalls
  <1>3. GateTypes(c) /\ TurnIsSound(c) /\ GrantIsSpent /\ c.calls \in Nat
    BY GateConstants DEF GateInv
  <1>4. todo' \in Seq(Gate(c)!Calls) /\ Len(todo') = n
    <2>1. \A T, k, s : k \in Nat /\ s \in [1 .. k -> T] => s \in Seq(T) /\ Len(s) = k
      OBVIOUS
    <2>2. n \in Nat
      BY <1>3
    <2> QED BY <1>2, <2>1, <2>2, Zenon
  <1>5. batch = <<>> /\ envelopes = <<>> /\ Len(batch') = 0 /\ Len(envelopes') = 0
    BY <1>1, <1>3 DEF TurnIsSound
  <1>6. GateTypes(c)'
    <2>1. envelopes' \in Seq(GateEnvelopes(c))
      BY <1>1
    <2> QED BY <1>1, <1>3, <1>4, <2>1
        DEF GateTypes, GatePolicies, GateEnvelopes, GateLogs, Gate!Refinement, Gate!Ledger, Gate!Calls,
            Gate!Tools, Gate!Declare, Gate!Exit, Gate!Gated, Gate!Plain
  <1>7. TurnIsSound(c)'
    BY <1>1, <1>3, <1>4, <1>5 DEF TurnIsSound
  <1>8. WordIsOut' <=> WordIsOut
    BY <1>1, <1>5 DEF WordIsOut
  <1>9. GrantIsSpent'
    BY <1>1, <1>3, <1>8, GrantStays
  <1>10. PlansOneByOne(c) => OnlyByAWord(c)'
    BY <1>1, <1>8, WordStays DEF GateInv
  <1> QED BY <1>6, <1>7, <1>9, <1>10 DEF GateInv, PlansOneByOne, Gate!Declare

LEMMA GateTyped ==
    ASSUME NEW c,
           policy' \in GatePolicies(c), hostForce' \in BOOLEAN,
           refinement' \in Gate(c)!Refinement \cup {None}, ledger' \in Gate(c)!Ledger \cup {None},
           phase' \in {"model", "tools", "approved", "paused", "ended"},
           todo' \in Seq(Gate(c)!Calls), batch' \in Seq(GateEnvelopes(c)),
           envelopes' \in Seq(GateEnvelopes(c)), plan' \in c.plans \cup {None}, log' \in GateLogs(c)
    PROVE  GateTypes(c)'
  BY DEF GateTypes, GatePolicies, GateEnvelopes, GateLogs, Gate!Refinement, Gate!Ledger, Gate!Calls,
         Gate!Tools, Gate!Declare, Gate!Exit, Gate!Gated, Gate!Plain

\* A call that runs alone is no planning tool.
LEMMA GateRunsOne ==
    ASSUME NEW c \in PlanningGates, GateInv(c), Gate(c)!_execute_one_call
    PROVE  GateInv(c)'
  <1>1. PICK x, d, e :
          /\ x = Head(todo) /\ d = Gate(c)!evaluate_tool_policy(x)
          /\ e = IF Gate(c)!Allowed(d) THEN Gate(c)!AllowedEnvelope(x) ELSE Gate(c)!DeniedEnvelope(x)
    OBVIOUS
  <1>2. /\ phase \in {"tools", "approved"} /\ batch = <<>> /\ todo # <<>> /\ plan = None
        /\ ~Gate(c)!is_call_concurrency_safe(x) /\ Gate(c)!Evaluated(x, d, FALSE)
        /\ envelopes' = Append(envelopes, e) /\ todo' = Tail(todo)
        /\ UNCHANGED <<policy, hostForce, refinement, phase, batch, plan>>
    BY <1>1 DEF Gate!_execute_one_call, Gate!InTools, Gate!Stopped
  <1>3. /\ GateTypes(c) /\ TurnIsSound(c) /\ GrantIsSpent /\ c.calls \in Nat
        /\ todo \in Seq(Gate(c)!Calls) /\ envelopes \in Seq(GateEnvelopes(c))
    BY GateConstants DEF GateInv, GateTypes
  <1>4. /\ x \in Gate(c)!Calls /\ Tail(todo) \in Seq(Gate(c)!Calls)
        /\ Len(todo) \in Nat /\ Len(Tail(todo)) = Len(todo) - 1
    <2>1. \A T, s : s \in Seq(T) /\ s # <<>> => /\ Head(s) \in T /\ Tail(s) \in Seq(T)
                                              /\ Len(s) \in Nat /\ Len(Tail(s)) = Len(s) - 1
      OBVIOUS
    <2> QED BY <1>1, <1>2, <1>3, <2>1, Zenon
  <1>5. x.tool \in {"gated", "plain"}
    BY <1>2, <1>4, GateCall DEF Gate!is_call_concurrency_safe, Gate!Declare, Gate!Exit
  <1>6. /\ e \in GateEnvelopes(c) /\ e.call = x /\ e.outcome \in {"denied", "ran"}
    <2>1. e = [call |-> x, outcome |-> "ran", payload |-> TRUE]
          \/ e = [call |-> x, outcome |-> "denied", payload |-> FALSE]
      BY <1>1, <1>5 DEF Gate!AllowedEnvelope, Gate!DeniedEnvelope, Gate!Envelope, Gate!Exit, Gate!Declare,
                        Gate!_management_tool_denial_remediation
    <2>2. CASE e = [call |-> x, outcome |-> "ran", payload |-> TRUE]
      BY <1>4, <2>2 DEF GateEnvelopes
    <2>3. CASE e = [call |-> x, outcome |-> "denied", payload |-> FALSE]
      BY <1>4, <2>3 DEF GateEnvelopes
    <2> QED BY <2>1, <2>2, <2>3
  <1>7. /\ envelopes' \in Seq(GateEnvelopes(c)) /\ Len(envelopes) \in Nat
        /\ Len(envelopes') = Len(envelopes) + 1 /\ envelopes'[Len(envelopes) + 1] = e
        /\ \A i \in 1 .. Len(envelopes) : envelopes'[i] = envelopes[i]
    <2>1. \A S, s, y : s \in Seq(S) /\ y \in S =>
              /\ Append(s, y) \in Seq(S) /\ Len(s) \in Nat /\ Len(Append(s, y)) = Len(s) + 1
              /\ Append(s, y)[Len(s) + 1] = y /\ \A i \in 1 .. Len(s) : Append(s, y)[i] = s[i]
      OBVIOUS
    <2> QED BY <1>2, <1>3, <1>6, <2>1
  <1>8. EvaluationMove(x, d)
    BY <1>1, <1>2, <1>3, <1>4, EvaluatedMoves
  <1>9. WordIsOut' <=> WordIsOut
    <2>1. ~Declares(e)
      BY <1>5, <1>6 DEF Declares
    <2>2. \A i \in 1 .. Len(envelopes') : i \in 1 .. Len(envelopes) \/ i = Len(envelopes) + 1
      BY <1>7
    <2>3. \A i \in 1 .. Len(envelopes) : i \in 1 .. Len(envelopes')
      BY <1>7
    <2> QED BY <1>2, <1>7, <2>1, <2>2, <2>3 DEF WordIsOut, Declares
  <1>10. GrantIsSpent' /\ EvaluationKept(c)
    BY <1>2, <1>3, <1>4, <1>8, <1>9, EvaluationKeeps
  <1>11. GateTypes(c)'
    BY <1>2, <1>3, <1>4, <1>7, <1>10, GateTyped DEF GateTypes, EvaluationKept
  <1>12. TurnIsSound(c)'
    <2>1. Len(todo') + Len(batch') + Len(envelopes') <= c.calls
      BY <1>2, <1>3, <1>4, <1>7 DEF TurnIsSound
    <2>2. \A i \in 1 .. Len(envelopes') :
             EnvelopeIsSound(envelopes'[i], phase') /\ (envelopes'[i].outcome = "interrupt" => plan' # None)
      <3>1. EnvelopeIsSound(e, phase') /\ e.outcome # "interrupt"
        BY <1>5, <1>6 DEF EnvelopeIsSound
      <3>2. \A i \in 1 .. Len(envelopes) :
               EnvelopeIsSound(envelopes[i], phase') /\ (envelopes[i].outcome = "interrupt" => plan' # None)
        BY <1>2, <1>3 DEF TurnIsSound, EnvelopeIsSound
      <3> QED BY <1>7, <3>1, <3>2 DEF EnvelopeIsSound
    <2>3. batch' = <<>> /\ Len(batch') = 0 /\ plan' = None /\ phase' \in {"tools", "approved"}
      BY <1>2
    <2> QED BY <2>1, <2>2, <2>3 DEF TurnIsSound
  <1>13. PlansOneByOne(c) => OnlyByAWord(c)'
    BY <1>2, <1>3, <1>4, <1>8, <1>9, <1>10, EvaluationWord DEF GateInv
  <1> QED BY <1>10, <1>11, <1>12, <1>13 DEF GateInv, PlansOneByOne, Gate!Declare

\* A batch is as long as the run of concurrency-safe calls at the head of the plan.
LEMMA GateBatchLen ==
    ASSUME NEW c, todo \in Seq(Gate(c)!Calls), todo # <<>>, Gate(c)!is_call_concurrency_safe(Head(todo))
    PROVE  Gate(c)!BatchLen \in 1 .. Len(todo)
  <1> DEFINE Last(n) == n = Len(todo) \/ ~Gate(c)!is_call_concurrency_safe(todo[n + 1])
             K == {n \in 1 .. Len(todo) : Last(n)}
  <1>1. Len(todo) \in Nat /\ Len(todo) >= 1 /\ Head(todo) = todo[1]
    OBVIOUS
  <1>2. K \subseteq Nat /\ K # {}
    <2>1. Len(todo) \in K
      BY <1>1
    <2> QED BY <1>1, <2>1
  <1>3. PICK n \in K : \A m \in K : n <= m
    <2> HIDE DEF K
    <2> QED BY <1>2, NatHasLeast
  <1>4. \A i \in 1 .. n : Gate(c)!is_call_concurrency_safe(todo[i])
    <2>1. SUFFICES ASSUME NEW i \in 1 .. n PROVE Gate(c)!is_call_concurrency_safe(todo[i])
      OBVIOUS
    <2>2. CASE i = 1
      BY <1>1, <2>2
    <2>3. CASE i > 1
      <3>1. i - 1 \in 1 .. Len(todo) /\ i - 1 < n /\ (i - 1) + 1 = i /\ i - 1 # Len(todo)
        BY <1>1, <1>3, <2>3
      <3>2. i - 1 \notin K
        <4>1. n \in Nat /\ i \in Nat
          BY <1>1, <1>3
        <4> HIDE DEF K
        <4> QED BY <1>3, <3>1, <4>1
      <3> QED BY <3>1, <3>2
    <2> QED BY <1>1, <2>2, <2>3
  <1>5. /\ n \in 1 .. Len(todo)
        /\ \A i \in 1 .. n : Gate(c)!is_call_concurrency_safe(todo[i])
        /\ n < Len(todo) => ~Gate(c)!is_call_concurrency_safe(todo[n + 1])
    BY <1>1, <1>3, <1>4
  <1> HIDE DEF K, Last
  <1> QED BY <1>5 DEF Gate!BatchLen

LEMMA GateBatches ==
    ASSUME NEW c \in PlanningGates, GateInv(c), Gate(c)!_execute_parallel_batch
    PROVE  GateInv(c)'
  <1>1. /\ phase \in {"tools", "approved"} /\ batch = <<>> /\ todo # <<>> /\ plan = None
        /\ Gate(c)!is_call_concurrency_safe(Head(todo))
        /\ UNCHANGED <<policy, hostForce, refinement, ledger, phase, envelopes, plan, log>>
    BY DEF Gate!_execute_parallel_batch, Gate!InTools, Gate!Stopped
  <1>2. /\ GateTypes(c) /\ TurnIsSound(c) /\ GrantIsSpent /\ c.calls \in Nat
        /\ todo \in Seq(Gate(c)!Calls) /\ Len(todo) \in Nat /\ Len(envelopes) \in Nat
    BY GateConstants DEF GateInv, GateTypes
  <1>3. PICK k \in 1 .. Len(todo) : k = Gate(c)!BatchLen
    BY <1>1, <1>2, GateBatchLen
  <1>4. /\ batch' = [i \in 1 .. k |-> [call |-> todo[i], outcome |-> "new", payload |-> FALSE]]
        /\ todo' = SubSeq(todo, k + 1, Len(todo))
    BY <1>3 DEF Gate!_execute_parallel_batch, Gate!Envelope
  <1>5. todo' \in Seq(Gate(c)!Calls) /\ Len(todo') = Len(todo) - k
    BY <1>2, <1>4, SubSeqProperties
  <1>6. \A i \in 1 .. k : batch'[i] \in GateEnvelopes(c)
    <2>1. \A i \in 1 .. k : todo[i] \in Gate(c)!Calls
      BY <1>2, <1>3, ElementOfSeq
    <2> QED BY <1>4, <2>1 DEF GateEnvelopes
  <1>7. batch' \in Seq(GateEnvelopes(c)) /\ Len(batch') = k
    <2>1. \A T, n, s : n \in Nat /\ s \in [1 .. n -> T] => s \in Seq(T) /\ Len(s) = n
      OBVIOUS
    <2>2. k \in Nat /\ batch' \in [1 .. k -> GateEnvelopes(c)]
      BY <1>2, <1>4, <1>6
    <2> QED BY <2>1, <2>2, Zenon
  <1>8. \A i \in 1 .. k : batch'[i].outcome = "new" /\ batch'[i].payload = FALSE
    BY <1>4
  <1>9. GateTypes(c)'
    BY <1>1, <1>2, <1>5, <1>7, GateTyped DEF GateTypes
  <1>10. TurnIsSound(c)'
    <2>1. Len(todo') + Len(batch') + Len(envelopes') <= c.calls
      BY <1>1, <1>2, <1>3, <1>5, <1>7 DEF TurnIsSound
    <2>2. \A i \in 1 .. Len(batch') : EnvelopeIsSound(batch'[i], phase')
      BY <1>7, <1>8 DEF EnvelopeIsSound
    <2> QED BY <1>1, <1>2, <2>1, <2>2 DEF TurnIsSound
  <1>11. WordIsOut' <=> WordIsOut
    <2>1. Len(batch) = 0 /\ \A i \in 1 .. Len(batch') : ~Declares(batch'[i])
      BY <1>1, <1>7, <1>8 DEF Declares
    <2> QED BY <1>1, <2>1 DEF WordIsOut, Declares
  <1>12. GrantIsSpent'
    BY <1>1, <1>2, <1>11, GrantStays
  <1>13. PlansOneByOne(c) => OnlyByAWord(c)'
    BY <1>1, <1>11, WordStays DEF GateInv
  <1> QED BY <1>9, <1>10, <1>12, <1>13 DEF GateInv, PlansOneByOne, Gate!Declare

\* A task of the batch goes on.
TaskTurned(c, e) ==
    /\ TurnIsSound(c)' /\ batch' \in Seq(GateEnvelopes(c))
    /\ WordIsOut => WordIsOut'
    /\ Declares(e) => WordIsOut'
    /\ WordIsOut' => WordIsOut \/ Declares(e)
    /\ phase \in {"tools", "approved"}

LEMMA TaskTurns ==
    ASSUME NEW c \in PlanningGates, GateTypes(c), TurnIsSound(c), NEW i \in 1 .. Len(batch),
           batch[i].outcome \in {"new", "started"}, NEW e \in GateEnvelopes(c),
           EnvelopeIsSound(e, phase), batch' = [batch EXCEPT ![i] = e],
           UNCHANGED <<policy, phase, todo, envelopes, plan>>
    PROVE  TaskTurned(c, e)
  <1>1. batch \in Seq(GateEnvelopes(c)) /\ Len(batch) \in Nat
    BY DEF GateTypes
  <1>2. /\ batch' \in Seq(GateEnvelopes(c)) /\ Len(batch') = Len(batch) /\ batch'[i] = e
        /\ \A j \in 1 .. Len(batch) : j # i => batch'[j] = batch[j]
    <2>1. \A T, s, y : \A n \in 1 .. Len(s) : s \in Seq(T) /\ y \in T =>
             /\ [s EXCEPT ![n] = y] \in Seq(T) /\ Len([s EXCEPT ![n] = y]) = Len(s)
             /\ [s EXCEPT ![n] = y][n] = y
             /\ \A m \in 1 .. Len(s) : m # n => [s EXCEPT ![n] = y][m] = s[m]
      OBVIOUS
    <2> QED BY <1>1, <2>1
  <1>3. batch # <<>> /\ batch' # <<>> /\ plan = None /\ phase \in {"tools", "approved"}
    <2>1. batch # <<>> /\ batch' # <<>>
      BY <1>1, <1>2
    <2> QED BY <2>1 DEF TurnIsSound, GateTypes
  <1>4. ~Declares(batch[i])
    BY DEF TurnIsSound, EnvelopeIsSound, Declares
  <1>5. TurnIsSound(c)'
    <2>1. \A j \in 1 .. Len(batch') : EnvelopeIsSound(batch'[j], phase')
      BY <1>2 DEF TurnIsSound
    <2>2. Len(todo') + Len(batch') + Len(envelopes') <= c.calls
      BY <1>2 DEF TurnIsSound
    <2> QED BY <1>3, <2>1, <2>2 DEF TurnIsSound
  <1>6. \A j \in 1 .. Len(batch) : Declares(batch[j]) => Declares(batch'[j])
    BY <1>2, <1>4
  <1>7. \A j \in 1 .. Len(batch') : Declares(batch'[j]) => Declares(batch[j]) \/ Declares(e)
    BY <1>2
  <1>8. WordIsOut => WordIsOut'
    BY <1>2, <1>6 DEF WordIsOut, Declares
  <1>9. Declares(e) => WordIsOut'
    BY <1>2 DEF WordIsOut, Declares
  <1>10. WordIsOut' => WordIsOut \/ Declares(e)
    BY <1>2, <1>7 DEF WordIsOut, Declares
  <1> QED BY <1>2, <1>3, <1>5, <1>8, <1>9, <1>10 DEF TaskTurned

LEMMA GateTaskEvaluates ==
    ASSUME NEW c \in PlanningGates, GateInv(c), NEW i \in 1 .. Len(batch), Gate(c)!TaskEvaluates(i)
    PROVE  GateInv(c)'
  <1>1. PICK x, d, e :
          /\ x = batch[i].call /\ d = Gate(c)!evaluate_tool_policy(x)
          /\ e = IF Gate(c)!Allowed(d) THEN Gate(c)!Envelope(x, "started", FALSE)
                 ELSE Gate(c)!DeniedEnvelope(x)
    OBVIOUS
  <1>2. /\ batch[i].outcome = "new" /\ Gate(c)!Evaluated(x, d, TRUE)
        /\ batch' = [batch EXCEPT ![i] = e]
        /\ UNCHANGED <<policy, hostForce, refinement, phase, todo, envelopes, plan>>
    BY <1>1 DEF Gate!TaskEvaluates
  <1>3. GateTypes(c) /\ TurnIsSound(c) /\ GrantIsSpent
    BY DEF GateInv
  <1>4. batch[i] \in GateEnvelopes(c)
    BY <1>3, ElementOfSeq DEF GateTypes
  <1>5. x \in Gate(c)!Calls
    BY <1>1, <1>4 DEF GateEnvelopes
  <1>6. EvaluationMove(x, d)
    BY <1>1, <1>2, <1>3, <1>5, EvaluatedMoves
  <1>7. /\ e \in GateEnvelopes(c) /\ EnvelopeIsSound(e, phase)
        /\ Declares(e) => x.tool = "continue_without_plan" /\ d = "deny"
    <2>1. CASE Gate(c)!Allowed(d)
      <3>1. e = [call |-> x, outcome |-> "started", payload |-> FALSE]
        BY <1>1, <2>1 DEF Gate!Envelope
      <3> QED BY <1>5, <3>1 DEF GateEnvelopes, EnvelopeIsSound, Declares
    <2>2. CASE ~Gate(c)!Allowed(d)
      <3>1. PICK f \in BOOLEAN : f <=> Gate(c)!_management_tool_denial_remediation(x)
        BY DEF Gate!_management_tool_denial_remediation
      <3>2. e = [call |-> x, outcome |-> "denied", payload |-> Gate(c)!_management_tool_denial_remediation(x)]
        BY <1>1, <2>2 DEF Gate!DeniedEnvelope, Gate!Envelope
      <3>3. e = [call |-> x, outcome |-> "denied", payload |-> f]
        BY <3>1, <3>2 DEF Gate!_management_tool_denial_remediation
      <3>4. e \in GateEnvelopes(c) /\ EnvelopeIsSound(e, phase) /\ e.call = x /\ e.payload = f
        BY <1>5, <3>3 DEF GateEnvelopes, EnvelopeIsSound
      <3>5. f = TRUE => x.tool \notin policy.allowed
        BY <3>1 DEF Gate!_management_tool_denial_remediation
      <3>6. x.tool \notin policy.allowed => d = "deny"
        BY <1>6 DEF EvaluationMove
      <3> QED BY <3>4, <3>5, <3>6 DEF Declares
    <2> QED BY <2>1, <2>2
  <1>8. TaskTurned(c, e)
    BY <1>2, <1>3, <1>7, TaskTurns
  <1>9. GrantIsSpent' /\ EvaluationKept(c)
    BY <1>2, <1>3, <1>5, <1>6, <1>8, EvaluationKeeps DEF TaskTurned
  <1>10. GateTypes(c)'
    BY <1>2, <1>3, <1>8, <1>9, GateTyped DEF GateTypes, EvaluationKept, TaskTurned
  <1>11. PlansOneByOne(c) => OnlyByAWord(c)'
    BY <1>2, <1>3, <1>5, <1>6, <1>7, <1>8, <1>9, EvaluationWord DEF GateInv, TaskTurned
  <1> QED BY <1>8, <1>9, <1>10, <1>11 DEF GateInv, TaskTurned, PlansOneByOne, Gate!Declare

LEMMA GateTaskRuns ==
    ASSUME NEW c \in PlanningGates, GateInv(c), NEW i \in 1 .. Len(batch), Gate(c)!TaskRuns(i)
    PROVE  GateInv(c)'
  <1>1. PICK x, e : x = batch[i].call /\ e = Gate(c)!AllowedEnvelope(x)
    OBVIOUS
  <1>2. /\ batch[i].outcome = "started" /\ batch' = [batch EXCEPT ![i] = e]
        /\ IF x.tool = "continue_without_plan"
           THEN ledger' = Gate(c)!arm_strategy_grant /\ log' = [log EXCEPT !.declared = TRUE]
           ELSE UNCHANGED <<ledger, log>>
        /\ UNCHANGED <<policy, hostForce, refinement, phase, todo, envelopes, plan>>
    BY <1>1 DEF Gate!TaskRuns, Gate!Declare
  <1>3. GateTypes(c) /\ TurnIsSound(c) /\ GrantIsSpent
    BY DEF GateInv
  <1>4. x \in Gate(c)!Calls
    <2>1. batch[i] \in GateEnvelopes(c)
      BY <1>3, ElementOfSeq DEF GateTypes
    <2> QED BY <1>1, <2>1 DEF GateEnvelopes
  <1>5. /\ e \in GateEnvelopes(c) /\ EnvelopeIsSound(e, phase)
        /\ Declares(e) <=> x.tool = "continue_without_plan"
    <2>1. PICK o \in {"interrupt", "ran"} :
            /\ e = [call |-> x, outcome |-> o, payload |-> TRUE]
            /\ o = "interrupt" <=> x.tool = "exit_plan_mode_v2" /\ phase # "approved"
      BY <1>1 DEF Gate!AllowedEnvelope, Gate!Envelope, Gate!Exit
    <2>2. e.call = x /\ e.outcome = o /\ e.payload = TRUE
      BY <2>1
    <2>3. e \in GateEnvelopes(c)
      BY <1>4, <2>1 DEF GateEnvelopes
    <2>4. EnvelopeIsSound(e, phase)
      BY <2>1, <2>2 DEF EnvelopeIsSound
    <2> QED BY <2>2, <2>3, <2>4 DEF Declares
  <1>6. TaskTurned(c, e)
    BY <1>2, <1>3, <1>5, TaskTurns
  <1>7. CASE x.tool = "continue_without_plan"
    <2>1. WordIsOut' /\ log \in GateLogs(c)
      BY <1>3, <1>5, <1>6, <1>7 DEF TaskTurned, GateTypes
    <2>2. /\ log'.declared = TRUE /\ log'.ran = log.ran /\ log'.denied = log.denied
          /\ log'.approved = log.approved /\ log'.owed = log.owed /\ log'.asked = log.asked
          /\ log' \in GateLogs(c)
      BY <1>2, <1>7, <2>1 DEF GateLogs
    <2>3. ledger = None => ledger' = None
      BY <1>2, <1>7 DEF Gate!arm_strategy_grant
    <2>4. ledger # None => /\ ledger' \in Gate(c)!Ledger /\ ledger'.first = ledger.first
                           /\ ledger'.consumed = ledger.consumed
      <3>1. SUFFICES ASSUME ledger # None
                     PROVE  /\ ledger' \in Gate(c)!Ledger /\ ledger'.first = ledger.first
                            /\ ledger'.consumed = ledger.consumed
        OBVIOUS
      <3>2. ledger \in Gate(c)!Ledger
        BY <1>3, <3>1 DEF GateTypes
      <3>3. PICK f \in BOOLEAN : f <=> ~ledger.consumed
        OBVIOUS
      <3>4. ledger' = [ledger EXCEPT !.armed = ~ledger.consumed]
        BY <1>2, <1>7, <3>1 DEF Gate!arm_strategy_grant
      <3>5. (~ledger.consumed) = f
        BY <3>3
      <3>6. ledger' = [ledger EXCEPT !.armed = f]
        BY <3>4, <3>5
      <3> QED BY <3>2, <3>6 DEF Gate!Ledger
    <2>5. ledger # None => ledger' # None
      BY <2>4, GateConstants
    <2>6. \A j, why : RanBy(j, why)' <=> RanBy(j, why)
      BY <2>2 DEF RanBy
    <2>7. GrantIsSpent'
      BY <1>2, <1>3, <2>1, <2>2, <2>3, <2>4, <2>5, <2>6 DEF GrantIsSpent
    <2>8. GateTypes(c)'
      BY <1>2, <1>3, <1>6, <2>2, <2>3, <2>4, GateTyped DEF GateTypes, TaskTurned
    <2>9. OnlyByAWord(c) => OnlyByAWord(c)'
      BY <1>2, <2>2 DEF OnlyByAWord, WordIsHeard, RevisionIsLocked
    <2> QED BY <1>6, <2>7, <2>8, <2>9 DEF GateInv, TaskTurned, PlansOneByOne, Gate!Declare
  <1>8. CASE x.tool # "continue_without_plan"
    <2>1. UNCHANGED <<ledger, log>>
      BY <1>2, <1>8
    <2>2. GrantIsSpent'
      BY <1>2, <1>3, <1>6, <2>1, GrantStays DEF TaskTurned
    <2>3. GateTypes(c)'
      BY <1>2, <1>3, <1>6, <2>1, GateTyped DEF GateTypes, TaskTurned
    <2>4. WordIsOut' => WordIsOut
      BY <1>5, <1>6, <1>8 DEF TaskTurned
    <2>5. PlansOneByOne(c) => OnlyByAWord(c)'
      BY <1>2, <1>6, <2>1, <2>4, WordStays DEF GateInv, TaskTurned
    <2> QED BY <1>6, <2>2, <2>3, <2>5 DEF GateInv, TaskTurned, PlansOneByOne, Gate!Declare
  <1> QED BY <1>7, <1>8

\* The batch is merged: the first plan it proposes interrupts the turn.
LEMMA GateGathers ==
    ASSUME NEW c \in PlanningGates, GateInv(c), Gate(c)!Gathered
    PROVE  GateInv(c)'
  <1>1. PICK asks : asks = {i \in 1 .. Len(batch) : batch[i].outcome = "interrupt"}
    OBVIOUS
  <1>2. /\ GateTypes(c) /\ TurnIsSound(c) /\ GrantIsSpent /\ c.calls \in Nat
        /\ batch \in Seq(GateEnvelopes(c)) /\ envelopes \in Seq(GateEnvelopes(c))
        /\ Len(batch) \in Nat /\ Len(envelopes) \in Nat /\ DOMAIN batch = 1 .. Len(batch)
    BY GateConstants DEF GateInv, GateTypes
  <1>3. /\ batch # <<>> /\ envelopes' = envelopes \o batch /\ batch' = <<>>
        /\ plan' = IF asks = {} THEN None
                   ELSE batch[CHOOSE i \in asks : \A j \in asks : i <= j].call.arg
        /\ UNCHANGED <<policy, hostForce, refinement, ledger, phase, todo, log>>
    BY <1>1, <1>2 DEF Gate!Gathered
  <1>4. /\ envelopes' \in Seq(GateEnvelopes(c)) /\ Len(envelopes') = Len(envelopes) + Len(batch)
        /\ \A i \in 1 .. Len(envelopes) : envelopes'[i] = envelopes[i]
        /\ \A i \in 1 .. Len(batch) : envelopes'[Len(envelopes) + i] = batch[i]
    BY <1>2, <1>3
  <1>5. \A i \in 1 .. Len(envelopes') :
           \/ i \in 1 .. Len(envelopes)
           \/ /\ i - Len(envelopes) \in 1 .. Len(batch)
              /\ Len(envelopes) + (i - Len(envelopes)) = i
    BY <1>2, <1>4
  <1>6. plan = None /\ phase \in {"tools", "approved"} /\ plan \notin c.plans
    BY <1>2, <1>3, GateConstants DEF TurnIsSound, GateTypes
  <1>7. asks = {} => plan' = None
    BY <1>3
  <1>8. ASSUME asks # {}
        PROVE  \E i \in asks : plan' = batch[i].call.arg /\ plan' \in c.plans /\ plan' # None
    <2>1. asks \subseteq Nat
      BY <1>1, <1>2
    <2>2. \E i \in asks : \A j \in asks : i <= j
      BY <1>8, <2>1, NatHasLeast
    <2>3. PICK i \in asks : i = CHOOSE k \in asks : \A j \in asks : k <= j
      BY <2>2
    <2>4. plan' = batch[i].call.arg
      BY <1>3, <1>8, <2>3
    <2>5. batch[i] \in GateEnvelopes(c) /\ batch[i].outcome = "interrupt" /\ i \in 1 .. Len(batch)
      BY <1>1, <1>2, ElementOfSeq
    <2>6. batch[i].call.tool = "exit_plan_mode_v2" /\ batch[i].call \in Gate(c)!Calls
      BY <1>2, <2>5 DEF TurnIsSound, EnvelopeIsSound, GateEnvelopes
    <2>7. batch[i].call.arg \in c.plans
      BY <2>6, GateCall
    <2> QED BY <2>4, <2>7, GateConstants
  <1>9. plan' \in c.plans \cup {None}
    BY <1>7, <1>8
  <1>10. GateTypes(c)'
    <2>1. batch' \in Seq(GateEnvelopes(c))
      BY <1>3
    <2> QED BY <1>2, <1>3, <1>4, <1>9, <2>1, GateTyped DEF GateTypes
  <1>11. TurnIsSound(c)'
    <2>1. Len(todo') + Len(batch') + Len(envelopes') <= c.calls
      <3>1. Len(batch') = 0 /\ Len(todo) \in Nat /\ Len(todo') = Len(todo)
        BY <1>2, <1>3 DEF GateTypes
      <3> QED BY <1>2, <1>4, <3>1 DEF TurnIsSound
    <2>2. \A i \in 1 .. Len(envelopes) :
             EnvelopeIsSound(envelopes[i], phase) /\ envelopes[i].outcome # "interrupt"
      BY <1>2, <1>6 DEF TurnIsSound
    <2>3. \A i \in 1 .. Len(batch) :
             EnvelopeIsSound(batch[i], phase) /\ (batch[i].outcome = "interrupt" => plan' # None)
      BY <1>1, <1>2, <1>8 DEF TurnIsSound
    <2>4. ASSUME NEW i \in 1 .. Len(envelopes')
          PROVE  EnvelopeIsSound(envelopes'[i], phase') /\ (envelopes'[i].outcome = "interrupt" => plan' # None)
      <3>1. CASE i \in 1 .. Len(envelopes)
        BY <1>3, <1>4, <2>2, <3>1
      <3>2. CASE i \notin 1 .. Len(envelopes)
        <4>1. PICK j \in 1 .. Len(batch) : envelopes'[i] = batch[j]
          BY <1>4, <1>5, <3>2
        <4> QED BY <1>3, <2>3, <4>1
      <3> QED BY <3>1, <3>2
    <2>5. ASSUME plan' # None
          PROVE  \E i \in 1 .. Len(envelopes') :
                     envelopes'[i].outcome = "interrupt" /\ envelopes'[i].call.arg = plan'
      <3>1. PICK i \in asks : plan' = batch[i].call.arg
        BY <1>7, <1>8, <2>5
      <3>2. i \in 1 .. Len(batch) /\ batch[i].outcome = "interrupt"
        BY <1>1, <3>1
      <3>3. Len(envelopes) + i \in 1 .. Len(envelopes') /\ envelopes'[Len(envelopes) + i] = batch[i]
        BY <1>2, <1>4, <3>2
      <3> QED BY <3>1, <3>2, <3>3
    <2> QED BY <1>3, <1>6, <2>1, <2>4, <2>5 DEF TurnIsSound
  <1>12. WordIsOut' <=> WordIsOut
    <2>1. (\E i \in 1 .. Len(envelopes') : Declares(envelopes'[i])) <=>
             \/ \E i \in 1 .. Len(envelopes) : Declares(envelopes[i])
             \/ \E i \in 1 .. Len(batch) : Declares(batch[i])
      <3>1. ASSUME NEW i \in 1 .. Len(envelopes'), Declares(envelopes'[i])
            PROVE  \/ \E j \in 1 .. Len(envelopes) : Declares(envelopes[j])
                   \/ \E j \in 1 .. Len(batch) : Declares(batch[j])
        <4>1. CASE i \in 1 .. Len(envelopes)
          BY <1>4, <3>1, <4>1
        <4>2. CASE i \notin 1 .. Len(envelopes)
          <5>1. PICK j \in 1 .. Len(batch) : envelopes'[i] = batch[j]
            BY <1>4, <1>5, <4>2
          <5> QED BY <3>1, <5>1
        <4> QED BY <4>1, <4>2
      <3>2. \A i \in 1 .. Len(envelopes) : i \in 1 .. Len(envelopes')
        BY <1>2, <1>4
      <3>3. \A i \in 1 .. Len(batch) : Len(envelopes) + i \in 1 .. Len(envelopes')
        BY <1>2, <1>4
      <3> QED BY <1>4, <3>1, <3>2, <3>3
    <2>2. Len(batch') = 0
      BY <1>3
    <2> QED BY <1>3, <2>1, <2>2 DEF WordIsOut, Declares
  <1>13. GrantIsSpent'
    BY <1>2, <1>3, <1>12, GrantStays
  <1>14. PlansOneByOne(c) => OnlyByAWord(c)'
    BY <1>3, <1>6, <1>12, WordStays DEF GateInv
  <1> QED BY <1>10, <1>11, <1>13, <1>14 DEF GateInv, PlansOneByOne, Gate!Declare

\* What the end of the tool stage makes of the envelopes: a declaration counts, and a plan
\* that is not the one to be revised lifts the lock.
IsPlan(e) == e.call.tool = "exit_plan_mode_v2" /\ e.payload = TRUE /\ e.outcome # "denied"
Repeated(e) == refinement # None /\ IsPlan(e) /\ e.call.arg = refinement.content_hash

LEMMA StageReads ==
    ASSUME NEW c, envelopes \in Seq(GateEnvelopes(c))
    PROVE  /\ Gate(c)!Repeats <=> \E i \in 1 .. Len(envelopes) : Repeated(envelopes[i])
           /\ Gate(c)!Declarations # {} <=> \E i \in 1 .. Len(envelopes) : Declares(envelopes[i])
           /\ Gate(c)!Proposals # {} <=>
                 \E i \in 1 .. Len(envelopes) : IsPlan(envelopes[i]) /\ ~Repeated(envelopes[i])
  <1>1. DOMAIN envelopes = 1 .. Len(envelopes) /\ Len(envelopes) \in Nat
    OBVIOUS
  <1>2. ASSUME NEW i \in 1 .. Len(envelopes)
        PROVE  /\ envelopes[i] \in GateEnvelopes(c)
               /\ envelopes[i].payload \in BOOLEAN
               /\ Gate(c)!enforce_plan_refinement_revision(envelopes[i]) <=> Repeated(envelopes[i])
    <2>1. envelopes[i] \in GateEnvelopes(c)
      BY ElementOfSeq
    <2>2. envelopes[i].payload \in BOOLEAN
      BY <2>1 DEF GateEnvelopes
    <2> QED BY <2>1, <2>2 DEF Gate!enforce_plan_refinement_revision, Repeated, IsPlan, Gate!Exit
  <1>3. Gate(c)!Repeats <=> \E i \in 1 .. Len(envelopes) : Repeated(envelopes[i])
    BY <1>1, <1>2 DEF Gate!Repeats
  <1>4. DOMAIN Gate(c)!Revised = 1 .. Len(envelopes)
    BY <1>1 DEF Gate!Revised
  <1>5. ASSUME NEW i \in 1 .. Len(envelopes)
        PROVE  /\ i \in Gate(c)!Declarations <=> Declares(envelopes[i])
               /\ i \in Gate(c)!Proposals <=> IsPlan(envelopes[i]) /\ ~Repeated(envelopes[i])
    <2>1. Gate(c)!Revised[i] = IF Repeated(envelopes[i])
                               THEN [envelopes[i] EXCEPT !.outcome = "unchanged", !.payload = FALSE]
                               ELSE envelopes[i]
      BY <1>1, <1>2 DEF Gate!Revised
    <2>2. CASE Repeated(envelopes[i])
      <3>1. PICK r : r = Gate(c)!Revised[i] /\ r = [envelopes[i] EXCEPT !.outcome = "unchanged", !.payload = FALSE]
        BY <2>1, <2>2
      <3>2. r.payload = FALSE /\ envelopes[i].call.tool = "exit_plan_mode_v2"
        BY <1>2, <2>2, <3>1 DEF GateEnvelopes, Repeated, IsPlan
      <3>3. i \notin Gate(c)!Declarations /\ i \notin Gate(c)!Proposals
        BY <3>1, <3>2 DEF Gate!Declarations, Gate!Proposals
      <3> QED BY <2>2, <3>2, <3>3 DEF Declares
    <2>3. CASE ~Repeated(envelopes[i])
      <3>1. Gate(c)!Revised[i] = envelopes[i]
        BY <2>1, <2>3
      <3> QED BY <1>2, <1>4, <2>3, <3>1
          DEF Gate!Declarations, Gate!Proposals, Declares, IsPlan, Gate!Exit, Gate!Declare
    <2> QED BY <2>2, <2>3
  <1>6. Gate(c)!Declarations \subseteq 1 .. Len(envelopes) /\ Gate(c)!Proposals \subseteq 1 .. Len(envelopes)
    BY <1>4 DEF Gate!Declarations, Gate!Proposals
  <1>7. Gate(c)!Declarations # {} <=> \E i \in 1 .. Len(envelopes) : Declares(envelopes[i])
    BY <1>5, <1>6
  <1>8. Gate(c)!Proposals # {} <=>
           \E i \in 1 .. Len(envelopes) : IsPlan(envelopes[i]) /\ ~Repeated(envelopes[i])
    BY <1>5, <1>6
  <1> QED BY <1>3, <1>7, <1>8

LEMMA GateStageEnds ==
    ASSUME NEW c \in PlanningGates, GateInv(c), Gate(c)!execute_tool_stage_step
    PROVE  GateInv(c)'
  <1>1. PICK repeats \in BOOLEAN, declared \in BOOLEAN, proposed \in BOOLEAN :
          /\ repeats <=> \E i \in 1 .. Len(envelopes) : Repeated(envelopes[i])
          /\ declared <=> \E i \in 1 .. Len(envelopes) : Declares(envelopes[i])
          /\ proposed <=> \E i \in 1 .. Len(envelopes) : IsPlan(envelopes[i]) /\ ~Repeated(envelopes[i])
    OBVIOUS
  <1>2. /\ GateTypes(c) /\ TurnIsSound(c) /\ GrantIsSpent /\ c.calls \in Nat /\ policy \in GatePolicies(c)
        /\ envelopes \in Seq(GateEnvelopes(c)) /\ hostForce \in BOOLEAN
    BY GateConstants DEF GateInv, GateTypes
  <1>3. /\ phase \in {"tools", "approved"} /\ batch = <<>>
        /\ plan' = IF repeats THEN None ELSE plan
        /\ phase' = IF plan' # None THEN "paused" ELSE "model"
        /\ ledger' = IF stepTask THEN None ELSE ledger
        /\ todo' = <<>> /\ envelopes' = <<>> /\ UNCHANGED <<batch, log>>
    BY <1>1, <1>2, StageReads DEF Gate!execute_tool_stage_step, Gate!InTools
  <1>4. /\ policy' = [policy EXCEPT
              !.allowed = IF Gate(c)!Proposals # {} THEN Gate(c)!RestoredTools ELSE @,
              !.continue_without_plan = @ \/ Gate(c)!Declarations # {}]
        /\ refinement' = IF Gate(c)!Proposals # {} THEN None ELSE refinement
        /\ hostForce' = (hostForce \/ (c.reuses /\ shared /\ Gate(c)!Declarations # {}))
    BY DEF Gate!execute_tool_stage_step, Gate!apply_planning_updates_from_envelopes
  <1>5. refinement' = IF proposed THEN None ELSE refinement
    BY <1>1, <1>2, <1>4, StageReads
  <1>6. hostForce' \in BOOLEAN /\ (c.reuses = FALSE /\ hostForce = FALSE => hostForce' = FALSE)
    BY <1>4
  <1>7. PICK word \in BOOLEAN : word <=> (policy.continue_without_plan \/ declared)
    OBVIOUS
  <1>8. (policy.continue_without_plan \/ Gate(c)!Declarations # {}) = word
    BY <1>1, <1>2, <1>7, StageReads
  <1>9. PICK restored : /\ restored = IF proposed THEN Gate(c)!RestoredTools ELSE policy.allowed
                        /\ policy' = [policy EXCEPT !.allowed = restored, !.continue_without_plan = word]
    BY <1>1, <1>2, <1>4, <1>8, StageReads
  <1>10. /\ policy'.allowed = restored /\ policy'.continue_without_plan = word
         /\ policy'.denied = policy.denied /\ policy'.approved = policy.approved
    BY <1>2, <1>9 DEF GatePolicies
  <1>11. Gate(c)!RestoredTools \in {c.allowed, Gate(c)!Tools}
    BY <1>2 DEF Gate!RestoredTools, GateTypes, Gate!Refinement
  <1>12. GateTypes(c)'
    <2>1. restored \in SUBSET (Gate(c)!Tools \cup c.allowed)
      BY <1>2, <1>9, <1>11 DEF GatePolicies
    <2>2. policy' \in GatePolicies(c)
      BY <1>2, <1>9, <2>1 DEF GatePolicies
    <2>3. todo' \in Seq(Gate(c)!Calls) /\ envelopes' \in Seq(GateEnvelopes(c))
      BY <1>3
    <2>4. plan' \in c.plans \cup {None} /\ phase' \in {"model", "paused"}
      BY <1>2, <1>3 DEF GateTypes
    <2> QED BY <1>2, <1>3, <1>5, <1>6, <2>2, <2>3, <2>4, GateTyped DEF GateTypes
  <1>13. Len(todo') = 0 /\ Len(batch') = 0 /\ Len(envelopes') = 0
    BY <1>3
  <1>14. TurnIsSound(c)'
    BY <1>2, <1>3, <1>13 DEF TurnIsSound
  <1>15. (WordIsOut <=> word = TRUE) /\ (WordIsOut' <=> word = TRUE)
    <2>1. policy.continue_without_plan \in BOOLEAN /\ Len(batch) = 0
      BY <1>2, <1>3 DEF GatePolicies
    <2> QED BY <1>1, <1>7, <1>10, <1>13, <2>1 DEF WordIsOut, Declares
  <1>16. GrantIsSpent'
    <2>1. \A i, why : RanBy(i, why)' <=> RanBy(i, why)
      BY <1>3 DEF RanBy
    <2>2. ledger' # None => ledger' = ledger
      BY <1>3
    <2> QED BY <1>2, <1>3, <1>10, <1>15, <2>1, <2>2 DEF GrantIsSpent
  <1>17. ASSUME PlansOneByOne(c) PROVE OnlyByAWord(c)'
    <2>1. /\ OnlyByAWord(c) /\ c.reuses = FALSE /\ "continue_without_plan" \in c.allowed
          /\ c.calls = 1 \/ \A p, q \in c.plans : p = q
      BY <1>17, GateConstants DEF GateInv, PlansOneByOne, Gate!Declare
    <2>2. hostForce' = FALSE
      BY <1>6, <2>1 DEF OnlyByAWord
    <2>3. CASE log.owed = FALSE
      <3>1. WordIsHeard
        BY <2>1, <2>3 DEF OnlyByAWord
      <3>2. "continue_without_plan" \in restored
        BY <1>9, <1>11, <2>1, <3>1 DEF WordIsHeard, Gate!Tools, Gate!Declare
      <3>3. WordIsHeard'
        BY <1>3, <1>10, <1>15, <3>1, <3>2 DEF WordIsHeard, RanBy
      <3> QED BY <1>3, <2>2, <2>3, <3>3 DEF OnlyByAWord
    <2>4. CASE log.owed = TRUE
      <3>1. /\ RevisionIsLocked(c) /\ phase = "tools" /\ policy.allowed = {"exit_plan_mode_v2"}
            /\ refinement # None /\ refinement.content_hash = log.asked /\ log.asked \in c.plans
        BY <1>3, <2>1, <2>4 DEF OnlyByAWord, RevisionIsLocked
      <3>2. ASSUME phase' = "paused" PROVE plan' # log.asked
        <4>1. repeats = FALSE /\ plan' = plan /\ plan # None
          BY <1>3, <3>2
        <4>2. PICK i \in 1 .. Len(envelopes) :
                 envelopes[i].outcome = "interrupt" /\ envelopes[i].call.arg = plan
          BY <1>2, <1>3, <4>1 DEF TurnIsSound
        <4>3. IsPlan(envelopes[i])
          BY <1>2, <4>2 DEF TurnIsSound, EnvelopeIsSound, IsPlan
        <4>4. ~Repeated(envelopes[i])
          BY <1>1, <4>1
        <4> QED BY <3>1, <4>1, <4>2, <4>3, <4>4 DEF Repeated
      <3>3. ASSUME phase' = "model" PROVE proposed = FALSE
        <4>1. SUFFICES ASSUME NEW i \in 1 .. Len(envelopes), IsPlan(envelopes[i]), ~Repeated(envelopes[i])
                       PROVE  FALSE
          BY <1>1
        <4>2. envelopes[i].call.arg # log.asked
          BY <3>1, <4>1 DEF Repeated
        <4>3. envelopes[i].call.arg \in c.plans
          <5>1. envelopes[i] \in GateEnvelopes(c)
            BY <1>2, ElementOfSeq
          <5>2. envelopes[i].call \in Gate(c)!Calls
            BY <5>1 DEF GateEnvelopes
          <5> QED BY <4>1, <5>2, GateCall DEF IsPlan
        <4>4. CASE \A p, q \in c.plans : p = q
          BY <3>1, <4>2, <4>3, <4>4
        <4>5. CASE c.calls = 1
          <5>1. Len(envelopes) <= 1
            BY <1>2, <4>5 DEF TurnIsSound, GateTypes
          <5>2. Len(envelopes) \in Nat /\ \A j \in 1 .. Len(envelopes) : j = i
            BY <1>2, <5>1
          <5>3. repeats = FALSE
            BY <1>1, <4>1, <5>2
          <5>4. envelopes[i].outcome = "interrupt"
            BY <1>2, <3>1, <4>1 DEF TurnIsSound, EnvelopeIsSound, IsPlan
          <5>5. plan # None
            BY <1>2, <5>4 DEF TurnIsSound
          <5> QED BY <1>3, <3>3, <5>3, <5>5
        <4> QED BY <2>1, <4>4, <4>5
      <3>4. phase' = "model" => policy'.allowed = policy.allowed /\ refinement' = refinement
        BY <1>5, <1>9, <1>10, <3>3
      <3>5. RevisionIsLocked(c)'
        BY <1>3, <3>1, <3>2, <3>4 DEF RevisionIsLocked
      <3> QED BY <1>3, <2>2, <2>4, <3>5 DEF OnlyByAWord
    <2>5. log.owed \in BOOLEAN
      BY <1>2 DEF GateTypes, GateLogs
    <2> QED BY <2>3, <2>4, <2>5
  <1> QED BY <1>12, <1>14, <1>16, <1>17 DEF GateInv, PlansOneByOne, Gate!Declare

\* A leg or a run starts with the host's policy and nothing said.
LEMMA GateStarts ==
    ASSUME NEW c \in PlanningGates, GateInv(c), phase \in {"paused", "ended"},
           \/ Gate(c)!_mark_force_planning_approved \/ Gate(c)!begin_plan_refinement
           \/ Gate(c)!NewRun
    PROVE  GateInv(c)'
  <1>1. /\ GateTypes(c) /\ TurnIsSound(c) /\ c.calls \in Nat /\ c.calls > 0 /\ hostForce \in BOOLEAN
        /\ todo = <<>> /\ batch = <<>> /\ envelopes = <<>>
    BY GateConstants DEF GateInv, GateTypes, TurnIsSound
  <1>2. /\ ledger' = None /\ plan' = None /\ UNCHANGED <<hostForce, batch, envelopes>>
    BY DEF Gate!_mark_force_planning_approved, Gate!begin_plan_refinement, Gate!NewRun, Gate!Leg
  <1>3. Len(batch') = 0 /\ Len(envelopes') = 0 /\ (todo' = <<>> => Len(todo') = 0)
    BY <1>1, <1>2
  <1>4. WordIsOut' <=> policy'.continue_without_plan = TRUE
    BY <1>3 DEF WordIsOut
  <1>5. ASSUME policy' \in GatePolicies(c), refinement' \in Gate(c)!Refinement \cup {None},
               phase' \in {"model", "approved"}, todo' \in Seq(Gate(c)!Calls), log' \in GateLogs(c),
               phase' = "model" => todo' = <<>>, Len(todo') <= 1, log'.ran = <<>>,
               policy'.approved = TRUE => log'.approved = TRUE,
               PlansOneByOne(c) => OnlyByAWord(c)'
        PROVE  GateInv(c)'
    <2>1. GateTypes(c)'
      <3>1. \A S : <<>> \in Seq(S)
        OBVIOUS
      <3> QED BY <1>1, <1>2, <1>5, <3>1, GateTyped
    <2>2. TurnIsSound(c)'
      <3>1. Len(todo') + Len(batch') + Len(envelopes') <= c.calls
        BY <1>1, <1>3, <1>5
      <3> QED BY <1>1, <1>2, <1>3, <1>5, <3>1 DEF TurnIsSound
    <2>3. GrantIsSpent'
      BY <1>2, <1>5, GrantStarts
    <2> QED BY <1>5, <2>1, <2>2, <2>3 DEF GateInv, PlansOneByOne, Gate!Declare
  <1>6. ASSUME policy'.continue_without_plan = hostForce, policy'.allowed = c.allowed,
               policy'.denied = {}, log'.owed = FALSE, log'.ran = <<>>
        PROVE  PlansOneByOne(c) => OnlyByAWord(c)'
    <2>1. SUFFICES ASSUME PlansOneByOne(c) PROVE OnlyByAWord(c)'
      OBVIOUS
    <2>2. hostForce = FALSE /\ "continue_without_plan" \in c.allowed
      BY <2>1 DEF GateInv, OnlyByAWord, PlansOneByOne, Gate!Declare
    <2>3. \A i : ~RanBy(i, "bypass")'
      BY <1>6 DEF RanBy
    <2> QED BY <1>2, <1>4, <1>6, <2>2, <2>3 DEF OnlyByAWord, WordIsHeard
  <1>7. CASE Gate(c)!_mark_force_planning_approved
    <2>1. /\ policy' = [allowed |-> c.allowed, denied |-> {},
                        continue_without_plan |-> hostForce, approved |-> TRUE]
          /\ log' = [declared |-> FALSE, approved |-> TRUE, denied |-> {}, first |-> None,
                     ran |-> <<>>, owed |-> FALSE, asked |-> None]
          /\ UNCHANGED refinement
      BY <1>7 DEF Gate!_mark_force_planning_approved, Gate!HostPolicy, Gate!FreshLog
    <2>2. /\ todo' \in Seq(Gate(c)!Calls) /\ Len(todo') <= 1 /\ phase' \in {"model", "approved"}
          /\ phase' = "model" => todo' = <<>>
      <3>1. CASE phase' = "model" /\ todo' = <<>>
        BY <3>1
      <3>2. ASSUME NEW p \in c.plans, phase' = "approved",
                   todo' = <<[tool |-> "exit_plan_mode_v2", arg |-> p]>>
            PROVE  /\ todo' \in Seq(Gate(c)!Calls) /\ Len(todo') <= 1 /\ phase' \in {"model", "approved"}
                   /\ phase' = "model" => todo' = <<>>
        <4>1. [tool |-> "exit_plan_mode_v2", arg |-> p] \in Gate(c)!Calls
          BY DEF Gate!Calls, Gate!Exit
        <4>2. \A T, x : x \in T => <<x>> \in Seq(T) /\ Len(<<x>>) = 1
          OBVIOUS
        <4>3. todo' \in Seq(Gate(c)!Calls) /\ Len(todo') = 1
          BY <3>2, <4>1, <4>2, Zenon
        <4>4. Len(todo') <= 1
          BY <4>3
        <4> QED BY <3>2, <4>3, <4>4
      <3>3. \/ phase' = "model" /\ todo' = <<>>
            \/ \E p \in c.plans : phase' = "approved" /\ todo' = <<[tool |-> "exit_plan_mode_v2", arg |-> p]>>
        BY <1>7 DEF Gate!_mark_force_planning_approved, Gate!Exit
      <3> QED BY <3>1, <3>2, <3>3, Zenon
    <2>3. policy' \in GatePolicies(c)
      BY <1>1, <2>1 DEF GatePolicies
    <2>4. log' \in GateLogs(c)
      <3>1. \A S : <<>> \in Seq(S)
        OBVIOUS
      <3> QED BY <2>1, <3>1 DEF GateLogs
    <2>5. /\ policy'.continue_without_plan = hostForce /\ policy'.allowed = c.allowed
          /\ policy'.denied = {} /\ log'.owed = FALSE /\ log'.ran = <<>> /\ log'.approved = TRUE
      BY <2>1
    <2>6. refinement' \in Gate(c)!Refinement \cup {None}
      BY <1>1, <2>1 DEF GateTypes
    <2> QED BY <1>5, <1>6, <2>2, <2>3, <2>4, <2>5, <2>6
  <1>8. CASE Gate(c)!NewRun
    <2>1. /\ policy' = [allowed |-> c.allowed, denied |-> {},
                        continue_without_plan |-> hostForce, approved |-> FALSE]
          /\ log' = [declared |-> FALSE, approved |-> FALSE, denied |-> {}, first |-> None,
                     ran |-> <<>>, owed |-> FALSE, asked |-> None]
          /\ refinement' = None /\ phase' = "model" /\ todo' = <<>>
      BY <1>1, <1>8 DEF Gate!NewRun, Gate!HostPolicy, Gate!FreshLog
    <2>2. todo' \in Seq(Gate(c)!Calls) /\ Len(todo') <= 1
      BY <2>1
    <2>3. policy' \in GatePolicies(c)
      BY <1>1, <2>1 DEF GatePolicies
    <2>4. log' \in GateLogs(c)
      <3>1. \A S : <<>> \in Seq(S)
        OBVIOUS
      <3> QED BY <2>1, <3>1 DEF GateLogs
    <2>5. /\ policy'.continue_without_plan = hostForce /\ policy'.allowed = c.allowed
          /\ policy'.denied = {} /\ log'.owed = FALSE /\ log'.ran = <<>> /\ policy'.approved = FALSE
      BY <2>1
    <2> QED BY <1>5, <1>6, <2>1, <2>2, <2>3, <2>4, <2>5
  <1>9. CASE Gate(c)!begin_plan_refinement
    <2>1. phase = "paused" /\ plan \in c.plans
      BY <1>1, <1>9 DEF Gate!begin_plan_refinement, Gate!Leg, TurnIsSound, GateTypes
    <2>2. /\ policy' = [allowed |-> {"exit_plan_mode_v2"}, denied |-> {"continue_without_plan"},
                        continue_without_plan |-> FALSE, approved |-> FALSE]
          /\ log' = [declared |-> FALSE, approved |-> FALSE, denied |-> {}, first |-> None,
                     ran |-> <<>>, owed |-> TRUE, asked |-> plan]
          /\ refinement' = [content_hash |-> plan, previous_allowed_tools |-> c.allowed]
          /\ phase' = "model" /\ todo' = <<>>
      BY <1>1, <1>9 DEF Gate!begin_plan_refinement, Gate!HostPolicy, Gate!FreshLog, Gate!Exit, Gate!Declare
    <2>3. todo' \in Seq(Gate(c)!Calls) /\ Len(todo') <= 1
      BY <2>2
    <2>4. policy' \in GatePolicies(c)
      BY <2>2 DEF GatePolicies, Gate!Tools, Gate!Exit, Gate!Declare
    <2>5. log' \in GateLogs(c)
      <3>1. \A S : <<>> \in Seq(S)
        OBVIOUS
      <3> QED BY <2>1, <2>2, <3>1 DEF GateLogs
    <2>6. refinement' \in Gate(c)!Refinement
      BY <2>1, <2>2 DEF Gate!Refinement
    <2>7. refinement' # None
      BY <2>6, GateConstants
    <2>8. /\ policy'.allowed = {"exit_plan_mode_v2"} /\ policy'.approved = FALSE
          /\ log'.owed = TRUE /\ log'.ran = <<>> /\ log'.asked = plan
          /\ refinement'.content_hash = plan
      BY <2>2
    <2>9. PlansOneByOne(c) => OnlyByAWord(c)'
      BY <1>2, <2>1, <2>2, <2>7, <2>8 DEF GateInv, OnlyByAWord, RevisionIsLocked
    <2> QED BY <1>5, <2>2, <2>3, <2>4, <2>5, <2>6, <2>8, <2>9
  <1> QED BY <1>7, <1>8, <1>9

LEMMA GateFinishes ==
    ASSUME NEW c \in PlanningGates, GateInv(c), Gate(c)!Finish
    PROVE  GateInv(c)'
  <1>1. /\ phase \in {"model", "paused"} /\ phase' = "ended"
        /\ UNCHANGED <<policy, hostForce, refinement, ledger, todo, batch, envelopes, plan, log>>
    BY DEF Gate!Finish
  <1>2. GateTypes(c)'
    BY <1>1, GateTyped DEF GateInv, GateTypes
  <1>3. TurnIsSound(c)'
    <2>1. Len(batch) = 0 /\ Len(envelopes) = 0 /\ TurnIsSound(c)
      BY <1>1 DEF GateInv, TurnIsSound
    <2> QED BY <1>1, <2>1 DEF TurnIsSound
  <1>4. WordIsOut' <=> WordIsOut
    BY <1>1 DEF WordIsOut, Declares
  <1>5. GrantIsSpent'
    BY <1>1, <1>4, GrantStays DEF GateInv
  <1>6. PlansOneByOne(c) => OnlyByAWord(c)'
    BY <1>1, <1>4, WordStays DEF GateInv
  <1> QED BY <1>2, <1>3, <1>5, <1>6 DEF GateInv, PlansOneByOne, Gate!Declare

LEMMA GateStep ==
    ASSUME NEW c \in PlanningGates, GateInv(c), Gate(c)!Next
    PROVE  GateInv(c)'
  <1>1. CASE \E i \in DOMAIN batch : Gate(c)!TaskEvaluates(i) \/ Gate(c)!TaskRuns(i)
    <2>1. DOMAIN batch = 1 .. Len(batch)
      BY DEF GateInv, GateTypes
    <2> QED BY <1>1, <2>1, GateTaskEvaluates, GateTaskRuns
  <1>2. CASE \/ Gate(c)!_mark_force_planning_approved \/ Gate(c)!begin_plan_refinement
             \/ Gate(c)!NewRun
    <2>1. phase \in {"paused", "ended"}
      BY <1>2 DEF Gate!_mark_force_planning_approved, Gate!begin_plan_refinement, Gate!NewRun, Gate!Leg
    <2> QED BY <1>2, <2>1, GateStarts
  <1> QED BY <1>1, <1>2, GatePlans, GateRunsOne, GateBatches, GateGathers, GateStageEnds, GateFinishes
          DEF Gate!Next

LEMMA GateStays ==
    ASSUME NEW c \in PlanningGates, GateInv(c), UNCHANGED gateVars
    PROVE  GateInv(c)'
  <1>1. UNCHANGED <<policy, hostForce, refinement, ledger, phase, todo, batch, envelopes, plan, log>>
    BY DEF gateVars
  <1>2. GateTypes(c)'
    BY <1>1, GateTyped DEF GateInv, GateTypes
  <1>3. TurnIsSound(c)'
    BY <1>1 DEF GateInv, TurnIsSound
  <1>4. WordIsOut' <=> WordIsOut
    BY <1>1 DEF WordIsOut, Declares
  <1>5. GrantIsSpent'
    BY <1>1, <1>4, GrantStays DEF GateInv
  <1>6. OnlyByAWord(c) => OnlyByAWord(c)'
    BY <1>1, <1>4 DEF OnlyByAWord, WordIsHeard, RevisionIsLocked, RanBy
  <1> QED BY <1>2, <1>3, <1>5, <1>6 DEF GateInv, PlansOneByOne, Gate!Declare

\* The properties of the gate follow.
LEMMA GateCounts ==
    ASSUME NEW c
    PROVE  \A S : Gate(c)!Cardinality(S) = Cardinality(S)
  BY DEF Gate!Cardinality, Cardinality, Gate!IsFiniteSet, IsFiniteSet

LEMMA GateIsSafe ==
    ASSUME NEW c \in PlanningGates, GateInv(c)
    PROVE  /\ Gate(c)!OneGrantPerRun
           /\ PlansOneByOne(c) => /\ Gate(c)!GatedNeedsAWord
                                  /\ Gate(c)!LockedUntilApproved /\ Gate(c)!RevisionDiffers
  <1>1. GateTypes(c) /\ GrantIsSpent /\ log.owed \in BOOLEAN /\ log.declared \in BOOLEAN /\ log.approved \in BOOLEAN
    BY DEF GateInv, GateTypes, GateLogs
  <1>2. DOMAIN log.ran = 1 .. Len(log.ran)
    BY <1>1 DEF GateTypes, GateLogs
  <1>3. \A i, why : i \in Gate(c)!By(why) <=> RanBy(i, why)
    BY <1>2 DEF Gate!By, RanBy
  <1>4. Gate(c)!OneGrantPerRun
    <2>1. Cardinality(Gate(c)!By("grant")) <= 1
      <3>1. CASE Gate(c)!By("grant") = {}
        BY <3>1, FS_EmptySet
      <3>2. CASE Gate(c)!By("grant") # {}
        <4>1. PICK i : RanBy(i, "grant")
          BY <1>3, <3>2
        <4>2. Gate(c)!By("grant") = {i}
          BY <1>1, <1>3, <4>1 DEF GrantIsSpent
        <4>3. Cardinality({i}) = 1
          BY FS_Singleton
        <4> QED BY <4>2, <4>3
      <3> QED BY <3>1, <3>2
    <2>2. \A i \in Gate(c)!By("grant") : log.ran[i].call \in log.denied
      BY <1>1, <1>3 DEF GrantIsSpent
    <2> QED BY <2>1, <2>2, GateCounts DEF Gate!OneGrantPerRun
  <1>5. ASSUME PlansOneByOne(c)
        PROVE  Gate(c)!GatedNeedsAWord /\ Gate(c)!LockedUntilApproved /\ Gate(c)!RevisionDiffers
    <2>1. OnlyByAWord(c)
      BY <1>5 DEF GateInv
    <2>2. \A i : RanBy(i, "bypass") => log.declared = TRUE
      <3>1. CASE log.owed = FALSE
        BY <2>1, <3>1 DEF OnlyByAWord, WordIsHeard
      <3>2. CASE log.owed = TRUE
        <4>1. log.ran = <<>> /\ Len(log.ran) = 0
          BY <2>1, <3>2 DEF OnlyByAWord, RevisionIsLocked
        <4> QED BY <4>1 DEF RanBy
      <3> QED BY <1>1, <3>1, <3>2
    <2>3. \A i : (RanBy(i, "grant") => log.declared = TRUE) /\ (RanBy(i, "plan") => log.approved = TRUE)
      BY <1>1 DEF GrantIsSpent
    <2>4. Gate(c)!GatedNeedsAWord
      BY <1>3, <2>2, <2>3 DEF Gate!GatedNeedsAWord
    <2>5. Gate(c)!LockedUntilApproved /\ Gate(c)!RevisionDiffers
      BY <1>1, <2>1 DEF OnlyByAWord, RevisionIsLocked, Gate!LockedUntilApproved, Gate!RevisionDiffers
    <2> QED BY <2>4, <2>5
  <1> QED BY <1>4, <1>5

-----------------------------------------------------------------------------
(***************************************************************************)
(* The stages together: the one that moves keeps its invariant, in the     *)
(* configuration it started with.                                          *)
(***************************************************************************)
StagesInv ==
    /\ CompactionInv
    /\ \A c \in Executors : part = <<"executor", c>> => ExecutorInv(c)
    /\ \A c \in PlanningGates : part = <<"gate", c>> => GateInv(c)
    /\ \A c \in Endings : part = <<"ending", c>> => EndingInv(c)

LEMMA StagesInitially == Init => StagesInv
  <1> SUFFICES ASSUME Init PROVE StagesInv
    OBVIOUS
  <1>1. CompactionInv
    BY CompactionInitially DEF Init
  <1>2. ASSUME NEW c \in Executors, part = <<"executor", c>>
        PROVE  ExecutorInv(c)
    <2>1. part[1] = "executor" /\ part[2] = c
      BY <1>2
    <2>2. PICK d \in Executors : d = Configured("executor", Executors) /\ Executor(d)!Init
      BY DEF Init
    <2>3. d = c
      BY <2>1, <2>2 DEF Configured
    <2> QED BY <2>2, <2>3, ExecutorInitially
  <1>3. ASSUME NEW c \in Endings, part = <<"ending", c>>
        PROVE  EndingInv(c)
    <2>1. part[1] = "ending" /\ part[2] = c
      BY <1>3
    <2>2. PICK d \in Endings : d = Configured("ending", Endings) /\ Ending(d)!Init
      BY DEF Init
    <2>3. d = c
      BY <2>1, <2>2 DEF Configured
    <2> QED BY <2>2, <2>3, EndingInitially
  <1>4. ASSUME NEW c \in PlanningGates, part = <<"gate", c>>
        PROVE  GateInv(c)
    <2>1. part[1] = "gate" /\ part[2] = c
      BY <1>4
    <2>2. PICK d \in PlanningGates : d = Configured("gate", PlanningGates) /\ Gate(d)!Init
      BY DEF Init
    <2>3. d = c
      BY <2>1, <2>2 DEF Configured
    <2> QED BY <2>2, <2>3, GateInitially
  <1> QED BY <1>1, <1>2, <1>3, <1>4 DEF StagesInv

\* A stage that does not move stays in its invariant.
LEMMA CompactionStays ==
    ASSUME CompactionInv, UNCHANGED compactionVars
    PROVE  CompactionInv'
  BY DEF compactionVars, CompactionInv, CompactionTypes, LockHasOneHolder, CooldownIsServed,
         SummaryIsComplete, Compact!Open, Compact!Trying

LEMMA EndingStays ==
    ASSUME NEW c \in Endings, EndingInv(c), UNCHANGED endingVars
    PROVE  EndingInv(c)'
  BY DEF endingVars, EndingInv, CallsAreCounted, Metadata, JudgedLast, NotYetTold,
         Ending!EndsAsJudged, Ending!_sanitize_terminal_answer, Ending!FailsClosed,
         Ending!revision_limit

LEMMA StagesStep ==
    ASSUME StagesInv, [Next]_allVars
    PROVE  StagesInv'
  <1>1. CASE part[1] = "compaction" /\ Compact!Next /\ UNCHANGED part
    <2>1. CompactionInv'
      BY <1>1, CompactionStep DEF StagesInv
    <2>2. \A c : part' # <<"executor", c>> /\ part' # <<"gate", c>> /\ part' # <<"ending", c>>
      BY <1>1
    <2> QED BY <2>1, <2>2 DEF StagesInv
  <1>2. ASSUME NEW d \in Executors, part = <<"executor", d>>, Executor(d)!Next,
               UNCHANGED <<part, compactionVars>>
        PROVE  StagesInv'
    <2>1. CompactionInv'
      BY <1>2, CompactionStays DEF StagesInv
    <2>2. ExecutorInv(d)'
      BY <1>2, ExecutorStep DEF StagesInv
    <2>3. \A c : (part' = <<"executor", c>> => c = d) /\ part' # <<"gate", c>> /\ part' # <<"ending", c>>
      BY <1>2
    <2> QED BY <2>1, <2>2, <2>3 DEF StagesInv
  <1>3. ASSUME NEW d \in Endings, part = <<"ending", d>>, Ending(d)!Next,
               UNCHANGED <<part, compactionVars>>
        PROVE  StagesInv'
    <2>1. CompactionInv'
      BY <1>3, CompactionStays DEF StagesInv
    <2>2. EndingInv(d)'
      BY <1>3, EndingStep DEF StagesInv
    <2>3. \A c : (part' = <<"ending", c>> => c = d) /\ part' # <<"gate", c>> /\ part' # <<"executor", c>>
      BY <1>3
    <2> QED BY <2>1, <2>2, <2>3 DEF StagesInv
  <1>4. ASSUME NEW d \in PlanningGates, part = <<"gate", d>>, Gate(d)!Next,
               UNCHANGED <<part, compactionVars>>
        PROVE  StagesInv'
    <2>1. CompactionInv'
      BY <1>4, CompactionStays DEF StagesInv
    <2>2. GateInv(d)'
      BY <1>4, GateStep DEF StagesInv
    <2>3. \A c : (part' = <<"gate", c>> => c = d) /\ part' # <<"executor", c>> /\ part' # <<"ending", c>>
      BY <1>4
    <2> QED BY <2>1, <2>2, <2>3 DEF StagesInv
  <1>5. CASE UNCHANGED allVars
    <2>1. CompactionInv'
      BY <1>5, CompactionStays DEF StagesInv, allVars
    <2>2. ASSUME NEW c \in Executors, part' = <<"executor", c>>
          PROVE  ExecutorInv(c)'
      <3>1. ExecutorInv(c)
        BY <1>5, <2>2 DEF StagesInv, allVars
      <3> QED BY <1>5, <3>1, ExecutorStays DEF allVars, executorVars
    <2>3. ASSUME NEW c \in Endings, part' = <<"ending", c>>
          PROVE  EndingInv(c)'
      <3>1. EndingInv(c)
        BY <1>5, <2>3 DEF StagesInv, allVars
      <3> QED BY <1>5, <3>1, EndingStays DEF allVars
    <2>4. ASSUME NEW c \in PlanningGates, part' = <<"gate", c>>
          PROVE  GateInv(c)'
      <3>1. GateInv(c)
        BY <1>5, <2>4 DEF StagesInv, allVars
      <3> QED BY <1>5, <3>1, GateStays DEF allVars
    <2> QED BY <2>1, <2>2, <2>3, <2>4 DEF StagesInv
  <1> QED BY <1>1, <1>2, <1>3, <1>4, <1>5 DEF Next

LEMMA StagesAlways == Spec => []StagesInv
  <1>1. Spec => Init /\ [][Next]_allVars
    BY PTL DEF Spec
  <1> QED BY <1>1, StagesInitially, StagesStep, PTL

\* No more handlers start in a run or a turn than the budgets allow, and no more model calls
\* are made than max_steps and the grace, in every configuration.
THEOREM BudgetsAlwaysHold == Spec => []BudgetsHold
  <1>1. ASSUME StagesInv PROVE BudgetsHold
    <2>1. ASSUME NEW c \in Executors, part = <<"executor", c>>
          PROVE  Executor(c)!TurnBudget /\ (RefundsOnce(c) => Executor(c)!RunBudget)
      BY <1>1, <2>1, ExecutorIsSafe DEF StagesInv
    <2>2. ASSUME NEW c \in Endings, part = <<"ending", c>>
          PROVE  Ending(c)!CallsAreBounded
      <3>1. CallsAreCounted(c, meta) /\ c.steps \in Nat
        BY <1>1, <2>2, EndingConstants DEF StagesInv, EndingInv
      <3> QED BY <3>1 DEF CallsAreCounted, Ending!CallsAreBounded, Ending!_GRACE_EXTRA_LLM_STEPS
    <2> QED BY <2>1, <2>2 DEF BudgetsHold
  <1> QED BY <1>1, StagesAlways, PTL

\* Only handlers that policy, gate and hooks let pass start; an approval runs the call that
\* was shown; and nothing of a later unit starts after an interrupt.
THEOREM AlwaysRunsOnlyAllowed == Spec => []RunsOnlyAllowed
  <1>1. ASSUME StagesInv PROVE RunsOnlyAllowed
    <2>1. ASSUME NEW c \in Executors, part = <<"executor", c>>
          PROVE  /\ Executor(c)!RunsOnlyAllowed /\ Executor(c)!ShownIsWhatRuns
                 /\ Executor(c)!NothingPastAnInterrupt
      BY <1>1, <2>1, ExecutorIsSafe DEF StagesInv
    <2> QED BY <2>1 DEF RunsOnlyAllowed
  <1> QED BY <1>1, StagesAlways, PTL

\* Once the run is aborted no handler starts, whatever is being awaited then.
THEOREM NothingEverStartsAfterAbort == Spec => NothingStartsAfterAbort
  <1>1. ASSUME [Next]_allVars PROVE [ran' \subseteq ran \/ ~aborted]_executorVars
    <2>1. ASSUME NEW c \in Executors, Executor(c)!Next PROVE ran' \subseteq ran \/ ~aborted
      BY <2>1, AbortedStartsNothing
    <2> QED BY <1>1, <2>1 DEF Next, allVars
  <1>2. Spec => [][Next]_allVars
    BY PTL DEF Spec
  <1> QED BY <1>1, <1>2, PTL DEF NothingStartsAfterAbort

\* A run completes with the answer its hooks judged last, objected to only by a hook that
\* gave in, outside a plan; and while its process lives the observers are told once.
THEOREM AlwaysEndsAsJudged == Spec => []EndsAsJudged
  <1>1. ASSUME StagesInv PROVE EndsAsJudged
    <2>1. ASSUME NEW c \in Endings, part = <<"ending", c>>
          PROVE  Ending(c)!EndsAsJudged /\ Ending(c)!ToldOnce
      <3>1. EndingInv(c)
        BY <1>1, <2>1 DEF StagesInv
      <3> QED BY <3>1 DEF EndingInv, NotYetTold, Ending!ToldOnce
    <2> QED BY <2>1 DEF EndsAsJudged
  <1> QED BY <1>1, StagesAlways, PTL

\* A strategy grant lets one denied call through in every configuration; where the host allows
\* the declaration and plans come one by one, a gated call runs only after a declaration that
\* ran or an approved plan, and a plan that was sent back is neither acted on nor shown again.
THEOREM GatedAlwaysNeedsAWord == Spec => []GatedNeedsAWord
  <1>1. ASSUME StagesInv PROVE GatedNeedsAWord
    <2>1. ASSUME NEW c \in PlanningGates, part = <<"gate", c>>
          PROVE  /\ Gate(c)!OneGrantPerRun
                 /\ PlansOneByOne(c) => /\ Gate(c)!GatedNeedsAWord
                                        /\ Gate(c)!LockedUntilApproved /\ Gate(c)!RevisionDiffers
      BY <1>1, <2>1, GateIsSafe DEF StagesInv
    <2> QED BY <2>1 DEF GatedNeedsAWord
  <1> QED BY <1>1, StagesAlways, PTL

\* One attempt at a time, none before the cooldown was served, and a rolling summary that
\* has absorbed what it covers.
THEOREM CompactionIsAlwaysSound == Spec => []CompactionIsSound
  <1>1. ASSUME StagesInv PROVE CompactionIsSound
    <2>1. CompactionInv
      BY <1>1 DEF StagesInv
    <2>2. Compact!BreakerHolds
      BY <2>1 DEF CompactionInv, LockHasOneHolder, CooldownIsServed, Compact!BreakerHolds, Compact!Trying
    <2>3. ~Archives => Compact!FoldsEverything
      BY <2>1 DEF CompactionInv, CompactionTypes, SummaryIsComplete, Compact!FoldsEverything
    <2> QED BY <2>2, <2>3 DEF CompactionIsSound
  <1> QED BY <1>1, StagesAlways, PTL

=============================================================================
