----------------------------- MODULE Compaction -----------------------------
(***************************************************************************)
(* Context compaction before a model call: the lock, the circuit breaker   *)
(* and its half-open probe in CompactionOrchestrator, which every run of   *)
(* an agent shares, and the stage that tries session memory, the condenser *)
(* pipeline, the model's summary and the partial rewrite in turn.  Runs    *)
(* are coroutines of one loop: they interleave where the stage awaits the  *)
(* retention pass and the summary, with the lock held.  What of a run's    *)
(* transcript a rolling summary has absorbed is kept as positions.         *)
(***************************************************************************)
EXTENDS Naturals, FiniteSets

CONSTANTS
    Runs,               \* runs that share the agent's orchestrator
    failure_limit,      \* compaction_failure_limit
    cooldown_attempts,  \* checks that an open breaker skips
    every_n,            \* rolling_summary_every_n_turns
    Configs,            \* runner configurations to choose from
    Archives,           \* the retention pass may take messages out of the view
    MaxGroups           \* bound: groups of messages of a transcript

CompactionAssumption ==
    /\ failure_limit \in Nat \ {0} /\ cooldown_attempts \in Nat /\ every_n \in Nat
    /\ Archives \in BOOLEAN /\ MaxGroups \in Nat \ {0}

VARIABLES
    config,        \* enabled, session, llm, partial, pipeline, rolling
    orchestrator,  \* failures, cooldown, half_open, lock
    attempt,       \* per run: where it is in the stage, and the mode it decided on
    transcript,    \* per run: groups, view, covers, folded, skips
    served         \* history: checks since the failure that opened the breaker

vars == <<config, orchestrator, attempt, transcript, served>>

Pressures == {"normal", "compact_recommended", "blocking"}
Idle == [at |-> "idle", mode |-> "none"]

Init ==
    /\ config \in Configs
    /\ orchestrator = [failures |-> 0, cooldown |-> 0, half_open |-> FALSE, lock |-> FALSE]
    /\ attempt = [r \in Runs |-> Idle]
    /\ transcript = [r \in Runs |-> [groups |-> 1, view |-> {}, covers |-> 0, folded |-> {},
                                     skips |-> 0]]
    /\ served = 0

-----------------------------------------------------------------------------
Open == orchestrator.failures >= failure_limit

\* Mutant: the probe reports the failures that opened the breaker.
ProbeReportsAll(half_open) == orchestrator.failures

\* What decide() tells decide_compaction of the failures.
reported_failures(half_open) ==
    IF half_open /\ orchestrator.failures >= failure_limit THEN failure_limit - 1
    ELSE orchestrator.failures

\* decide_compaction: the mode, "none" when compaction is disabled, locked, held back by
\* the breaker or not called for.
decide_compaction(breaker_open, failures, pressure, memory) ==
    IF \/ ~config.enabled \/ orchestrator.lock
       \/ breaker_open \/ failures >= failure_limit
       \/ pressure = "normal"
    THEN "none"
    ELSE IF config.session /\ memory THEN "session_memory"
    ELSE IF config.llm THEN "llm_full" ELSE "partial"

\* decide(): a check burns a tick of the cooldown, whatever it was made for, or lets a
\* probe through; the probe flag stays up until an attempt ends.
Decide(pressure, memory) ==
    LET cooling == Open /\ orchestrator.cooldown > 0
        probe == orchestrator.half_open \/ (Open /\ ~cooling)
    IN [mode |-> decide_compaction(cooling, reported_failures(probe), pressure, memory),
        after |-> [orchestrator EXCEPT
                      !.cooldown = IF cooling THEN @ - 1 ELSE @, !.half_open = probe]]

\* _rolling_cadence_should_defer: the fold waits for its turn, but not under blocking
\* pressure and not without a summary to reuse.
Cadence(r, mode) ==
    /\ mode = "llm_full" /\ config.rolling
    /\ every_n > 1 /\ transcript[r].folded # {}

Defers(r, mode, pressure) ==
    /\ Cadence(r, mode)
    /\ pressure # "blocking"
    /\ transcript[r].skips + 1 < every_n

\* apply_compaction_if_eligible up to its first await: from a model step, or with blocking
\* pressure to recover from an overflow.  start_attempt() takes the lock.
apply_compaction_if_eligible(r, pressure, memory) ==
    LET decided == Decide(pressure, memory)
        deferred == Defers(r, decided.mode, pressure)
        starts == decided.mode # "none" /\ ~deferred
    IN /\ attempt[r] = Idle
       /\ orchestrator' = [decided.after EXCEPT !.lock = @ \/ starts]
       /\ attempt' = IF starts
                     THEN [attempt EXCEPT ![r] = [at |-> "prepass", mode |-> decided.mode]]
                     ELSE attempt
       /\ transcript' = [transcript EXCEPT
             ![r].skips = IF ~Cadence(r, decided.mode) THEN @
                          ELSE IF deferred THEN @ + 1 ELSE 0,
             ![r].view = IF starts THEN 1 .. transcript[r].groups ELSE @]
       /\ served' = IF Open /\ served < cooldown_attempts /\ ~starts THEN served + 1
                    ELSE served
       /\ UNCHANGED config

\* _apply_jev_compaction_prepass: the retention pass is awaited.  It may leave messages out
\* of this request's view, the last one excepted, and fails open.  What follows up to the
\* next await changes nothing that another run can reach but through complete_attempt.
_apply_jev_compaction_prepass(r) ==
    /\ attempt[r].at = "prepass"
    /\ attempt' = [attempt EXCEPT ![r].at = "dispatch"]
    /\ \E archived \in IF Archives THEN SUBSET (1 .. transcript[r].groups - 1) ELSE {{}} :
          transcript' = [transcript EXCEPT ![r].view = @ \ archived]
    /\ UNCHANGED <<config, orchestrator, served>>

-----------------------------------------------------------------------------
\* Mutant: a breaker that is open already arms no new cooldown.
CompleteArmsOnce(outcome) ==
    LET failures == IF orchestrator.failures < failure_limit
                    THEN orchestrator.failures + 1 ELSE failure_limit
        opens == outcome = "failed" /\ failures = failure_limit /\ ~Open
    IN /\ orchestrator' =
             [failures |-> CASE outcome = "failed" -> failures
                             [] outcome = "success" -> 0
                             [] OTHER -> orchestrator.failures,
              cooldown |-> CASE opens -> cooldown_attempts
                             [] outcome = "success" -> 0
                             [] OTHER -> orchestrator.cooldown,
              half_open |-> FALSE, lock |-> FALSE]
       /\ served' = IF outcome = "failed" THEN 0 ELSE served

\* complete_attempt: a failure counts and, at the limit, arms the cooldown; a success clears
\* both; an attempt that freed nothing counts as neither.  Past the limit the count is only
\* compared with it, so it stays there.
complete_attempt(outcome) ==
    LET failures == IF orchestrator.failures < failure_limit
                    THEN orchestrator.failures + 1 ELSE failure_limit
        opens == outcome = "failed" /\ failures = failure_limit
    IN /\ orchestrator' =
             [failures |-> CASE outcome = "failed" -> failures
                             [] outcome = "success" -> 0
                             [] OTHER -> orchestrator.failures,
              cooldown |-> CASE opens -> cooldown_attempts
                             [] outcome = "success" -> 0
                             [] OTHER -> orchestrator.cooldown,
              half_open |-> FALSE, lock |-> FALSE]
       /\ served' = IF outcome = "failed" THEN 0 ELSE served

Completes(r, outcome) ==
    /\ complete_attempt(outcome)
    /\ attempt' = [attempt EXCEPT ![r] = Idle]
    /\ UNCHANGED config

Dispatched(r, mode) == attempt[r] = [at |-> "dispatch", mode |-> mode]

\* _reset_rolling_summary_state.
_reset_rolling_summary_state(r) ==
    [transcript[r] EXCEPT !.folded = {}, !.covers = 0, !.skips = 0]

\* A fresh session memory replaces the prompt and with it the rolling summary, unless it
\* leaves nothing to send.
_apply_session_memory_compaction(r) ==
    /\ Dispatched(r, "session_memory")
    /\ \/ Completes(r, "failed") /\ UNCHANGED transcript
       \/ Completes(r, "success")
          /\ transcript' = [transcript EXCEPT ![r] = _reset_rolling_summary_state(r)]

\* The condensers that need no model: they fit, free something, or free nothing.  A stale
\* session memory does not come here.
_run_condenser_pipeline_dispatch(r) ==
    /\ config.pipeline
    /\ Dispatched(r, "llm_full") \/ Dispatched(r, "partial")
    /\ \/ Completes(r, "success")
       \/ ~config.llm /\ Completes(r, "neutral")
    /\ UNCHANGED transcript

\* _apply_llm_full_compaction is reached: for its own mode, from a session memory that is
\* stale, or from condensers that did not fit.  The summary is awaited.
CallSummary(r) ==
    /\ config.llm
    /\ Dispatched(r, "session_memory") \/ Dispatched(r, "llm_full")
    /\ attempt' = [attempt EXCEPT ![r].at = "calling"]
    /\ UNCHANGED <<config, orchestrator, transcript, served>>

\* _build_full_compaction_excerpt: the groups of the view past the first `covers` ones.
\* Those its size budget drops are named in the receipt and count as covered.
Slice(r) ==
    LET skip == IF config.rolling THEN transcript[r].covers ELSE 0
    IN {g \in transcript[r].view : Cardinality({h \in transcript[r].view : h <= g}) > skip}

\* The summary comes back: it absorbs the slice into the one before, and the position moves
\* to the number of groups in the view.
SummaryReturns(r) ==
    /\ attempt[r].at = "calling"
    /\ Completes(r, "success")
    /\ transcript' =
          IF config.rolling
          THEN [transcript EXCEPT ![r].folded = @ \cup Slice(r),
                                  ![r].covers = Cardinality(transcript[r].view)]
          ELSE transcript

\* It is not what was asked for, or its provider fell silent.
SummaryFails(r) ==
    /\ attempt[r].at = "calling"
    /\ Completes(r, "failed")
    /\ UNCHANGED transcript

\* The partial rewrite: for its own mode, and when a stale session memory has no model to
\* go to.
_apply_partial_compaction(r) ==
    /\ config.partial
    /\ \/ Dispatched(r, "partial") /\ ~config.pipeline
       \/ Dispatched(r, "session_memory") /\ ~config.llm
    /\ Completes(r, "success") \/ Completes(r, "neutral")
    /\ UNCHANGED transcript

\* No path took the attempt.
_finalize_unimplemented_compaction_path(r) ==
    /\ ~config.partial /\ ~config.llm
    /\ \/ Dispatched(r, "partial") /\ ~config.pipeline
       \/ Dispatched(r, "session_memory")
    /\ Completes(r, "failed")
    /\ UNCHANGED transcript

\* The provider raises, or the run is cancelled, while one of the two calls is awaited: the
\* run ends and nothing releases the lock.
Raises(r) ==
    /\ attempt[r].at \in {"prepass", "calling"}
    /\ attempt' = [attempt EXCEPT ![r].at = "raised"]
    /\ UNCHANGED <<config, orchestrator, transcript, served>>

\* The run goes on between two checks and its transcript grows.
TranscriptGrows(r) ==
    /\ attempt[r] = Idle
    /\ transcript[r].groups < MaxGroups
    /\ transcript' = [transcript EXCEPT ![r].groups = @ + 1]
    /\ UNCHANGED <<config, orchestrator, attempt, served>>

\* The stage goes on after an await.
Step(r) ==
    \/ _apply_jev_compaction_prepass(r) \/ _apply_session_memory_compaction(r)
    \/ _run_condenser_pipeline_dispatch(r) \/ CallSummary(r)
    \/ SummaryReturns(r) \/ SummaryFails(r)
    \/ _apply_partial_compaction(r) \/ _finalize_unimplemented_compaction_path(r)

Check(r) ==
    \E pressure \in Pressures, memory \in BOOLEAN :
        apply_compaction_if_eligible(r, pressure, memory)

\* A check of a run whose prompt has outgrown its window.
PressedCheck ==
    \E r \in Runs, pressure \in Pressures \ {"normal"}, memory \in BOOLEAN :
        apply_compaction_if_eligible(r, pressure, memory)

Next == \E r \in Runs : Check(r) \/ Step(r) \/ Raises(r) \/ TranscriptGrows(r)

\* Awaited calls return or raise, and runs under pressure come to their next model step.
Fairness == WF_vars(\E r \in Runs : Step(r) \/ Raises(r)) /\ WF_vars(PressedCheck)

Spec == Init /\ [][Next]_vars /\ Fairness

-----------------------------------------------------------------------------
Trying(r) == attempt[r].at \in {"prepass", "dispatch", "calling"}

\* The runs of an agent share one breaker: one of them tries at a time, and after the failure
\* that opened it, or that of a probe, no run tries again until cooldown_attempts checks
\* were skipped.
BreakerHolds ==
    /\ \A r, s \in Runs : Trying(r) /\ Trying(s) => r = s
    /\ \A r \in Runs : Trying(r) /\ Open => served >= cooldown_attempts
    /\ orchestrator.half_open => Open /\ orchestrator.cooldown = 0

\* A rolling summary has absorbed every group before the position the next one starts from:
\* failed attempts, deferred ones and a session memory in between lose nothing.
FoldsEverything == \A r \in Runs : 1 .. transcript[r].covers \subseteq transcript[r].folded

\* "Without the cooldown, an open breaker either blocked compaction for the whole run ...":
\* an open breaker lets an attempt through, unless one ended in an exception.
OpenIsProbed ==
    Open ~> \E r \in Runs : Trying(r) \/ attempt[r].at = "raised"

\* The lock is held by an attempt that is in progress.
LockIsReleased == orchestrator.lock => \E r \in Runs : Trying(r)
=============================================================================
