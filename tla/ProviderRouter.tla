--------------------------- MODULE ProviderRouter ---------------------------
(***************************************************************************)
(* The health-aware router of llm/router.py: concurrent complete() and     *)
(* stream() calls on one event loop, failover between providers and the    *)
(* sticky circuit breaker of each provider.  A call runs to its next await *)
(* in one step: the health checks, the provider's answer and the backoff   *)
(* of a lone provider are where others come in between.                    *)
(*                                                                         *)
(* Time is the age of each open circuit.  Ages, streaks and open counts    *)
(* are kept only as far as the code tells them apart (an age past the      *)
(* longest cooldown, a streak past the threshold, a count whose cooldown   *)
(* is at its cap), so no run of the router is cut off.                     *)
(***************************************************************************)
EXTENDS Integers, FiniteSets, FiniteSetsExt

CONSTANTS
    Providers,   \* configured providers
    Requests,    \* concurrent callers
    NoProvider,  \* no attempt under way
    Threshold,   \* circuit_failure_threshold
    Cooldown,    \* circuit_cooldown_seconds
    MaxCooldown, \* circuit_cooldown_max_seconds
    MaxRetries,  \* single_provider_retry_max
    Fallback     \* fallback_enabled

\* What the constants have to be.
RouterAssumption ==
    /\ IsFiniteSet(Providers) /\ Providers # {} /\ NoProvider \notin Providers
    /\ {Threshold, Cooldown} \subseteq Nat \ {0}
    /\ MaxCooldown \in Nat /\ MaxCooldown >= Cooldown
    /\ MaxRetries \in Nat /\ Fallback \in BOOLEAN

VARIABLES
    healthy,  \* status.healthy of every provider
    breaker,  \* _BreakerState of every provider
    calls,    \* the complete() or stream() call of every caller
    chunks    \* history: providers whose chunks the caller's current stream has shown

vars == <<healthy, breaker, calls, chunks>>

\* marks_unhealthy without is_fatal, is_fatal without marks_unhealthy, or neither.
Failure == {"down", "fatal", "other"}

Closed == [opened |-> FALSE, age |-> 0, consecutive_failures |-> 0, open_count |-> 0,
           half_open |-> FALSE]
\* last: the kind of the last error; probe: the attempt began on a half-open circuit.
Idle == [pc |-> "idle", provider |-> NoProvider, tried |-> {}, last |-> "none",
         retries |-> 0, probe |-> FALSE]

Init ==
    /\ healthy = [p \in Providers |-> TRUE]
    /\ breaker = [p \in Providers |-> Closed]
    /\ calls = [r \in Requests |-> Idle]
    /\ chunks = [r \in Requests |-> {}]

Become(r, c) == calls' = [calls EXCEPT ![r] = c]

CapAt(n, top) == IF n > top THEN top ELSE n

\* Exponential, capped.  The smallest count at the cap stands for all above it.
_cooldown_for(open_count) == CapAt(Cooldown * 2^(open_count - 1), MaxCooldown)
CapCount == CHOOSE n \in 1..(MaxCooldown + 1) :
                /\ Cooldown * 2^(n - 1) >= MaxCooldown
                /\ \A m \in 1..(n - 1) : Cooldown * 2^(m - 1) < MaxCooldown

\* Arithmetic the proofs take from TLC, which evaluates it: some count is at the cap, and
\* every count up to that one has a cooldown.
CooldownArithmetic ==
    CapCount \in Nat \ {0} /\ \A n \in 1..CapCount : _cooldown_for(n) \in 0..MaxCooldown

(***************************************************************************)
(* The breaker.                                                            *)
(***************************************************************************)
\* Mutant: an open circuit waits for a success.
InCooldownForever(p) == breaker[p].opened

InCooldown(p) ==
    breaker[p].opened /\ breaker[p].age < _cooldown_for(breaker[p].open_count)

\* What one _ranked_candidates call does to the circuits: each one that has cooled down
\* turns half-open, whether its provider is chosen or not.
_breaker_open ==
    [p \in Providers |->
        IF breaker[p].opened /\ ~InCooldown(p)
        THEN [breaker[p] EXCEPT !.half_open = TRUE] ELSE breaker[p]]

Opens(b) == [b EXCEPT !.opened = TRUE, !.age = 0, !.half_open = FALSE,
                      !.open_count = CapAt(@ + 1, CapCount)]

\* Mutant: the threshold is compared before the failure is counted.
RecordOffByOne(p, kind) ==
    LET b == breaker[p]
        failed == [b EXCEPT !.consecutive_failures = CapAt(@ + 1, Threshold)]
    IN CASE kind = "success" -> Closed
         [] kind = "down" ->
              IF b.half_open \/ (~b.opened /\ b.consecutive_failures >= Threshold)
              THEN Opens(failed) ELSE failed
         [] OTHER -> b

\* Only a failure that marks the provider down counts; a half-open circuit re-opens at
\* once, a closed one at the threshold, an open one only counts.
_record_breaker(p, kind) ==
    LET b == breaker[p]
        failed == [b EXCEPT !.consecutive_failures = CapAt(@ + 1, Threshold)]
    IN CASE kind = "success" -> Closed
         [] kind = "down" ->
              IF b.half_open \/ (~b.opened /\ failed.consecutive_failures >= Threshold)
              THEN Opens(failed) ELSE failed
         [] OTHER -> b

record_result(p, kind) ==
    /\ healthy' = [healthy EXCEPT ![p] = @ /\ kind # "down"]
    /\ breaker' = [breaker EXCEPT ![p] = _record_breaker(p, kind)]

(***************************************************************************)
(* complete() and stream().                                                *)
(***************************************************************************)
\* refresh_health: the checks answer what they like, once they all have.
refresh_health(r) ==
    /\ calls[r].pc = "idle"
    /\ \E up \in SUBSET Providers : healthy' = [p \in Providers |-> p \in up]
    /\ Become(r, [Idle EXCEPT !.pc = "choose"])
    /\ chunks' = [chunks EXCEPT ![r] = {}]
    /\ UNCHANGED breaker

\* Any healthy provider may have the best score.
_ranked_candidates(r) == {p \in Providers \ calls[r].tried : ~InCooldown(p) /\ healthy[p]}

Attempt(r, p) ==
    /\ breaker' = _breaker_open
    /\ Become(r, [calls[r] EXCEPT !.pc = "attempt", !.provider = p,
                                  !.probe = _breaker_open[p].half_open])
    /\ UNCHANGED <<healthy, chunks>>

Select(r) ==
    /\ calls[r].pc = "choose"
    /\ \E p \in _ranked_candidates(r) : Attempt(r, p)

_should_retry_single_provider(r) ==
    /\ Cardinality(Providers) = 1
    /\ calls[r].retries < MaxRetries
    /\ calls[r].last = "down"

\* Nothing to choose from: the lone provider is tried again after a backoff, or the call
\* raises its last error.
Backoff(r) ==
    /\ calls[r].pc = "choose"
    /\ _ranked_candidates(r) = {}
    /\ breaker' = _breaker_open
    /\ IF _should_retry_single_provider(r)
       THEN Become(r, [calls[r] EXCEPT !.pc = "backoff", !.retries = @ + 1])
       ELSE Become(r, Idle)
    /\ UNCHANGED <<healthy, chunks>>

\* The retry asks neither the health flag nor the breaker.
RetrySingle(r) ==
    /\ calls[r].pc = "backoff"
    /\ \E p \in Providers :
          Become(r, [calls[r] EXCEPT !.pc = "attempt", !.provider = p,
                                     !.probe = breaker[p].half_open])
    /\ UNCHANGED <<healthy, breaker, chunks>>

\* A stream shows the caller a chunk.
StreamEvent(r) ==
    /\ calls[r].pc = "attempt"
    /\ chunks' = [chunks EXCEPT ![r] = @ \cup {calls[r].provider}]
    /\ UNCHANGED <<healthy, breaker, calls>>

AttemptSucceeds(r) ==
    /\ calls[r].pc = "attempt"
    /\ record_result(calls[r].provider, "success")
    /\ Become(r, Idle)
    /\ UNCHANGED chunks

\* Mutant: a broken stream is taken up by the next provider.
AttemptFailsOver(r, kind) ==
    /\ calls[r].pc = "attempt"
    /\ record_result(calls[r].provider, kind)
    /\ Become(r, IF kind = "fatal" THEN Idle
                 ELSE [calls[r] EXCEPT !.pc = "choose", !.provider = NoProvider,
                                       !.tried = @ \cup {calls[r].provider},
                                       !.last = kind, !.probe = FALSE])
    /\ UNCHANGED chunks

\* The call raises, or goes on with the providers it has not tried.
AttemptFails(r, kind) ==
    /\ calls[r].pc = "attempt"
    /\ record_result(calls[r].provider, kind)
    /\ Become(r, IF kind = "fatal" \/ chunks[r] # {} \/ ~Fallback THEN Idle
                 ELSE [calls[r] EXCEPT !.pc = "choose", !.provider = NoProvider,
                                       !.tried = @ \cup {calls[r].provider},
                                       !.last = kind, !.probe = FALSE])
    /\ UNCHANGED chunks

\* The clock: an open circuit ages.
Tick ==
    /\ \E p \in Providers : breaker[p].opened /\ breaker[p].age < MaxCooldown
    /\ breaker' = [p \in Providers |->
                      IF breaker[p].opened
                      THEN [breaker[p] EXCEPT !.age = CapAt(@ + 1, MaxCooldown)]
                      ELSE breaker[p]]
    /\ UNCHANGED <<healthy, calls, chunks>>

AttemptEnds(r) == AttemptSucceeds(r) \/ \E kind \in Failure : AttemptFails(r, kind)

Next ==
    \/ \E r \in Requests :
          \/ refresh_health(r) \/ Select(r) \/ Backoff(r) \/ RetrySingle(r)
          \/ StreamEvent(r) \/ AttemptSucceeds(r)
          \/ \E kind \in Failure : AttemptFails(r, kind)
    \/ Tick

\* Calls go on to their next await and answers come; time passes.
Fairness ==
    /\ WF_vars(Tick)
    /\ \A r \in Requests :
          WF_vars(Select(r) \/ Backoff(r) \/ RetrySingle(r)) /\ WF_vars(AttemptEnds(r))

\* Callers keep coming, and from some time on every health check is positive.
Recovery ==
    /\ \A r \in Requests : WF_vars(refresh_health(r))
    /\ <>[][\A r \in Requests : refresh_health(r) => \A p \in Providers : healthy'[p]]_vars

Spec == Init /\ [][Next]_vars
FairSpec == Spec /\ Fairness
RecoverySpec == FairSpec /\ Recovery

-----------------------------------------------------------------------------
Ongoing(r) == calls[r].pc \in {"choose", "attempt", "backoff"}

\* _BreakerState, the locals of a call, and the health flags.
TypeOK ==
    /\ healthy \in [Providers -> BOOLEAN]
    /\ breaker \in [Providers -> [opened : BOOLEAN, age : 0..MaxCooldown,
                                  consecutive_failures : 0..Threshold,
                                  open_count : 0..CapCount, half_open : BOOLEAN]]
    /\ calls \in [Requests -> [pc : {"idle", "choose", "attempt", "backoff"},
                               provider : Providers \cup {NoProvider},
                               tried : SUBSET Providers, last : Failure \cup {"none"},
                               retries : 0..MaxRetries, probe : BOOLEAN]]
    /\ chunks \in [Requests -> SUBSET Providers]

\* Results of attempts that began before the circuit opened, during its cooldown or as its
\* probe arrive in any order: still a closed circuit has a streak below the threshold and
\* no opening left over, and only an open circuit is half-open.
BreakerIsCoherent ==
    \A p \in Providers :
        LET b == breaker[p] IN
        /\ ~b.opened => b.consecutive_failures < Threshold /\ b.open_count = 0
        /\ b.half_open => b.opened /\ b.age >= _cooldown_for(b.open_count)

\* Failover is invisible: a caller never sees chunks of two providers in one stream.
OneProviderPerStream == \A r \in Requests : Cardinality(chunks[r]) <= 1

\* A call tries a provider once, but for the bounded retries of a lone provider.
AttemptsAreBounded ==
    \A r \in Requests :
        /\ calls[r].pc = "attempt" /\ calls[r].provider \in calls[r].tried =>
              Cardinality(Providers) = 1 /\ calls[r].retries > 0
        /\ calls[r].retries > 0 => calls[r].tried = Providers

\* Every call comes back to its caller.
CallsReturn == \A r \in Requests : Ongoing(r) ~> ~Ongoing(r)

\* A circuit does not stay shut for ever: while callers keep coming and health checks have
\* become positive, its provider is tried again.
CircuitIsProbed ==
    \A p \in Providers : breaker[p].opened ~>
        (~breaker[p].opened \/ \E r \in Requests : calls[r].provider = p)

\* "The next attempt on the provider is a single probe": never two attempts under way
\* that both began on the half-open circuit.
OneProbe ==
    \A r, s \in Requests : r # s /\ calls[r].probe /\ calls[s].probe =>
        calls[r].provider # calls[s].provider
=============================================================================
