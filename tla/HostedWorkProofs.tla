-------------------------- MODULE HostedWorkProofs --------------------------
(***************************************************************************)
(* Proofs about the services of HostedWork, for every value of their       *)
(* constants: the breakers of the router stay coherent and its failover    *)
(* shows no seam, no job spins, the cron search finds the next moment of   *)
(* the real calendar, and a batch records each run once and bounds its     *)
(* spend.  A service keeps its own invariant; HostedInv is their           *)
(* conjunction, since a step is one of a single service.                   *)
(***************************************************************************)
EXTENDS HostedWork, FiniteSetTheorems, WellFoundedInduction, SequenceTheorems, TLAPS

-----------------------------------------------------------------------------
(***************************************************************************)
(* The router, with any set P of providers and any longest cooldown M.     *)
(***************************************************************************)
CircuitState(P, M) ==
    [opened : BOOLEAN, age : 0..M, consecutive_failures : 0..Threshold,
     open_count : 0..Router(P, M)!CapCount, half_open : BOOLEAN]

\* What a single circuit may be.
Coherent(P, M, b) ==
    /\ b \in CircuitState(P, M)
    /\ b.opened => b.open_count >= 1
    /\ ~b.opened => b.consecutive_failures < Threshold /\ b.open_count = 0
    /\ b.half_open => b.opened /\ b.age >= Router(P, M)!_cooldown_for(b.open_count)

Circuits(P, M) ==
    /\ breaker = [p \in P |-> breaker[p]]
    /\ \A p \in P : Coherent(P, M, breaker[p])

\* A success closes the circuit.
LEMMA CloseIsCoherent ==
    ASSUME NEW P, NEW M, Router(P, M)!RouterAssumption, Router(P, M)!CooldownArithmetic
    PROVE  Coherent(P, M, Router(P, M)!Closed)
  BY DEF Coherent, CircuitState, Router!Closed, Router!RouterAssumption, Router!CooldownArithmetic

\* A circuit that has cooled down turns half-open.
LEMMA HalfOpenIsCoherent ==
    ASSUME NEW P, NEW M, Router(P, M)!RouterAssumption, Router(P, M)!CooldownArithmetic,
           NEW b, Coherent(P, M, b),
           b.opened, ~(b.age < Router(P, M)!_cooldown_for(b.open_count))
    PROVE  Coherent(P, M, [b EXCEPT !.half_open = TRUE])
  <1> DEFINE c == [b EXCEPT !.half_open = TRUE]
  <1>1. /\ c.opened = b.opened /\ c.age = b.age /\ c.open_count = b.open_count
        /\ c \in CircuitState(P, M)
    BY DEF Coherent, CircuitState
  <1>2. Router(P, M)!_cooldown_for(b.open_count) \in Int /\ b.age \in Int
    BY DEF Coherent, CircuitState, Router!CooldownArithmetic
  <1>3. b.age >= Router(P, M)!_cooldown_for(b.open_count)
    BY <1>2
  <1> HIDE DEF c
  <1> QED BY <1>1, <1>3 DEF Coherent, CircuitState

\* An open circuit ages.
LEMMA OlderIsCoherent ==
    ASSUME NEW P, NEW M, Router(P, M)!RouterAssumption, Router(P, M)!CooldownArithmetic,
           NEW b, Coherent(P, M, b), b.opened
    PROVE  Coherent(P, M, [b EXCEPT !.age = Router(P, M)!CapAt(@ + 1, M)])
  <1> DEFINE age == Router(P, M)!CapAt(b.age + 1, M)
             c == [b EXCEPT !.age = age]
  <1>1. age \in 0..M /\ (age >= b.age \/ age = M)
    BY DEF Coherent, CircuitState, Router!CapAt, Router!RouterAssumption
  <1> HIDE DEF age
  <1>2. /\ c.opened = b.opened /\ c.age = age /\ c.open_count = b.open_count
        /\ c.half_open = b.half_open
        /\ c \in CircuitState(P, M)
    BY <1>1 DEF Coherent, CircuitState
  <1>3. Router(P, M)!_cooldown_for(b.open_count) \in 0..M
    BY DEF Coherent, CircuitState, Router!CooldownArithmetic
  <1>4. b.age >= Router(P, M)!_cooldown_for(b.open_count) =>
            age >= Router(P, M)!_cooldown_for(b.open_count)
    BY <1>1, <1>3 DEF Coherent, CircuitState, Router!RouterAssumption
  <1> HIDE DEF c
  <1>5. Coherent(P, M, c)
    BY <1>2, <1>4 DEF Coherent, CircuitState
  <1> QED BY <1>5 DEF c, age

\* A circuit opens, again or for the first time.
LEMMA OpenIsCoherent ==
    ASSUME NEW P, NEW M, Router(P, M)!RouterAssumption, Router(P, M)!CooldownArithmetic,
           NEW b, b \in CircuitState(P, M)
    PROVE  Coherent(P, M, Router(P, M)!Opens(b))
  <1> DEFINE count == Router(P, M)!CapAt(b.open_count + 1, Router(P, M)!CapCount)
             c == Router(P, M)!Opens(b)
  <1>1. count \in 0..Router(P, M)!CapCount /\ count >= 1
    <2>1. b.open_count \in 0..Router(P, M)!CapCount
      BY DEF CircuitState
    <2>2. Router(P, M)!CapCount \in Nat /\ Router(P, M)!CapCount >= 1
      BY DEF Router!CooldownArithmetic
    <2> QED BY <2>1, <2>2 DEF Router!CapAt
  <1>2. c = [b EXCEPT !.opened = TRUE, !.age = 0, !.half_open = FALSE, !.open_count = count]
    BY DEF Router!Opens
  <1> HIDE DEF count, c
  <1>3. /\ c.opened = TRUE /\ c.half_open = FALSE /\ c.open_count = count
        /\ c \in CircuitState(P, M)
    <2>1. 0 \in 0..M
      BY DEF Router!RouterAssumption
    <2>2. c.opened = TRUE /\ c.half_open = FALSE /\ c.open_count = count
      BY <1>2
    <2>3. c \in CircuitState(P, M)
      BY <1>1, <1>2, <2>1 DEF CircuitState
    <2> QED BY <2>2, <2>3
  <1>4. Coherent(P, M, c)
    BY <1>1, <1>3 DEF Coherent, CircuitState
  <1> QED BY <1>4 DEF c

\* _record_breaker, whatever the circuit was when the attempt began.
LEMMA RecordIsCoherent ==
    ASSUME NEW P, NEW M, Router(P, M)!RouterAssumption, Router(P, M)!CooldownArithmetic,
           Circuits(P, M), NEW p \in P, NEW kind
    PROVE  Coherent(P, M, Router(P, M)!_record_breaker(p, kind))
  <1> DEFINE failed == [breaker[p] EXCEPT !.consecutive_failures = Router(P, M)!CapAt(@ + 1, Threshold)]
  <1>1. Coherent(P, M, breaker[p])
    BY DEF Circuits
  <1>2. failed \in CircuitState(P, M)
    BY <1>1 DEF Coherent, CircuitState, Router!CapAt, Router!RouterAssumption
  <1>3. ASSUME breaker[p].opened \/ ~(failed.consecutive_failures >= Threshold)
        PROVE  Coherent(P, M, failed)
    BY <1>1, <1>2, <1>3 DEF Coherent, CircuitState, Router!RouterAssumption
  <1>4. Coherent(P, M, Router(P, M)!Opens(failed))
    BY <1>2, OpenIsCoherent
  <1> QED
    BY <1>1, <1>3, <1>4, CloseIsCoherent DEF Router!_record_breaker

\* No step of the router, of whichever caller, makes a circuit incoherent.
LEMMA BreakerStep ==
    ASSUME NEW P, NEW M, Router(P, M)!RouterAssumption, Router(P, M)!CooldownArithmetic,
           Circuits(P, M), Router(P, M)!Next
    PROVE  Circuits(P, M)'
  <1>1. ASSUME breaker' = Router(P, M)!_breaker_open
        PROVE  Circuits(P, M)'
    <2>1. ASSUME NEW p \in P
          PROVE  Coherent(P, M, breaker'[p])
      <3>1. CASE breaker[p].opened /\ ~Router(P, M)!InCooldown(p)
        <4>1. breaker'[p] = [breaker[p] EXCEPT !.half_open = TRUE]
          BY <1>1, <3>1 DEF Router!_breaker_open
        <4> QED BY <3>1, <4>1, HalfOpenIsCoherent DEF Circuits, Router!InCooldown
      <3>2. CASE ~(breaker[p].opened /\ ~Router(P, M)!InCooldown(p))
        <4>1. breaker'[p] = breaker[p]
          BY <1>1, <3>2 DEF Router!_breaker_open
        <4> QED BY <4>1 DEF Circuits
      <3> QED BY <3>1, <3>2
    <2> QED BY <1>1, <2>1 DEF Circuits, Coherent, Router!_breaker_open
  <1>2. ASSUME NEW p, NEW kind, Router(P, M)!record_result(p, kind)
        PROVE  Circuits(P, M)'
    <2>1. breaker' = [breaker EXCEPT ![p] = Router(P, M)!_record_breaker(p, kind)]
      BY <1>2 DEF Router!record_result
    <2>2. p \in P => Coherent(P, M, Router(P, M)!_record_breaker(p, kind))
      BY RecordIsCoherent
    <2> QED BY <2>1, <2>2 DEF Circuits, Coherent
  <1>3. ASSUME Router(P, M)!Tick
        PROVE  Circuits(P, M)'
    <2>1. ASSUME NEW p \in P
          PROVE  Coherent(P, M, breaker'[p])
      <3>1. CASE breaker[p].opened
        <4>1. breaker'[p] = [breaker[p] EXCEPT !.age = Router(P, M)!CapAt(@ + 1, M)]
          BY <1>3, <3>1 DEF Router!Tick
        <4> QED BY <3>1, <4>1, OlderIsCoherent DEF Circuits
      <3>2. CASE ~breaker[p].opened
        <4>1. breaker'[p] = breaker[p]
          BY <1>3, <3>2 DEF Router!Tick
        <4> QED BY <4>1 DEF Circuits
      <3> QED BY <3>1, <3>2
    <2>2. breaker' = [p \in P |-> breaker'[p]]
      BY <1>3 DEF Router!Tick
    <2> QED BY <2>1, <2>2 DEF Circuits, Coherent
  <1>4. ASSUME UNCHANGED breaker
        PROVE  Circuits(P, M)'
    BY <1>4 DEF Circuits, Coherent
  <1> QED
    BY <1>1, <1>2, <1>3, <1>4
    DEF Router!Next, Router!refresh_health, Router!Select, Router!Attempt, Router!Backoff,
        Router!RetrySingle, Router!StreamEvent, Router!AttemptSucceeds, Router!AttemptFails

CallState(P, M) ==
    [pc : {"idle", "choose", "attempt", "backoff"}, provider : P \cup {NoProvider},
     tried : SUBSET P, last : {"down", "fatal", "other", "none"},
     retries : 0..MaxRetries, probe : BOOLEAN]

\* What a call and the chunks its caller was shown may be.
CallIsSound(P, M, c, shown) ==
    /\ c \in CallState(P, M)
    /\ c.pc \in {"choose", "backoff"} => shown = {}
    /\ c.pc = "attempt" => c.provider \in P /\ shown \subseteq {c.provider}
    /\ \E x : shown \subseteq {x}
    /\ c.last # "none" => c.tried # {}
    /\ c.retries > 0 => c.tried = P
    /\ c.pc = "backoff" => c.retries > 0 /\ Cardinality(P) = 1
    /\ c.pc = "attempt" /\ c.provider \in c.tried => c.retries > 0 /\ Cardinality(P) = 1

Calls(P, M) ==
    /\ calls = [r \in Requests |-> calls[r]] /\ chunks = [r \in Requests |-> chunks[r]]
    /\ \A r \in Requests : CallIsSound(P, M, calls[r], chunks[r])

\* The router counts as the library does.
LEMMA SameCardinality ==
    ASSUME NEW P, NEW M, NEW S
    PROVE  Router(P, M)!Cardinality(S) = Cardinality(S)
  BY DEF Router!Cardinality, Cardinality, Router!IsFiniteSet, IsFiniteSet

\* And its finite sets are the library's.
LEMMA SameFiniteness ==
    ASSUME NEW P, NEW M, NEW S
    PROVE  Router(P, M)!IsFiniteSet(S) = IsFiniteSet(S)
  BY DEF Router!IsFiniteSet, IsFiniteSet

\* A step that is one of a single call leaves the others as they are.
LEMMA OneCallMoves ==
    ASSUME NEW P, NEW M, Calls(P, M), NEW r \in Requests, NEW c, NEW shown,
           calls' = [calls EXCEPT ![r] = c], chunks' = [chunks EXCEPT ![r] = shown],
           CallIsSound(P, M, c, shown)
    PROVE  Calls(P, M)'
  <1>1. /\ calls' = [q \in Requests |-> calls'[q]] /\ chunks' = [q \in Requests |-> chunks'[q]]
        /\ calls'[r] = c /\ chunks'[r] = shown
        /\ \A q \in Requests \ {r} : calls'[q] = calls[q] /\ chunks'[q] = chunks[q]
    BY DEF Calls
  <1>2. \A q \in Requests : CallIsSound(P, M, calls'[q], chunks'[q])
    BY <1>1 DEF Calls
  <1> QED BY <1>1, <1>2 DEF Calls, CallIsSound, CallState

\* The steps of calls: the chunks of a stream come from the provider of its attempt, and a
\* provider is taken up again only by the retries of a lone one.
LEMMA CallsStep ==
    ASSUME NEW P, NEW M, Router(P, M)!RouterAssumption, Circuits(P, M), Calls(P, M), Router(P, M)!Next
    PROVE  Calls(P, M)'
  <1>0. /\ MaxRetries \in Nat /\ IsFiniteSet(P) /\ NoProvider \notin P
        /\ Router(P, M)!Cardinality(P) = Cardinality(P)
    BY SameFiniteness, SameCardinality DEF Router!RouterAssumption
  <1>1. ASSUME NEW r \in Requests
        PROVE  /\ CallIsSound(P, M, calls[r], chunks[r])
               /\ chunks = [chunks EXCEPT ![r] = chunks[r]]
    BY DEF Calls
  <1>2. CallIsSound(P, M, Router(P, M)!Idle, {})
    BY <1>0 DEF CallIsSound, CallState, Router!Idle
  <1>3. ASSUME NEW shown, NEW x, shown \subseteq {x}
        PROVE  CallIsSound(P, M, Router(P, M)!Idle, shown)
    BY <1>0, <1>3 DEF CallIsSound, CallState, Router!Idle
  <1>4. ASSUME NEW r \in Requests, Router(P, M)!refresh_health(r)
        PROVE  Calls(P, M)'
    <2> DEFINE c == [Router(P, M)!Idle EXCEPT !.pc = "choose"]
    <2>0. /\ c \in CallState(P, M) /\ c.pc = "choose" /\ c.last = "none" /\ c.retries = 0
      <3>1. /\ Router(P, M)!Idle \in CallState(P, M)
            /\ Router(P, M)!Idle.last = "none" /\ Router(P, M)!Idle.retries = 0
        BY <1>0 DEF CallState, Router!Idle
      <3> QED BY <3>1 DEF CallState
    <2>1. CallIsSound(P, M, c, {})
      <3> HIDE DEF c
      <3> QED BY <2>0 DEF CallIsSound
    <2>2. calls' = [calls EXCEPT ![r] = c] /\ chunks' = [chunks EXCEPT ![r] = {}]
      BY <1>4 DEF Router!refresh_health, Router!Become
    <2> HIDE DEF c
    <2> QED BY <2>1, <2>2, OneCallMoves
  <1>5. ASSUME NEW r \in Requests, Router(P, M)!Select(r)
        PROVE  Calls(P, M)'
    <2>1. PICK p \in Router(P, M)!_ranked_candidates(r) : Router(P, M)!Attempt(r, p)
      BY <1>5 DEF Router!Select
    <2>2. p \in P \ calls[r].tried /\ calls[r].pc = "choose"
      BY <1>5 DEF Router!_ranked_candidates, Router!Select
    <2> DEFINE half == Router(P, M)!_breaker_open[p].half_open
               c == [calls[r] EXCEPT !.pc = "attempt", !.provider = p, !.probe = half]
    <2>3. half \in BOOLEAN
      BY <2>2 DEF Router!_breaker_open, Circuits, Coherent, CircuitState
    <2> HIDE DEF half
    <2>4. /\ c \in CallState(P, M) /\ c.pc = "attempt" /\ c.provider = p /\ c.tried = calls[r].tried
          /\ c.last = calls[r].last /\ c.retries = calls[r].retries
      BY <1>1, <2>2, <2>3 DEF CallIsSound, CallState
    <2>5. calls' = [calls EXCEPT ![r] = c] /\ chunks' = chunks
      BY <2>1 DEF Router!Attempt, Router!Become, half
    <2> HIDE DEF c
    <2>6. CallIsSound(P, M, c, chunks[r])
      BY <1>1, <2>2, <2>4 DEF CallIsSound
    <2> QED BY <1>1, <2>5, <2>6, OneCallMoves
  <1>6. ASSUME NEW r \in Requests, Router(P, M)!Backoff(r)
        PROVE  Calls(P, M)'
    <2>1. chunks' = chunks /\ calls[r].pc = "choose"
      BY <1>6 DEF Router!Backoff
    <2>2. CASE Router(P, M)!_should_retry_single_provider(r)
      <3> DEFINE more == calls[r].retries + 1
                 c == [calls[r] EXCEPT !.pc = "backoff", !.retries = more]
      <3>1. /\ Cardinality(P) = 1 /\ calls[r].retries < MaxRetries /\ calls[r].last = "down"
        BY <1>0, <2>2 DEF Router!_should_retry_single_provider
      <3>7. more \in 0..MaxRetries /\ more > 0
        BY <1>0, <1>1, <3>1 DEF CallIsSound, CallState
      <3>5. calls' = [calls EXCEPT ![r] = c]
        BY <1>6, <2>2 DEF Router!Backoff, Router!Become
      <3> HIDE DEF more
      <3>2. /\ c \in CallState(P, M) /\ c.pc = "backoff" /\ c.tried = calls[r].tried
            /\ c.last = calls[r].last /\ c.retries > 0
        BY <1>1, <3>7 DEF CallIsSound, CallState
      <3>3. PICK x : P = {x}
        BY <1>0, <3>1, FS_Singleton
      <3>4. calls[r].tried = P
        BY <1>1, <3>1, <3>3 DEF CallIsSound, CallState
      <3> HIDE DEF c
      <3>6. CallIsSound(P, M, c, chunks[r])
        BY <1>1, <2>1, <3>1, <3>2, <3>4 DEF CallIsSound
      <3> QED BY <1>1, <2>1, <3>5, <3>6, OneCallMoves
    <2>3. CASE ~Router(P, M)!_should_retry_single_provider(r)
      <3>1. calls' = [calls EXCEPT ![r] = Router(P, M)!Idle]
        BY <1>6, <2>3 DEF Router!Backoff, Router!Become
      <3>2. CallIsSound(P, M, Router(P, M)!Idle, chunks[r])
        BY <1>1, <1>3 DEF CallIsSound
      <3> QED BY <1>1, <2>1, <3>1, <3>2, OneCallMoves
    <2> QED BY <2>2, <2>3
  <1>7. ASSUME NEW r \in Requests, Router(P, M)!RetrySingle(r)
        PROVE  Calls(P, M)'
    <2>1. PICK p \in P : Router(P, M)!Become(r, [calls[r] EXCEPT !.pc = "attempt", !.provider = p,
                                                               !.probe = breaker[p].half_open])
      BY <1>7 DEF Router!RetrySingle
    <2> DEFINE half == breaker[p].half_open
               c == [calls[r] EXCEPT !.pc = "attempt", !.provider = p, !.probe = half]
    <2>2. half \in BOOLEAN
      BY DEF Circuits, Coherent, CircuitState
    <2> HIDE DEF half
    <2>3. /\ c \in CallState(P, M) /\ c.pc = "attempt" /\ c.provider = p /\ c.tried = calls[r].tried
          /\ c.last = calls[r].last /\ c.retries = calls[r].retries
      BY <1>1, <2>2 DEF CallIsSound, CallState
    <2>4. calls' = [calls EXCEPT ![r] = c] /\ chunks' = chunks /\ calls[r].pc = "backoff"
      BY <1>7, <2>1 DEF Router!RetrySingle, Router!Become, half
    <2> HIDE DEF c
    <2>5. CallIsSound(P, M, c, chunks[r])
      BY <1>1, <2>3, <2>4 DEF CallIsSound
    <2> QED BY <1>1, <2>4, <2>5, OneCallMoves
  <1>8. ASSUME NEW r \in Requests, Router(P, M)!StreamEvent(r)
        PROVE  Calls(P, M)'
    <2>1. /\ calls[r].pc = "attempt" /\ calls' = [calls EXCEPT ![r] = calls[r]]
          /\ chunks' = [chunks EXCEPT ![r] = chunks[r] \cup {calls[r].provider}]
      BY <1>8 DEF Router!StreamEvent, Calls
    <2>2. CallIsSound(P, M, calls[r], chunks[r] \cup {calls[r].provider})
      BY <1>1, <2>1 DEF CallIsSound
    <2> QED BY <2>1, <2>2, OneCallMoves
  <1>9. ASSUME NEW r \in Requests, Router(P, M)!AttemptSucceeds(r)
        PROVE  Calls(P, M)'
    <2>1. CallIsSound(P, M, Router(P, M)!Idle, chunks[r])
      BY <1>1, <1>3 DEF CallIsSound
    <2> QED BY <1>1, <1>9, <2>1, OneCallMoves DEF Router!AttemptSucceeds, Router!Become
  <1>10. ASSUME NEW r \in Requests, NEW kind \in {"down", "fatal", "other"},
                Router(P, M)!AttemptFails(r, kind)
         PROVE  Calls(P, M)'
    <2>1. CallIsSound(P, M, Router(P, M)!Idle, chunks[r])
      BY <1>1, <1>3 DEF CallIsSound
    <2> DEFINE tried == calls[r].tried \cup {calls[r].provider}
               c == [calls[r] EXCEPT !.pc = "choose", !.provider = NoProvider, !.tried = tried,
                                     !.last = kind, !.probe = FALSE]
    <2>2. calls[r].pc = "attempt" /\ tried \in SUBSET P /\ tried # {}
          /\ (calls[r].tried = P => tried = P)
      BY <1>1, <1>10 DEF Router!AttemptFails, CallIsSound, CallState
    <2>3. /\ chunks' = chunks
          /\ \/ calls' = [calls EXCEPT ![r] = Router(P, M)!Idle]
             \/ calls' = [calls EXCEPT ![r] = c] /\ chunks[r] = {}
      BY <1>10 DEF Router!AttemptFails, Router!Become
    <2> HIDE DEF tried
    <2>4. /\ c \in CallState(P, M) /\ c.pc = "choose" /\ c.tried = tried /\ c.last = kind
          /\ c.retries = calls[r].retries
      BY <1>1, <2>2 DEF CallIsSound, CallState
    <2> HIDE DEF c
    <2>5. chunks[r] = {} => CallIsSound(P, M, c, chunks[r])
      BY <1>1, <2>2, <2>4 DEF CallIsSound
    <2> QED BY <1>1, <2>1, <2>3, <2>5, OneCallMoves
  <1>11. ASSUME Router(P, M)!Tick
         PROVE  Calls(P, M)'
    BY <1>11 DEF Router!Tick, Calls, CallIsSound, CallState
  <1> QED
    BY <1>4, <1>5, <1>6, <1>7, <1>8, <1>9, <1>10, <1>11 DEF Router!Next, Router!Failure

-----------------------------------------------------------------------------
(***************************************************************************)
(* The scheduler.                                                          *)
(***************************************************************************)
\* A row of the store or of a tick's copy, at time t.
RowIsSound(row, t) ==
    /\ row \in Scheduler!ScheduledJob
    /\ row.last_run_at <= t
    /\ row.next_run_at # 0 /\ row.last_run_at # 0 => row.next_run_at > row.last_run_at

\* The failed runs of a job are counted in its row, unless a host has spoken; a job that is
\* switched on or about to run has failed less often than the limit.
FailuresAreCounted ==
    \A j \in Jobs :
        /\ streak[j] <= MaxFailures
        /\ streak[j] <= store[j].consecutive_failures
        /\ store[j].enabled => streak[j] < MaxFailures
        /\ j \in queue => streak[j] <= copy[j].consecutive_failures /\ streak[j] < MaxFailures

SchedulerInv ==
    /\ now \in 1..MaxTime /\ moment \in 1..now /\ queue \subseteq Jobs
    /\ store = [j \in Jobs |-> store[j]] /\ copy = [j \in Jobs |-> copy[j]]
    /\ streak \in [Jobs -> Nat]
    /\ \A j \in Jobs : RowIsSound(store[j], now) /\ RowIsSound(copy[j], now)
    /\ FailuresAreCounted

\* What the scheduler's constants are.
LEMMA SchedulerConstants ==
    /\ Jobs \subseteq Nat /\ Intervals \subseteq Nat /\ Intervals # {}
    /\ MaxFailures \in Nat /\ MaxFailures > 0 /\ MaxTime \in Nat /\ MaxTime > 0
  BY SchedulerAssumption DEF Scheduler!SchedulerAssumption

\* Every set of numbers has a least one.
LEMMA NatMin ==
    ASSUME NEW S, S \subseteq Nat, S # {}
    PROVE  \E m \in S : \A n \in S : m <= n
  <1> DEFINE Less == {ss \in Nat \X Nat : ss[1] < ss[2]}
  <1>1. IsWellFoundedOn(Less, Nat)
    BY NatLessThanWellFounded DEF OpToRel
  <1>2. ASSUME NEW x \in Nat, NEW y \in Nat, y < x
        PROVE  <<y, x>> \in Less
    BY <1>2
  <1> HIDE DEF Less
  <1>3. PICK m \in S : \A y \in S : <<y, m>> \notin Less
    BY <1>1, WFMin
  <1>4. ASSUME NEW n \in S
        PROVE  m <= n
    <2>1. m \in Nat /\ n \in Nat /\ ~(n < m)
      BY <1>2, <1>3
    <2> QED BY <2>1
  <1> QED BY <1>4

\* The job that runs is one of the queue.
LEMMA FirstIsQueued ==
    ASSUME queue \subseteq Jobs, queue # {}
    PROVE  Scheduler!Running \in queue
  <1>1. \E m \in queue : \A n \in queue : m <= n
    BY SchedulerConstants, NatMin
  <1> QED BY <1>1 DEF Scheduler!Running, Scheduler!Min

\* A job that is added, and one that is not there.
LEMMA NewRows ==
    ASSUME NEW t \in 1..MaxTime, NEW s \in Intervals
    PROVE  /\ RowIsSound(Scheduler!NewJob(s), t) /\ RowIsSound(Scheduler!NoJob, t)
           /\ ~Scheduler!NoJob.enabled
           /\ Scheduler!NewJob(s).consecutive_failures = 0
           /\ Scheduler!NoJob.consecutive_failures = 0
  <1>1. ASSUME NEW i \in Intervals
        PROVE  RowIsSound(Scheduler!NewJob(i), t) /\ Scheduler!NewJob(i).consecutive_failures = 0
    BY SchedulerConstants DEF RowIsSound, Scheduler!NewJob, Scheduler!ScheduledJob, Scheduler!None,
                              Scheduler!Never, Scheduler!Status
  <1> DEFINE any == CHOOSE i \in Intervals : TRUE
             row == Scheduler!NewJob(any)
  <1>2. any \in Intervals
    OBVIOUS
  <1>3. row.last_run_at = 0 /\ row.next_run_at = 0
    BY DEF Scheduler!NewJob, Scheduler!None
  <1>4. Scheduler!NoJob = [row EXCEPT !.present = FALSE, !.enabled = FALSE]
    BY DEF Scheduler!NoJob
  <1>5. RowIsSound(row, t) /\ row.consecutive_failures = 0
    BY <1>1, <1>2
  <1> HIDE DEF any, row
  <1> QED BY <1>1, <1>3, <1>4, <1>5 DEF RowIsSound, Scheduler!ScheduledJob

\* The time after a run is later than the run.
LEMMA NextIsLater ==
    ASSUME NEW s \in Intervals, s # 0, NEW t \in 1..MaxTime
    PROVE  Scheduler!next_after(s, t) \in 1..(MaxTime + 1) /\ Scheduler!next_after(s, t) > t
  BY SchedulerConstants DEF Scheduler!next_after, Scheduler!Never

\* ensure_scheduled keeps a row sound and switches nothing on.
LEMMA ScheduledRow ==
    ASSUME NEW row, RowIsSound(row, now), now \in 1..MaxTime
    PROVE  /\ RowIsSound(Scheduler!ensure_scheduled(row), now)
           /\ Scheduler!ensure_scheduled(row).consecutive_failures = row.consecutive_failures
           /\ Scheduler!ensure_scheduled(row).enabled => row.enabled
  <1>1. CASE Scheduler!ensure_scheduled(row) = row
    BY <1>1
  <1>2. CASE Scheduler!ensure_scheduled(row) = [row EXCEPT !.enabled = FALSE, !.last_status = "disabled"]
    BY <1>2 DEF RowIsSound, Scheduler!ScheduledJob, Scheduler!Status
  <1>3. CASE /\ Scheduler!ensure_scheduled(row) =
                    [row EXCEPT !.next_run_at = Scheduler!next_after(row.schedule, now)]
             /\ row.schedule # 0
    <2> DEFINE next == Scheduler!next_after(row.schedule, now)
               new == [row EXCEPT !.next_run_at = next]
    <2>1. next \in 0..(MaxTime + 1) /\ next > now
      BY <1>3, NextIsLater, SchedulerConstants DEF RowIsSound, Scheduler!ScheduledJob
    <2> HIDE DEF next
    <2>2. /\ new \in Scheduler!ScheduledJob /\ new.next_run_at = next
          /\ new.last_run_at = row.last_run_at /\ new.enabled = row.enabled
          /\ new.consecutive_failures = row.consecutive_failures
          /\ row.last_run_at \in Int
      BY <2>1, SchedulerConstants DEF RowIsSound, Scheduler!ScheduledJob, Scheduler!None, Scheduler!Never
    <2>3. Scheduler!ensure_scheduled(row) = new
      BY <1>3 DEF next
    <2> HIDE DEF new
    <2>4. RowIsSound(new, now)
      BY <2>1, <2>2, SchedulerConstants DEF RowIsSound
    <2> QED BY <2>2, <2>3, <2>4
  <1> QED BY <1>1, <1>2, <1>3 DEF Scheduler!ensure_scheduled

\* _advance counts the failure and switches the job off at the limit.
LEMMA AdvancedRow ==
    ASSUME NEW row, RowIsSound(row, now), NEW status \in {"ok", "error", "timeout"},
           now \in 1..MaxTime, moment \in 1..now
    PROVE  LET new == Scheduler!_advance(row, status)
               failures == IF status = "ok" THEN 0 ELSE row.consecutive_failures + 1
           IN /\ RowIsSound(new, now)
              /\ new.consecutive_failures = failures
              /\ new.enabled => row.enabled /\ (status = "ok" \/ failures < MaxFailures)
  <1> DEFINE failures == IF status = "ok" THEN 0 ELSE row.consecutive_failures + 1
             ran == [row EXCEPT !.last_run_at = moment, !.last_status = status,
                                !.consecutive_failures = failures]
             new == Scheduler!_advance(row, status)
             next == Scheduler!next_after(row.schedule, moment)
  <1>1. failures \in Nat /\ moment \in 1..MaxTime /\ moment \in 0..MaxTime /\ row.schedule \in Intervals
    BY SchedulerConstants DEF RowIsSound, Scheduler!ScheduledJob
  <1>2. failures = Scheduler!Failures(row, status)
    BY DEF Scheduler!Failures
  <1>3. \/ /\ status # "ok" /\ failures >= MaxFailures
           /\ new = [ran EXCEPT !.enabled = FALSE, !.next_run_at = 0]
        \/ new = [ran EXCEPT !.enabled = FALSE, !.next_run_at = 0, !.last_status = "disabled"]
        \/ /\ ~(status # "ok" /\ failures >= MaxFailures) /\ row.schedule # 0
           /\ new = [ran EXCEPT !.next_run_at = next]
    BY <1>2 DEF Scheduler!_advance, Scheduler!Advanced, Scheduler!None
  <1> HIDE DEF failures, new
  <1>9. row \in Scheduler!ScheduledJob
    BY DEF RowIsSound
  <1>4. /\ ran \in Scheduler!ScheduledJob /\ ran.last_run_at = moment
        /\ ran.consecutive_failures = failures /\ ran.enabled = row.enabled
    BY <1>1, <1>9 DEF Scheduler!ScheduledJob, Scheduler!None, Scheduler!Status
  <1> HIDE DEF ran
  <1>5. row.schedule # 0 => next \in 0..(MaxTime + 1) /\ next > moment
    <2>1. row.schedule # 0 => next \in 1..(MaxTime + 1) /\ next > moment
      BY <1>1, NextIsLater
    <2> QED BY <2>1, SchedulerConstants
  <1> HIDE DEF next
  <1>6. /\ new \in Scheduler!ScheduledJob /\ new.last_run_at = moment
        /\ new.consecutive_failures = failures
        /\ new.enabled => ran.enabled /\ ~(status # "ok" /\ failures >= MaxFailures)
        /\ new.next_run_at = 0 \/ (new.next_run_at = next /\ row.schedule # 0)
    <2>1. 0 \in 0..(MaxTime + 1)
      BY SchedulerConstants
    <2>2. CASE status # "ok" /\ failures >= MaxFailures /\ new = [ran EXCEPT !.enabled = FALSE, !.next_run_at = 0]
      BY <1>4, <2>1, <2>2 DEF Scheduler!ScheduledJob, Scheduler!None, Scheduler!Never
    <2>3. CASE new = [ran EXCEPT !.enabled = FALSE, !.next_run_at = 0, !.last_status = "disabled"]
      BY <1>4, <2>1, <2>3 DEF Scheduler!ScheduledJob, Scheduler!None, Scheduler!Never, Scheduler!Status
    <2>4. CASE /\ ~(status # "ok" /\ failures >= MaxFailures) /\ row.schedule # 0
               /\ new = [ran EXCEPT !.next_run_at = next]
      BY <1>4, <1>5, <2>4 DEF Scheduler!ScheduledJob, Scheduler!None, Scheduler!Never
    <2> QED BY <1>3, <2>2, <2>3, <2>4
  <1>7. RowIsSound(new, now)
    BY <1>1, <1>5, <1>6, SchedulerConstants DEF RowIsSound
  <1>8. new.enabled => row.enabled /\ (status = "ok" \/ failures < MaxFailures)
    BY <1>1, <1>4, <1>6, SchedulerConstants
  <1> QED BY <1>6, <1>7, <1>8 DEF new, failures

\* A host's word on a job: its row is a sound one and its failures are forgotten.
LEMMA EditStep ==
    ASSUME SchedulerInv, NEW j \in Jobs, NEW row, RowIsSound(row, now), Scheduler!Edit(j, row)
    PROVE  SchedulerInv'
  <1>1. /\ store' = [store EXCEPT ![j] = row] /\ streak' = [streak EXCEPT ![j] = 0]
        /\ now' = now /\ moment' = moment /\ queue' = queue /\ copy' = copy
    BY DEF Scheduler!Edit
  <1>2. /\ store' = [i \in Jobs |-> store'[i]] /\ store'[j] = row
        /\ \A i \in Jobs \ {j} : store'[i] = store[i] /\ streak'[i] = streak[i]
        /\ streak'[j] = 0 /\ streak' \in [Jobs -> Nat]
    BY <1>1 DEF SchedulerInv
  <1>3. \A i \in Jobs : RowIsSound(store'[i], now') /\ RowIsSound(copy'[i], now')
    BY <1>1, <1>2 DEF SchedulerInv
  <1>4. /\ row.consecutive_failures \in Nat
        /\ \A i \in Jobs : copy[i].consecutive_failures \in Nat
    BY DEF SchedulerInv, RowIsSound, Scheduler!ScheduledJob
  <1>5. FailuresAreCounted'
    <2>1. ASSUME NEW i \in Jobs
          PROVE  /\ streak'[i] <= MaxFailures
                 /\ streak'[i] <= store'[i].consecutive_failures
                 /\ store'[i].enabled => streak'[i] < MaxFailures
                 /\ i \in queue' => streak'[i] <= copy'[i].consecutive_failures /\ streak'[i] < MaxFailures
      <3>1. CASE i = j
        BY <1>1, <1>2, <1>4, <3>1, SchedulerConstants
      <3>2. CASE i # j
        BY <1>1, <1>2, <3>2 DEF SchedulerInv, FailuresAreCounted
      <3> QED BY <3>1, <3>2
    <2> QED BY <2>1 DEF FailuresAreCounted
  <1> QED BY <1>1, <1>2, <1>3, <1>5 DEF SchedulerInv, RowIsSound

\* Every step of hosts, ticks, runs and crashes keeps the rows sound.
LEMMA SchedulerStep ==
    ASSUME SchedulerInv, Scheduler!Next
    PROVE  SchedulerInv'
  <1>0. /\ now \in 1..MaxTime /\ moment \in 1..now
        /\ \A j \in Jobs : RowIsSound(store[j], now) /\ RowIsSound(copy[j], now)
    BY DEF SchedulerInv
  <1>1. ASSUME NEW j \in Jobs, NEW s \in Intervals, Scheduler!add(j, s)
        PROVE  SchedulerInv'
    BY <1>0, <1>1, NewRows, EditStep DEF Scheduler!add
  <1>2. ASSUME NEW j \in Jobs, Scheduler!delete(j)
        PROVE  SchedulerInv'
    <2>1. RowIsSound(Scheduler!NoJob, now)
      BY <1>0, NewRows, SchedulerConstants
    <2> QED BY <1>2, <2>1, EditStep DEF Scheduler!delete
  <1>3. ASSUME NEW j \in Jobs, NEW on \in BOOLEAN, Scheduler!SetEnabled(j, on)
        PROVE  SchedulerInv'
    <2> DEFINE row == [store[j] EXCEPT !.enabled = on]
    <2>1. RowIsSound(row, now)
      BY <1>0 DEF RowIsSound, Scheduler!ScheduledJob
    <2>2. Scheduler!Edit(j, row)
      BY <1>3 DEF Scheduler!SetEnabled
    <2> HIDE DEF row
    <2> QED BY <2>1, <2>2, EditStep
  <1>4. ASSUME NEW j \in Jobs, NEW s \in Intervals, Scheduler!Reschedule(j, s)
        PROVE  SchedulerInv'
    <2>1. PICK next \in {0, store[j].next_run_at} :
              Scheduler!Edit(j, [store[j] EXCEPT !.schedule = s, !.next_run_at = next])
      BY <1>4 DEF Scheduler!Reschedule, Scheduler!None
    <2> DEFINE row == [store[j] EXCEPT !.schedule = s, !.next_run_at = next]
    <2>4. store[j] \in Scheduler!ScheduledJob /\ next \in 0..(MaxTime + 1)
      BY <1>0, SchedulerConstants DEF RowIsSound, Scheduler!ScheduledJob, Scheduler!None, Scheduler!Never
    <2>2. /\ row.next_run_at = next /\ row.last_run_at = store[j].last_run_at
          /\ row \in Scheduler!ScheduledJob
      BY <2>4 DEF Scheduler!ScheduledJob, Scheduler!None, Scheduler!Never
    <2> HIDE DEF row
    <2>3. RowIsSound(row, now)
      BY <1>0, <2>2 DEF RowIsSound
    <2> QED BY <2>1, <2>3, EditStep DEF row
  <1>5. ASSUME Scheduler!tick
        PROVE  SchedulerInv'
    <2>1. /\ moment' = now /\ now' = now /\ streak' = streak /\ queue' \subseteq Jobs
          /\ store' = [j \in Jobs |-> store'[j]] /\ copy' = [j \in Jobs |-> copy'[j]]
          /\ \A j \in Jobs : store'[j] = Scheduler!ensure_scheduled(store[j])
          /\ \A j \in queue' : copy'[j] = store'[j] /\ store'[j].enabled
          /\ \A j \in Jobs \ queue' : copy'[j] = Scheduler!NoJob
      BY <1>5 DEF Scheduler!tick, Scheduler!_is_due
    <2>2. \A j \in Jobs : /\ RowIsSound(store'[j], now)
                          /\ store'[j].consecutive_failures = store[j].consecutive_failures
                          /\ store'[j].enabled => store[j].enabled
      BY <1>0, <2>1, ScheduledRow
    <2>3. RowIsSound(Scheduler!NoJob, now)
      BY <1>0, NewRows, SchedulerConstants
    <2>4. \A j \in Jobs : RowIsSound(store'[j], now') /\ RowIsSound(copy'[j], now')
      BY <2>1, <2>2, <2>3
    <2>5. FailuresAreCounted'
      BY <2>1, <2>2 DEF SchedulerInv, FailuresAreCounted
    <2> QED BY <1>0, <2>1, <2>4, <2>5 DEF SchedulerInv, RowIsSound
  <1>6. ASSUME NEW status \in {"ok", "error", "timeout"}, Scheduler!_run_one(status)
        PROVE  SchedulerInv'
    <2> DEFINE j == Scheduler!Running
               new == Scheduler!_advance(copy[j], status)
               failures == IF status = "ok" THEN 0 ELSE copy[j].consecutive_failures + 1
               more == IF status = "ok" THEN 0 ELSE streak[j] + 1
    <2>1. /\ queue # {} /\ store' = [store EXCEPT ![j] = new] /\ queue' = queue \ {j}
          /\ streak' = [streak EXCEPT ![j] = more]
          /\ now' = now /\ moment' = moment /\ copy' = copy
      BY <1>6 DEF Scheduler!_run_one
    <2>2. j \in queue /\ j \in Jobs
      BY <2>1, FirstIsQueued DEF SchedulerInv
    <2>3. /\ RowIsSound(new, now) /\ new.consecutive_failures = failures
          /\ new.enabled => status = "ok" \/ failures < MaxFailures
      BY <1>0, <2>2, AdvancedRow
    <2>4. /\ streak[j] <= copy[j].consecutive_failures /\ streak[j] < MaxFailures
          /\ streak[j] \in Nat /\ copy[j].consecutive_failures \in Nat
      BY <1>0, <2>2 DEF SchedulerInv, FailuresAreCounted, RowIsSound, Scheduler!ScheduledJob
    <2>5. more \in Nat /\ more <= failures /\ more <= MaxFailures /\ failures \in Nat
          /\ (status = "ok" => more = 0)
      BY <2>4, SchedulerConstants
    <2> HIDE DEF j, new, failures, more
    <2>6. /\ store' = [i \in Jobs |-> store'[i]] /\ store'[j] = new
          /\ \A i \in Jobs \ {j} : store'[i] = store[i] /\ streak'[i] = streak[i]
          /\ streak'[j] = more /\ streak' \in [Jobs -> Nat]
      BY <2>1, <2>2, <2>5 DEF SchedulerInv
    <2>7. \A i \in Jobs : RowIsSound(store'[i], now') /\ RowIsSound(copy'[i], now')
      BY <1>0, <2>1, <2>3, <2>6
    <2>8. FailuresAreCounted'
      <3>1. ASSUME NEW i \in Jobs
            PROVE  /\ streak'[i] <= MaxFailures
                   /\ streak'[i] <= store'[i].consecutive_failures
                   /\ store'[i].enabled => streak'[i] < MaxFailures
                   /\ i \in queue' => streak'[i] <= copy'[i].consecutive_failures /\ streak'[i] < MaxFailures
        <4>1. CASE i = j
          BY <2>1, <2>3, <2>5, <2>6, <4>1, SchedulerConstants
        <4>2. CASE i # j
          BY <2>1, <2>6, <4>2 DEF SchedulerInv, FailuresAreCounted
        <4> QED BY <4>1, <4>2
      <3> QED BY <3>1 DEF FailuresAreCounted
    <2> QED BY <2>1, <2>6, <2>7, <2>8 DEF SchedulerInv, RowIsSound
  <1>7. ASSUME Scheduler!Crash
        PROVE  SchedulerInv'
    BY <1>7 DEF Scheduler!Crash, SchedulerInv, FailuresAreCounted, RowIsSound
  <1>8. ASSUME Scheduler!TimePasses
        PROVE  SchedulerInv'
    <2>1. now' = now + 1 /\ now < MaxTime
          /\ UNCHANGED <<store, moment, queue, copy, streak>>
      BY <1>8 DEF Scheduler!TimePasses
    <2>2. \A j \in Jobs : RowIsSound(store'[j], now') /\ RowIsSound(copy'[j], now')
      BY <1>0, <2>1, SchedulerConstants DEF RowIsSound, Scheduler!ScheduledJob, Scheduler!None
    <2> QED BY <1>0, <2>1, <2>2, SchedulerConstants DEF SchedulerInv, FailuresAreCounted, RowIsSound
  <1> QED
    BY <1>1, <1>2, <1>3, <1>4, <1>5, <1>6, <1>7, <1>8
    DEF Scheduler!Next, Scheduler!JobReturns, Scheduler!HardInterrupt

-----------------------------------------------------------------------------
(***************************************************************************)
(* The search of a cron schedule.                                          *)
(***************************************************************************)
\* A moment's place in time.
Rank(t) == Cron!Ordinal(t) * Slots + t.slot

CronInv ==
    /\ start \in Starts
    /\ Cron!IsMoment(candidate)
    /\ Rank(candidate) > Rank(start)
    /\ found = "match" => Cron!_matches(schedule, candidate)

\* The days before a month, in a year that is not a leap year.
Before == <<0, 31, 59, 90, 120, 151, 181, 212, 243, 273, 304, 334>>

\* The days up to the end of a year.
Years(y) == 365 * y + (y \div 4) - (y \div 100) + (y \div 400)

LeapDay(y, m) == IF m > 2 /\ Cron!Leap(y) THEN 1 ELSE 0

\* The reference calendar, in terms of whole years and months.
LEMMA OrdinalIs ==
    ASSUME NEW t
    PROVE  Cron!Ordinal(t) = Years(t.year - 1) + Before[t.month] + t.day
                             + LeapDay(t.year, t.month)
  BY DEF Cron!Ordinal, Years, Before, LeapDay

\* A year has 365 days, a leap year one more.
LEMMA YearsGrow ==
    ASSUME NEW y \in Nat
    PROVE  /\ Years(y) \in Int
           /\ Years(y + 1) = Years(y) + 365 + (IF Cron!Leap(y + 1) THEN 1 ELSE 0)
  BY DEF Years, Cron!Leap

\* A month is followed by the next after its last day.
LEMMA MonthsGrow ==
    ASSUME NEW y \in Nat, NEW m \in 1..11
    PROVE  /\ Before[m] \in Int /\ Before[m + 1] \in Int
           /\ Before[m + 1] + LeapDay(y, m + 1) = Before[m] + Cron!DaysIn(y, m) + LeapDay(y, m)
  <1>1. m \in {1, 2, 3, 4, 5, 6, 7, 8, 9, 10, 11}
    OBVIOUS
  <1> QED BY <1>1 DEF Before, Cron!DaysIn, LeapDay

\* The calendar: the slot after a moment is a moment, and is the next in time.
LEMMA NextMoment ==
    ASSUME NEW t, Cron!IsMoment(t)
    PROVE  Cron!IsMoment(Cron!NextSlot(t)) /\ Rank(Cron!NextSlot(t)) = Rank(t) + 1
  <1> DEFINE Moment == [year : Nat \ {0}, month : 1..12, day : 1..31, dow : 0..6, slot : 0..(Slots - 1)]
             u == Cron!NextSlot(t)
             w == (t.dow + 1) % 7
  <1>0. /\ Slots \in Nat /\ Slots > 0
        /\ t \in Moment /\ t.day <= Cron!DaysIn(t.year, t.month) /\ t.dow = Cron!Ordinal(t) % 7
    BY CronAssumption DEF Cron!CronAssumption, Cron!IsMoment
  <1>1. /\ t.year \in Nat /\ t.year - 1 \in Nat /\ t.month \in 1..12 /\ t.day \in 1..31
        /\ t.dow \in 0..6 /\ t.slot \in 0..(Slots - 1) /\ Before[t.month] \in Int
        /\ LeapDay(t.year, t.month) \in Int /\ LeapDay(t.year, t.month + 1) \in Int
        /\ Years(t.year - 1) \in Int
    <2>1. Before[t.month] \in Int
      BY <1>0 DEF Before
    <2>2. t.year \in Nat /\ t.year - 1 \in Nat
      BY <1>0
    <2>3. Years(t.year - 1) \in Int
      BY <2>2, YearsGrow
    <2> QED BY <1>0, <2>1, <2>2, <2>3 DEF LeapDay
  <1>2. Cron!Ordinal(t) \in Int
    BY <1>1, OrdinalIs
  <1>3. ASSUME u \in Moment, u.day <= Cron!DaysIn(u.year, u.month), u.dow = w, u.slot = 0,
               t.slot = Slots - 1, Cron!Ordinal(u) = Cron!Ordinal(t) + 1
        PROVE  Cron!IsMoment(u) /\ Rank(u) = Rank(t) + 1
    <2>1. w = (Cron!Ordinal(t) + 1) % 7
      BY <1>0, <1>2
    <2>2. (Cron!Ordinal(t) + 1) * Slots = Cron!Ordinal(t) * Slots + Slots
          /\ Cron!Ordinal(t) * Slots \in Int
      BY <1>0, <1>2
    <2> HIDE DEF w, u
    <2> QED BY <1>0, <1>2, <1>3, <2>1, <2>2 DEF Cron!IsMoment, Rank
  <1>4. CASE t.slot + 1 < Slots
    <2> DEFINE v == [t EXCEPT !.slot = t.slot + 1]
    <2>1. u = v
      BY <1>4 DEF Cron!NextSlot
    <2>2. /\ v.year = t.year /\ v.month = t.month /\ v.day = t.day /\ v.dow = t.dow
          /\ v.slot = t.slot + 1 /\ v \in Moment
      BY <1>0, <1>1, <1>4
    <2> HIDE DEF v
    <2>3. Cron!Ordinal(v) = Cron!Ordinal(t)
      BY <2>2, OrdinalIs
    <2>4. Cron!Ordinal(t) * Slots \in Int
      BY <1>0, <1>2
    <2>5. Cron!IsMoment(v) /\ Rank(v) = Rank(t) + 1
      BY <1>0, <1>1, <2>2, <2>3, <2>4 DEF Cron!IsMoment, Rank
    <2> QED BY <2>1, <2>5
  <1>5. CASE ~(t.slot + 1 < Slots)
    <2>1. t.slot = Slots - 1 /\ w \in 0..6 /\ 0 \in 0..(Slots - 1)
      BY <1>0, <1>1, <1>5
    <2>2. CASE t.day < Cron!DaysIn(t.year, t.month)
      <3> DEFINE v == Cron!Date(t.year, t.month, t.day + 1, w, 0)
      <3>1. u = v
        BY <1>5, <2>2 DEF Cron!NextSlot
      <3>2. Cron!DaysIn(t.year, t.month) \in 28..31
        BY DEF Cron!DaysIn
      <3> HIDE DEF w
      <3>3. /\ v.year = t.year /\ v.month = t.month /\ v.day = t.day + 1 /\ v.dow = w
            /\ v.slot = 0 /\ v \in Moment
        BY <1>0, <1>1, <2>1, <2>2, <3>2 DEF Cron!Date
      <3> HIDE DEF v
      <3>4. Cron!Ordinal(v) = Cron!Ordinal(t) + 1
        <4>1. Cron!Ordinal(v) = Years(t.year - 1) + Before[t.month] + (t.day + 1) + LeapDay(t.year, t.month)
          BY <3>3, OrdinalIs
        <4>2. Cron!Ordinal(t) = Years(t.year - 1) + Before[t.month] + t.day + LeapDay(t.year, t.month)
          BY OrdinalIs
        <4> QED BY <1>1, <4>1, <4>2
      <3> QED BY <1>1, <1>3, <2>1, <2>2, <3>1, <3>2, <3>3, <3>4
    <2>3. CASE t.day >= Cron!DaysIn(t.year, t.month) /\ t.month < 12
      <3> DEFINE v == Cron!Date(t.year, t.month + 1, 1, w, 0)
      <3>0. Cron!DaysIn(t.year, t.month) \in 28..31 /\ Cron!DaysIn(t.year, t.month + 1) \in 28..31
        BY DEF Cron!DaysIn
      <3>1. u = v /\ t.day = Cron!DaysIn(t.year, t.month)
        BY <1>0, <1>1, <1>5, <2>3, <3>0 DEF Cron!NextSlot
      <3> HIDE DEF w
      <3>2. /\ v.year = t.year /\ v.month = t.month + 1 /\ v.day = 1 /\ v.dow = w
            /\ v.slot = 0 /\ v \in Moment
        BY <1>0, <1>1, <2>1, <2>3 DEF Cron!Date
      <3> HIDE DEF v
      <3>3. t.month \in 1..11
        BY <1>1, <2>3
      <3>4. Cron!Ordinal(v) = Cron!Ordinal(t) + 1
        <4>1. Cron!Ordinal(v) = Years(t.year - 1) + Before[t.month + 1] + 1 + LeapDay(t.year, t.month + 1)
          BY <3>2, OrdinalIs
        <4>2. Cron!Ordinal(t) = Years(t.year - 1) + Before[t.month] + t.day + LeapDay(t.year, t.month)
          BY OrdinalIs
        <4>3. /\ Before[t.month + 1] \in Int
              /\ Before[t.month + 1] + LeapDay(t.year, t.month + 1) =
                     Before[t.month] + t.day + LeapDay(t.year, t.month)
          BY <1>1, <3>1, <3>3, MonthsGrow
        <4> DEFINE a == Years(t.year - 1)
                   b == Before[t.month + 1]
                   c == Before[t.month]
                   d == LeapDay(t.year, t.month + 1)
                   e == t.day
                   f == LeapDay(t.year, t.month)
        <4>4. a \in Int /\ b \in Int /\ c \in Int /\ d \in Int /\ e \in Int /\ f \in Int
          BY <1>1, <4>3
        <4>5. b + d = c + e + f
          BY <4>3
        <4>6. Cron!Ordinal(v) = a + b + 1 + d /\ Cron!Ordinal(t) = a + c + e + f
          BY <4>1, <4>2
        <4> HIDE DEF a, b, c, d, e, f
        <4> QED BY <4>4, <4>5, <4>6
      <3> QED BY <1>1, <1>3, <2>1, <3>0, <3>1, <3>2, <3>4
    <2>4. CASE t.day >= Cron!DaysIn(t.year, t.month) /\ t.month = 12
      <3> DEFINE v == Cron!Date(t.year + 1, 1, 1, w, 0)
      <3>0. Cron!DaysIn(t.year, 12) = 31 /\ Cron!DaysIn(t.year + 1, 1) = 31
        BY DEF Cron!DaysIn
      <3>1. u = v /\ t.day = 31
        BY <1>0, <1>1, <1>5, <2>4, <3>0 DEF Cron!NextSlot
      <3> HIDE DEF w
      <3>2. /\ v.year = t.year + 1 /\ v.month = 1 /\ v.day = 1 /\ v.dow = w
            /\ v.slot = 0 /\ v \in Moment
        BY <1>0, <1>1, <2>1 DEF Cron!Date
      <3> HIDE DEF v
      <3>3. Before[1] = 0 /\ Before[12] = 334
        BY DEF Before
      <3>4. Cron!Ordinal(v) = Cron!Ordinal(t) + 1
        <4>1. /\ Years(t.year - 1) \in Int
              /\ Years(t.year) = Years(t.year - 1) + 365 + (IF Cron!Leap(t.year) THEN 1 ELSE 0)
          BY <1>1, YearsGrow
        <4>2. Cron!Ordinal(v) = Years(t.year) + 1
          BY <1>1, <3>2, <3>3, <4>1, OrdinalIs DEF LeapDay
        <4>3. Cron!Ordinal(t) = Years(t.year - 1) + 334 + 31 + (IF Cron!Leap(t.year) THEN 1 ELSE 0)
          BY <1>1, <2>4, <3>1, <3>3, <4>1, OrdinalIs DEF LeapDay
        <4> QED BY <4>1, <4>2, <4>3
      <3> QED BY <1>1, <1>3, <2>1, <3>0, <3>1, <3>2, <3>4
    <2>5. Cron!DaysIn(t.year, t.month) \in Int
      BY DEF Cron!DaysIn
    <2> QED BY <1>1, <2>2, <2>3, <2>4, <2>5
  <1> QED BY <1>4, <1>5

\* The code's rule for the two day fields is the one crontab(5) gives.
LEMMA MatchesIsNamed ==
    ASSUME NEW sch, NEW t, Cron!IsMoment(t)
    PROVE  Cron!_matches(sch, t) <=> Cron!Named(sch, t)
  BY DEF Cron!_matches, Cron!_day_matches, Cron!Named, Cron!In, Cron!IsMoment

\* A moment has a place in time.
LEMMA MomentRank ==
    ASSUME NEW t, Cron!IsMoment(t)
    PROVE  Rank(t) \in Int
  <1>1. /\ t.year - 1 \in Nat /\ Before[t.month] \in Int /\ t.day \in Int /\ t.slot \in Int
        /\ LeapDay(t.year, t.month) \in Int
    BY DEF Cron!IsMoment, Before, LeapDay
  <1>2. Cron!Ordinal(t) \in Int
    BY <1>1, OrdinalIs, YearsGrow
  <1> QED BY <1>1, <1>2, CronAssumption DEF Rank, Cron!CronAssumption

\* The search moves from moment to moment and stops at a match.
LEMMA CronStep ==
    ASSUME CronInv, Cron!Next
    PROVE  CronInv'
  <1>1. Rank(start) \in Int /\ Rank(candidate) \in Int
    BY MomentRank, CronAssumption DEF CronInv, Cron!CronAssumption
  <1>2. ASSUME Cron!next_after
        PROVE  CronInv'
    <2>1. CASE Cron!_matches(schedule, candidate)
      BY <1>2, <2>1 DEF CronInv, Cron!next_after, Cron!IsMoment, Rank, Cron!Ordinal
    <2>2. CASE ~Cron!_matches(schedule, candidate)
      <3>1. /\ candidate' = Cron!NextSlot(candidate) /\ found' = found /\ found = "searching"
            /\ start' = start
        BY <1>2, <2>2 DEF Cron!next_after
      <3>2. Cron!IsMoment(Cron!NextSlot(candidate)) /\ Rank(Cron!NextSlot(candidate)) = Rank(candidate) + 1
        BY NextMoment DEF CronInv
      <3> QED BY <1>1, <3>1, <3>2 DEF CronInv
    <2> QED BY <2>1, <2>2
  <1>3. ASSUME Cron!NoMatch
        PROVE  CronInv'
    BY <1>3 DEF CronInv, Cron!NoMatch
  <1> QED BY <1>2, <1>3 DEF Cron!Next

-----------------------------------------------------------------------------
(***************************************************************************)
(* The batch runner.                                                       *)
(***************************************************************************)
Status == {"absent", "waiting", "query", "backoff", "done"}

Line == [item_id : Items, run_index : 0..(repeats - 1),
         status : {"skipped_budget", "completed", "failed"}] \cup {Torn, Spoiled}

\* A line that can be read, and the run it records.
Reads(line) == line \notin {Torn, Spoiled}
RunOf(line) == <<line.item_id, line.run_index>>

\* A run with a line is not under way, and no other line is of that run.
LinesAreRuns ==
    /\ \A n \in 1..Len(lines) : Reads(lines[n]) => task[RunOf(lines[n])] \in {"absent", "done"}
    /\ \A n, m \in 1..Len(lines) :
          n # m /\ Reads(lines[n]) /\ Reads(lines[m]) => RunOf(lines[n]) # RunOf(lines[m])

\* Every run in flight may still cost as much as a query can.
SpendIsCovered ==
    \A most \in Costs :
        max_total_cost > 0 /\ (\A c \in Costs : c <= most) =>
            spent + Cardinality(Batch!InFlight) * most < max_total_cost + concurrency * most

BatchInv ==
    /\ task \in [Batch!Tasks -> Status]
    /\ spent \in Nat
    /\ lines \in Seq(Line)
    /\ LinesAreRuns
    /\ SpendIsCovered

\* What the batch's constants are.
LEMMA BatchConstants ==
    /\ IsFiniteSet(Items) /\ repeats \in Nat /\ repeats > 0 /\ concurrency \in Nat /\ concurrency > 0
    /\ retries \in Nat /\ max_total_cost \in Nat /\ Costs \subseteq Nat
  BY BatchAssumption DEF Batch!BatchAssumption, Batch!IsFiniteSet, IsFiniteSet

\* The batch counts as the library does.
LEMMA BatchCardinality ==
    ASSUME NEW S
    PROVE  Batch!Cardinality(S) = Cardinality(S)
  BY DEF Batch!Cardinality, Cardinality, Batch!IsFiniteSet, IsFiniteSet

\* There are finitely many runs.
LEMMA TasksAreFinite == IsFiniteSet(Batch!Tasks)
  <1>1. IsFiniteSet(0..(repeats - 1))
    BY BatchConstants, FS_Interval
  <1> QED BY <1>1, BatchConstants, FS_Product DEF Batch!Tasks

\* One line more, or the last one spoiled.
LEMMA AppendedLine ==
    ASSUME NEW line \in Line, lines \in Seq(Line)
    PROVE  LET new == Batch!Appended(line)
           IN /\ new \in Seq(Line)
              /\ \/ /\ Len(new) = Len(lines) + 1 /\ new[Len(new)] = line
                    /\ \A n \in 1..Len(lines) : new[n] = lines[n]
                 \/ /\ Len(new) = Len(lines) /\ Len(lines) > 0 /\ new[Len(new)] \in {Torn, Spoiled}
                    /\ \A n \in 1..(Len(lines) - 1) : new[n] = lines[n]
  <1> DEFINE new == Batch!Appended(line)
  <1>1. CASE lines # <<>> /\ Batch!Last(lines) = Torn
    <2> DEFINE front == SubSeq(lines, 1, Len(lines) - 1)
               last == IF line = Torn THEN Torn ELSE Spoiled
    <2>1. new = Append(front, last)
      BY <1>1 DEF Batch!Appended, Batch!Front
    <2>2. /\ Len(lines) \in Nat /\ Len(lines) > 0
          /\ front \in Seq(Line) /\ Len(front) = Len(lines) - 1
          /\ \A n \in 1..(Len(lines) - 1) : front[n] = lines[n]
      <3>1. Len(lines) \in Nat /\ Len(lines) > 0 /\ \A n \in 1..Len(lines) : lines[n] \in Line
        BY <1>1
      <3>2. Len(front) = Len(lines) - 1 /\ \A n \in 1..(Len(lines) - 1) : front[n] = lines[n]
        <4>1. Len(lines) - 1 \in Int /\ \A n \in 1..(Len(lines) - 1) : lines[n] \in Line
          BY <3>1
        <4>2. /\ Len(front) = IF 1 <= Len(lines) - 1 THEN (Len(lines) - 1) - 1 + 1 ELSE 0
              /\ \A n \in 1..((Len(lines) - 1) - 1 + 1) : front[n] = lines[1 + n - 1]
          BY <4>1, SubSeqProperties
        <4> HIDE DEF front
        <4>3. Len(front) = Len(lines) - 1
          <5>1. \A k \in Nat : k > 0 => (IF 1 <= k - 1 THEN (k - 1) - 1 + 1 ELSE 0) = k - 1
            OBVIOUS
          <5> QED BY <3>1, <4>2, <5>1
        <4>4. ASSUME NEW n \in 1..(Len(lines) - 1) PROVE front[n] = lines[n]
          <5>1. n \in 1..((Len(lines) - 1) - 1 + 1) /\ 1 + n - 1 = n
            BY <3>1
          <5> QED BY <4>2, <5>1
        <4> QED BY <4>3, <4>4
      <3>3. front \in Seq(Line)
        BY <3>1
      <3> QED BY <3>1, <3>2, <3>3
    <2>3. last \in Line /\ last \in {Torn, Spoiled}
      BY DEF Line
    <2> HIDE DEF front, last, new
    <2>4. /\ new \in Seq(Line) /\ Len(new) = Len(lines) /\ new[Len(new)] = last
          /\ \A n \in 1..(Len(lines) - 1) : new[n] = lines[n]
      BY <2>1, <2>2, <2>3
    <2> QED BY <2>2, <2>3, <2>4 DEF new
  <1>2. CASE ~(lines # <<>> /\ Batch!Last(lines) = Torn)
    <2>1. new = Append(lines, line)
      BY <1>2 DEF Batch!Appended
    <2> HIDE DEF new
    <2>2. /\ new \in Seq(Line) /\ Len(new) = Len(lines) + 1 /\ new[Len(new)] = line
          /\ \A n \in 1..Len(lines) : new[n] = lines[n]
      BY <2>1
    <2> QED BY <2>2 DEF new
  <1> QED BY <1>1, <1>2

\* A run under way is recorded and is then done: it had no line.
LEMMA RecordedLines ==
    ASSUME BatchInv, NEW t \in Batch!Tasks, task[t] \notin {"absent", "done"},
           NEW status \in {"skipped_budget", "completed", "failed"}, Batch!Recorded(t, status)
    PROVE  /\ lines' \in Seq(Line) /\ LinesAreRuns'
           /\ task' = [task EXCEPT ![t] = "done"]
  <1> DEFINE line == Batch!Trajectory(t, status)
  <1>1. lines' = Batch!Appended(line) /\ task' = [task EXCEPT ![t] = "done"]
    BY DEF Batch!Recorded
  <1>2. line \in Line /\ RunOf(line) = t
    BY DEF Batch!Trajectory, Batch!Tasks, Line, RunOf
  <1> HIDE DEF line
  <1>3. /\ lines \in Seq(Line) /\ lines' \in Seq(Line) /\ Len(lines) \in Nat
        /\ \/ /\ Len(lines') = Len(lines) + 1 /\ lines'[Len(lines')] = line
              /\ \A n \in 1..Len(lines) : lines'[n] = lines[n]
           \/ /\ Len(lines') = Len(lines) /\ Len(lines) > 0 /\ lines'[Len(lines')] \in {Torn, Spoiled}
              /\ \A n \in 1..(Len(lines) - 1) : lines'[n] = lines[n]
    <2>1. lines \in Seq(Line) /\ Len(lines) \in Nat
      BY DEF BatchInv
    <2> DEFINE new == Batch!Appended(line)
    <2>2. /\ new \in Seq(Line)
          /\ \/ /\ Len(new) = Len(lines) + 1 /\ new[Len(new)] = line
                /\ \A n \in 1..Len(lines) : new[n] = lines[n]
             \/ /\ Len(new) = Len(lines) /\ Len(lines) > 0 /\ new[Len(new)] \in {Torn, Spoiled}
                /\ \A n \in 1..(Len(lines) - 1) : new[n] = lines[n]
      BY <1>2, <2>1, AppendedLine
    <2>3. lines' = new
      BY <1>1
    <2> HIDE DEF new
    <2> QED BY <2>1, <2>2, <2>3
  <1>4. /\ task' \in [Batch!Tasks -> Status] /\ task'[t] = "done"
        /\ \A u \in Batch!Tasks \ {t} : task'[u] = task[u]
    BY <1>1 DEF BatchInv, Status
  <1>5. ASSUME NEW n \in 1..Len(lines'), Reads(lines'[n])
        PROVE  \/ n \in 1..Len(lines) /\ lines'[n] = lines[n] /\ RunOf(lines[n]) # t
               \/ n = Len(lines) + 1 /\ RunOf(lines'[n]) = t
    BY <1>2, <1>3, <1>5 DEF BatchInv, LinesAreRuns, Reads
  <1>6. ASSUME NEW n \in 1..Len(lines), Reads(lines[n])
        PROVE  RunOf(lines[n]) \in Batch!Tasks
    BY <1>3, <1>6 DEF Reads, Line, RunOf, Batch!Tasks
  <1>7. LinesAreRuns'
    <2>1. ASSUME NEW n \in 1..Len(lines'), Reads(lines'[n])
          PROVE  task'[RunOf(lines'[n])] \in {"absent", "done"}
      BY <1>4, <1>5, <1>6, <2>1 DEF BatchInv, LinesAreRuns
    <2>2. ASSUME NEW n \in 1..Len(lines'), NEW m \in 1..Len(lines'), n # m,
                 Reads(lines'[n]), Reads(lines'[m])
          PROVE  RunOf(lines'[n]) # RunOf(lines'[m])
      BY <1>5, <2>2 DEF BatchInv, LinesAreRuns
    <2> QED BY <2>1, <2>2 DEF LinesAreRuns, Reads, RunOf
  <1> QED BY <1>1, <1>3, <1>7

\* What a dying process leaves: the lines as they were, or an unfinished last one.
LEMMA TornLines ==
    ASSUME BatchInv, lines' = lines \/ lines' = Batch!Appended(Torn),
           task' = [t \in Batch!Tasks |-> "absent"]
    PROVE  lines' \in Seq(Line) /\ LinesAreRuns'
  <1>1. lines \in Seq(Line) /\ Len(lines) \in Nat /\ Torn \in Line
    BY DEF BatchInv, Line
  <1>2. /\ lines' \in Seq(Line)
        /\ \A n \in 1..Len(lines') : Reads(lines'[n]) => n \in 1..Len(lines) /\ lines'[n] = lines[n]
    <2>1. CASE lines' = lines
      BY <1>1, <2>1
    <2>2. CASE lines' = Batch!Appended(Torn)
      <3> DEFINE new == Batch!Appended(Torn)
      <3>1. /\ new \in Seq(Line)
            /\ \/ /\ Len(new) = Len(lines) + 1 /\ new[Len(new)] = Torn
                  /\ \A n \in 1..Len(lines) : new[n] = lines[n]
               \/ /\ Len(new) = Len(lines) /\ Len(lines) > 0 /\ new[Len(new)] \in {Torn, Spoiled}
                  /\ \A n \in 1..(Len(lines) - 1) : new[n] = lines[n]
        BY <1>1, AppendedLine
      <3> HIDE DEF new
      <3>2. \A n \in 1..Len(new) : Reads(new[n]) => n \in 1..Len(lines) /\ new[n] = lines[n]
        BY <1>1, <3>1 DEF Reads
      <3> QED BY <2>2, <3>1, <3>2 DEF new
    <2> QED BY <2>1, <2>2
  <1>3. ASSUME NEW n \in 1..Len(lines'), Reads(lines'[n])
        PROVE  task'[RunOf(lines'[n])] \in {"absent", "done"}
    <2>1. RunOf(lines'[n]) \in Batch!Tasks
      BY <1>1, <1>2, <1>3 DEF Reads, Line, RunOf, Batch!Tasks
    <2> QED BY <2>1
  <1>4. ASSUME NEW n \in 1..Len(lines'), NEW m \in 1..Len(lines'), n # m,
               Reads(lines'[n]), Reads(lines'[m])
        PROVE  RunOf(lines'[n]) # RunOf(lines'[m])
    BY <1>2, <1>4 DEF BatchInv, LinesAreRuns
  <1> QED BY <1>2, <1>3, <1>4 DEF LinesAreRuns, Reads, RunOf

\* So there are in flight.
LEMMA InFlightIsFinite ==
    /\ IsFiniteSet(Batch!InFlight) /\ Cardinality(Batch!InFlight) \in Nat
  <1>1. Batch!InFlight \subseteq Batch!Tasks
    BY DEF Batch!InFlight
  <1>2. IsFiniteSet(Batch!InFlight)
    BY <1>1, TasksAreFinite, FS_Subset
  <1> QED BY <1>2, FS_CardinalityType

\* A step that adds no more to the spend than the runs it takes out of flight could.
LEMMA SpendStays ==
    ASSUME BatchInv, spent' = spent, Batch!InFlight' \subseteq Batch!InFlight
    PROVE  SpendIsCovered'
  <1> DEFINE I == Cardinality(Batch!InFlight)
             J == Cardinality(Batch!InFlight')
  <1>1. I \in Nat /\ J \in Nat /\ J <= I
    BY InFlightIsFinite, FS_Subset, FS_CardinalityType
  <1>2. ASSUME NEW most \in Costs, max_total_cost > 0, \A c \in Costs : c <= most
        PROVE  spent + J * most < max_total_cost + concurrency * most
    <2>1. spent + I * most < max_total_cost + concurrency * most
      BY <1>2 DEF BatchInv, SpendIsCovered
    <2>2. J * most <= I * most /\ J * most \in Nat /\ I * most \in Nat
      BY <1>1, <1>2, BatchConstants
    <2>3. spent \in Nat /\ max_total_cost \in Nat /\ concurrency * most \in Nat
      BY <1>2, BatchConstants DEF BatchInv
    <2> HIDE DEF I, J
    <2> QED BY <2>1, <2>2, <2>3
  <1> QED BY <1>2 DEF SpendIsCovered

\* A run that ends costs no more than was set aside for it.
LEMMA SpendGrows ==
    ASSUME BatchInv, NEW t \in Batch!InFlight, NEW cost \in Costs, spent' = spent + cost,
           Batch!InFlight' = Batch!InFlight \ {t}
    PROVE  SpendIsCovered'
  <1> DEFINE I == Cardinality(Batch!InFlight)
             J == Cardinality(Batch!InFlight')
  <1>1. I \in Nat /\ J \in Nat /\ J = I - 1
    <2>1. Cardinality(Batch!InFlight \ {t}) = Cardinality(Batch!InFlight) - 1
      BY InFlightIsFinite, FS_RemoveElement
    <2>2. IsFiniteSet(Batch!InFlight \ {t})
      BY InFlightIsFinite, FS_RemoveElement
    <2> QED BY <2>1, <2>2, InFlightIsFinite, FS_CardinalityType
  <1>2. ASSUME NEW most \in Costs, max_total_cost > 0, \A c \in Costs : c <= most
        PROVE  spent' + J * most < max_total_cost + concurrency * most
    <2>1. spent + I * most < max_total_cost + concurrency * most
      BY <1>2 DEF BatchInv, SpendIsCovered
    <2>2. J * most + most = I * most /\ J * most \in Nat /\ I * most \in Nat
      BY <1>1, <1>2, BatchConstants
    <2>3. /\ spent \in Nat /\ max_total_cost \in Nat /\ concurrency * most \in Nat
          /\ cost \in Nat /\ most \in Nat /\ cost <= most
      BY <1>2, BatchConstants DEF BatchInv
    <2> HIDE DEF I, J
    <2> QED BY <2>1, <2>2, <2>3
  <1> QED BY <1>2 DEF SpendIsCovered

\* A run starts below the cap and in a free slot.
LEMMA SpendStarts ==
    ASSUME BatchInv, NEW t, t \notin Batch!InFlight, spent' = spent, spent < max_total_cost,
           Cardinality(Batch!InFlight) < concurrency, Batch!InFlight' = Batch!InFlight \cup {t}
    PROVE  SpendIsCovered'
  <1> DEFINE I == Cardinality(Batch!InFlight)
             J == Cardinality(Batch!InFlight')
  <1>1. I \in Nat /\ J = I + 1
    BY InFlightIsFinite, FS_AddElement
  <1>2. ASSUME NEW most \in Costs
        PROVE  spent + J * most < max_total_cost + concurrency * most
    <2>1. J <= concurrency /\ J \in Nat /\ concurrency \in Nat /\ most \in Nat
      BY <1>1, <1>2, BatchConstants
    <2>2. J * most <= concurrency * most /\ J * most \in Nat /\ concurrency * most \in Nat
      BY <2>1
    <2>3. spent \in Nat /\ max_total_cost \in Nat
      BY BatchConstants DEF BatchInv
    <2> HIDE DEF I, J
    <2> QED BY <2>2, <2>3
  <1> QED BY <1>2 DEF SpendIsCovered

\* A process that starts has spent nothing.
LEMMA NothingSpent ==
    ASSUME Batch!InFlight' = {}, spent' = 0
    PROVE  SpendIsCovered'
  <1>1. Cardinality(Batch!InFlight') = 0
    BY FS_EmptySet
  <1>2. ASSUME NEW most \in Costs, max_total_cost > 0
        PROVE  0 + 0 * most < max_total_cost + concurrency * most
    <2>1. concurrency * most \in Nat /\ max_total_cost \in Nat /\ 0 * most = 0
      BY BatchConstants
    <2> QED BY <1>2, <2>1
  <1> QED BY <1>1, <1>2 DEF SpendIsCovered

\* Every step of a batch, its crashes and resumes included.
LEMMA BatchStep ==
    ASSUME BatchInv, Batch!Next
    PROVE  BatchInv'
  <1>0. /\ task \in [Batch!Tasks -> Status] /\ spent \in Nat /\ lines \in Seq(Line)
        /\ Len(lines) \in Nat /\ LinesAreRuns /\ SpendIsCovered
    BY DEF BatchInv
  <1>1. ASSUME NEW t \in Batch!Tasks, NEW s \in Status
        PROVE  /\ [task EXCEPT ![t] = s] \in [Batch!Tasks -> Status]
               /\ task' = [task EXCEPT ![t] = s] =>
                     /\ s \in {"query", "backoff"} => Batch!InFlight' = Batch!InFlight \cup {t}
                     /\ s \notin {"query", "backoff"} => Batch!InFlight' = Batch!InFlight \ {t}
    BY <1>0, <1>1 DEF Batch!InFlight
  <1>2. ASSUME Batch!run
        PROVE  BatchInv'
    <2>1. /\ task' = [t \in Batch!Tasks |-> IF t[1] \in Batch!item_ids THEN "absent" ELSE "waiting"]
          /\ spent' = 0 /\ lines' = lines
      BY <1>2 DEF Batch!run
    <2>2. task' \in [Batch!Tasks -> Status] /\ Batch!InFlight' = {}
      BY <2>1 DEF Status, Batch!InFlight
    <2>3. ASSUME NEW n \in 1..Len(lines), Reads(lines[n])
          PROVE  task'[RunOf(lines[n])] \in {"absent", "done"}
      <3>1. RunOf(lines[n]) \in Batch!Tasks /\ RunOf(lines[n])[1] = lines[n].item_id
        BY <1>0, <2>3 DEF Reads, Line, RunOf, Batch!Tasks
      <3>2. lines[n].item_id \in Batch!item_ids
        BY <1>0, <2>3 DEF Reads, Batch!item_ids, Batch!Readable, Batch!ToSet
      <3> QED BY <2>1, <3>1, <3>2
    <2>4. LinesAreRuns'
      BY <1>0, <2>1, <2>3 DEF LinesAreRuns, Reads, RunOf
    <2> QED BY <1>0, <2>1, <2>2, <2>4, NothingSpent DEF BatchInv
  <1>3. ASSUME NEW t \in Batch!Tasks, task[t] \notin {"absent", "done"}, spent' = spent,
               NEW status \in {"skipped_budget", "completed", "failed"}, Batch!Recorded(t, status)
        PROVE  BatchInv'
    <2>1. lines' \in Seq(Line) /\ LinesAreRuns' /\ task' = [task EXCEPT ![t] = "done"]
      BY <1>3, RecordedLines
    <2>4. "done" \in Status
      BY DEF Status
    <2>5. task' \in [Batch!Tasks -> Status] /\ Batch!InFlight' = Batch!InFlight \ {t}
      BY <1>1, <2>1, <2>4
    <2>2. task' \in [Batch!Tasks -> Status] /\ Batch!InFlight' \subseteq Batch!InFlight
      BY <2>5
    <2>3. SpendIsCovered'
      BY <1>3, <2>2, SpendStays
    <2> QED BY <1>0, <1>3, <2>1, <2>2, <2>3 DEF BatchInv
  <1>4. ASSUME NEW t \in Batch!Tasks, NEW s \in {"query", "backoff"}, task[t] \notin {"absent", "done"},
               task' = [task EXCEPT ![t] = s], UNCHANGED <<spent, lines>>, SpendIsCovered'
        PROVE  BatchInv'
    <2>1. task' \in [Batch!Tasks -> Status]
      BY <1>1, <1>4 DEF Status
    <2>2. ASSUME NEW n \in 1..Len(lines), Reads(lines[n])
          PROVE  task'[RunOf(lines[n])] \in {"absent", "done"}
      <3>1. RunOf(lines[n]) \in Batch!Tasks /\ task[RunOf(lines[n])] \in {"absent", "done"}
        BY <1>0, <2>2 DEF Reads, Line, RunOf, Batch!Tasks, LinesAreRuns
      <3> QED BY <1>0, <1>4, <3>1
    <2>3. LinesAreRuns'
      BY <1>0, <1>4, <2>2 DEF LinesAreRuns, Reads, RunOf
    <2> QED BY <1>0, <1>4, <2>1, <2>3 DEF BatchInv
  <1>5. ASSUME NEW t \in Batch!Tasks, Batch!_run_one(t)
        PROVE  BatchInv'
    <2>1. /\ task[t] = "waiting" /\ spent' = spent
          /\ Cardinality(Batch!InFlight) < concurrency
      BY <1>5, BatchCardinality DEF Batch!_run_one
    <2>2. CASE Batch!Recorded(t, "skipped_budget")
      BY <1>3, <2>1, <2>2
    <2>3. CASE spent < max_total_cost /\ task' = [task EXCEPT ![t] = "query"] /\ lines' = lines
      <3>1. t \notin Batch!InFlight /\ Batch!InFlight' = Batch!InFlight \cup {t}
        BY <1>1, <2>1, <2>3 DEF Batch!InFlight, Status
      <3>2. SpendIsCovered'
        BY <2>1, <2>3, <3>1, SpendStarts
      <3> QED BY <1>4, <2>1, <2>3, <3>2
    <2> QED BY <1>5, <2>2, <2>3 DEF Batch!_run_one
  <1>6. ASSUME NEW t \in Batch!Tasks, NEW cost \in Costs, Batch!QueryReturns(t, cost)
        PROVE  BatchInv'
    <2>1. task[t] = "query" /\ spent' = spent + cost /\ Batch!Recorded(t, "completed") /\ cost \in Nat
      BY <1>6, BatchConstants DEF Batch!QueryReturns
    <2>2. lines' \in Seq(Line) /\ LinesAreRuns' /\ task' = [task EXCEPT ![t] = "done"]
      BY <2>1, RecordedLines
    <2>3. /\ task' \in [Batch!Tasks -> Status] /\ t \in Batch!InFlight
          /\ Batch!InFlight' = Batch!InFlight \ {t}
      BY <1>1, <2>1, <2>2 DEF Batch!InFlight, Status
    <2>4. SpendIsCovered'
      BY <2>1, <2>3, SpendGrows
    <2> QED BY <1>0, <2>1, <2>2, <2>3, <2>4 DEF BatchInv
  <1>7. ASSUME NEW t \in Batch!Tasks, NEW b \in BOOLEAN, Batch!QueryRaises(t, b)
        PROVE  BatchInv'
    <2>1. /\ task[t] = "query" /\ spent' = spent
          /\ \/ task' = [task EXCEPT ![t] = "backoff"] /\ lines' = lines
             \/ Batch!Recorded(t, "failed")
      BY <1>7 DEF Batch!QueryRaises
    <2>2. CASE Batch!Recorded(t, "failed")
      BY <1>3, <2>1, <2>2
    <2>3. CASE task' = [task EXCEPT ![t] = "backoff"] /\ lines' = lines
      <3>1. Batch!InFlight' \subseteq Batch!InFlight
        BY <1>1, <2>1, <2>3 DEF Batch!InFlight, Status
      <3>2. SpendIsCovered'
        BY <2>1, <3>1, SpendStays
      <3> QED BY <1>4, <2>1, <2>3, <3>2
    <2> QED BY <2>1, <2>2, <2>3
  <1>8. ASSUME NEW t \in Batch!Tasks, Batch!Retry(t)
        PROVE  BatchInv'
    <2>1. task[t] = "backoff" /\ task' = [task EXCEPT ![t] = "query"] /\ UNCHANGED <<spent, lines>>
      BY <1>8 DEF Batch!Retry
    <2>2. Batch!InFlight' \subseteq Batch!InFlight
      BY <1>1, <2>1 DEF Batch!InFlight, Status
    <2>3. SpendIsCovered'
      BY <2>1, <2>2, SpendStays
    <2> QED BY <1>4, <2>1, <2>3
  <1>9. ASSUME Batch!Report
        PROVE  BatchInv'
    <2>1. UNCHANGED <<task, spent, lines>>
      BY <1>9 DEF Batch!Report
    <2>2. Batch!InFlight' \subseteq Batch!InFlight
      BY <2>1 DEF Batch!InFlight
    <2> QED BY <1>0, <2>1, <2>2, SpendStays DEF BatchInv, LinesAreRuns, Reads, RunOf
  <1>10. ASSUME Batch!Crash
         PROVE  BatchInv'
    <2>1. /\ task' = [t \in Batch!Tasks |-> "absent"] /\ spent' = spent
          /\ lines' = lines \/ lines' = Batch!Appended(Torn)
      BY <1>10 DEF Batch!Crash
    <2>2. task' \in [Batch!Tasks -> Status] /\ Batch!InFlight' \subseteq Batch!InFlight
      BY <2>1 DEF Status, Batch!InFlight
    <2> QED BY <1>0, <2>1, <2>2, TornLines, SpendStays DEF BatchInv
  <1> QED
    BY <1>2, <1>5, <1>6, <1>7, <1>8, <1>9, <1>10 DEF Batch!Next, Batch!Progress, Batch!QueryEnds

-----------------------------------------------------------------------------
(***************************************************************************)
(* The composition.                                                        *)
(***************************************************************************)
HostedInv ==
    /\ part \in {"router", "lone", "scheduler", "cron", "batch"}
    /\ part = "router" => Circuits(Providers, MaxCooldown) /\ Calls(Providers, MaxCooldown)
    /\ part = "lone" => /\ Circuits({LoneProvider}, LoneMaxCooldown)
                        /\ Calls({LoneProvider}, LoneMaxCooldown)
    /\ SchedulerInv /\ CronInv /\ BatchInv

\* The router starts with closed circuits and idle callers.
LEMMA RouterInit ==
    ASSUME NEW P, NEW M, Router(P, M)!RouterAssumption, Router(P, M)!CooldownArithmetic,
           Router(P, M)!Init
    PROVE  Circuits(P, M) /\ Calls(P, M)
  <1>1. Circuits(P, M)
    BY CloseIsCoherent DEF Router!Init, Circuits
  <1>2. CallIsSound(P, M, Router(P, M)!Idle, {})
    BY DEF CallIsSound, CallState, Router!Idle, Router!RouterAssumption
  <1> QED BY <1>1, <1>2 DEF Router!Init, Calls

\* The services start in their invariants.
LEMMA HostedInit == Init => HostedInv
  <1> SUFFICES ASSUME Init PROVE HostedInv
    OBVIOUS
  <1>1. /\ part = "router" => Circuits(Providers, MaxCooldown) /\ Calls(Providers, MaxCooldown)
        /\ part = "lone" => /\ Circuits({LoneProvider}, LoneMaxCooldown)
                            /\ Calls({LoneProvider}, LoneMaxCooldown)
    BY RouterInit, RoutersAssumption DEF Init
  <1>2. SchedulerInv
    <2>1. RowIsSound(Scheduler!NoJob, 1) /\ ~Scheduler!NoJob.enabled
          /\ Scheduler!NoJob.consecutive_failures = 0
      <3>1. 1 \in 1..MaxTime
        BY SchedulerConstants
      <3>2. PICK s \in Intervals : TRUE
        BY SchedulerConstants
      <3> QED BY <3>1, <3>2, NewRows
    <2> QED BY <2>1, SchedulerConstants DEF Init, Scheduler!Init, SchedulerInv, FailuresAreCounted
  <1>3. CronInv
    <2>1. /\ start \in Starts /\ Cron!IsMoment(start) /\ candidate = Cron!NextSlot(start)
          /\ found = "searching"
      BY CronAssumption DEF Init, Cron!Init, Cron!FirstCandidate, Cron!CronAssumption
    <2>2. Cron!IsMoment(candidate) /\ Rank(candidate) = Rank(start) + 1
      BY <2>1, NextMoment
    <2> QED BY <2>1, <2>2, MomentRank DEF CronInv
  <1>4. BatchInv
    <2>1. /\ task = [t \in Batch!Tasks |-> "absent"] /\ spent = 0 /\ lines = <<>>
      BY DEF Init, Batch!Init
    <2>2. task \in [Batch!Tasks -> Status] /\ Batch!InFlight = {} /\ lines \in Seq(Line) /\ Len(lines) = 0
      BY <2>1 DEF Status, Batch!InFlight
    <2>3. Cardinality(Batch!InFlight) = 0
      BY <2>2, FS_EmptySet
    <2>4. ASSUME NEW most \in Costs, max_total_cost > 0
          PROVE  0 + 0 * most < max_total_cost + concurrency * most
      <3>1. concurrency * most \in Nat /\ max_total_cost \in Nat /\ 0 * most = 0
        BY BatchConstants
      <3> QED BY <2>4, <3>1
    <2> QED BY <2>1, <2>2, <2>3, <2>4 DEF BatchInv, LinesAreRuns, SpendIsCovered
  <1> QED BY <1>1, <1>2, <1>3, <1>4 DEF Init, HostedInv

\* A step of one service keeps its invariant and leaves the others' variables alone.
LEMMA HostedStep == HostedInv /\ [Next]_allVars => HostedInv'
  <1> SUFFICES ASSUME HostedInv, [Next]_allVars PROVE HostedInv'
    OBVIOUS
  <1> USE DEF routerVars, schedulerVars, cronVars, batchVars
  <1>1. ASSUME UNCHANGED routerVars, NEW P, NEW M
        PROVE  Circuits(P, M) /\ Calls(P, M) => Circuits(P, M)' /\ Calls(P, M)'
    BY <1>1 DEF Circuits, Calls, Coherent, CallIsSound
  <1>2. ASSUME UNCHANGED schedulerVars
        PROVE  SchedulerInv'
    BY <1>2 DEF HostedInv, SchedulerInv, FailuresAreCounted, RowIsSound
  <1>3. ASSUME UNCHANGED cronVars
        PROVE  CronInv'
    BY <1>3 DEF HostedInv, CronInv
  <1>4. ASSUME UNCHANGED batchVars
        PROVE  BatchInv'
    <2>1. Batch!InFlight' = Batch!InFlight
      BY <1>4 DEF Batch!InFlight
    <2> QED BY <1>4, <2>1 DEF HostedInv, BatchInv, LinesAreRuns, SpendIsCovered, Reads, RunOf
  <1>5. CASE UNCHANGED allVars
    BY <1>1, <1>2, <1>3, <1>4, <1>5 DEF HostedInv, allVars
  <1>6. CASE /\ part = "router" /\ Router(Providers, MaxCooldown)!Next
             /\ UNCHANGED <<part, schedulerVars, cronVars, batchVars>>
    BY <1>2, <1>3, <1>4, <1>6, BreakerStep, CallsStep, RoutersAssumption DEF HostedInv
  <1>7. CASE /\ part = "lone" /\ Router({LoneProvider}, LoneMaxCooldown)!Next
             /\ UNCHANGED <<part, schedulerVars, cronVars, batchVars>>
    BY <1>2, <1>3, <1>4, <1>7, BreakerStep, CallsStep, RoutersAssumption DEF HostedInv
  <1>8. CASE part = "scheduler" /\ Scheduler!Next /\ UNCHANGED <<part, routerVars, cronVars, batchVars>>
    BY <1>3, <1>4, <1>8, SchedulerStep DEF HostedInv
  <1>9. CASE part = "cron" /\ Cron!Next /\ UNCHANGED <<part, routerVars, schedulerVars, batchVars>>
    BY <1>2, <1>4, <1>9, CronStep DEF HostedInv
  <1>10. CASE part = "batch" /\ Batch!Next /\ UNCHANGED <<part, routerVars, schedulerVars, cronVars>>
    BY <1>2, <1>3, <1>10, BatchStep DEF HostedInv
  <1> QED BY <1>5, <1>6, <1>7, <1>8, <1>9, <1>10 DEF Next

\* The router, the scheduler, the cron search and the batch runner keep their invariants.
THEOREM HostedInvariant == Spec => []HostedInv
  BY HostedInit, HostedStep, PTL DEF Spec

\* Results of attempts that began before a circuit opened, while it cooled down or as its
\* probe may arrive in any order: a closed circuit has a streak below the threshold and no
\* opening left over, and only an open one that has cooled down is half-open
\* (_record_breaker), for any number of providers and callers.
THEOREM RouterBreakers == Spec => []BreakerIsCoherent
  <1>1. HostedInv => BreakerIsCoherent
    BY DEF HostedInv, BreakerIsCoherent, Circuits, Coherent, Router!BreakerIsCoherent
  <1> QED BY <1>1, HostedInvariant, PTL

\* However many callers stream, fail over and retry at once, none sees chunks of two
\* providers in one stream, and none tries a provider again but for the bounded retries of
\* a lone one (complete, stream, _should_retry_single_provider).
THEOREM RouterFailover == Spec => []FailoverIsInvisible
  <1>1. ASSUME NEW P, NEW M, Calls(P, M)
        PROVE  Router(P, M)!OneProviderPerStream /\ Router(P, M)!AttemptsAreBounded
    <2>1. ASSUME NEW S, NEW x, S \subseteq {x}
          PROVE  Router(P, M)!Cardinality(S) <= 1
      <3>1. S = {} \/ S = {x}
        BY <2>1
      <3>2. Cardinality(S) = 0 \/ Cardinality(S) = 1
        BY <3>1, FS_EmptySet, FS_Singleton
      <3>3. Router(P, M)!Cardinality(S) = Cardinality(S)
        BY SameCardinality
      <3> QED BY <3>2, <3>3
    <2>2. Router(P, M)!OneProviderPerStream
      BY <1>1, <2>1 DEF Calls, CallIsSound, Router!OneProviderPerStream
    <2>3. Router(P, M)!AttemptsAreBounded
      BY <1>1, SameCardinality DEF Calls, CallIsSound, Router!AttemptsAreBounded
    <2> QED BY <2>2, <2>3
  <1>2. HostedInv => FailoverIsInvisible
    BY <1>1 DEF HostedInv, FailoverIsInvisible
  <1> QED BY <1>2, HostedInvariant, PTL

\* For any jobs, schedules and limits, whatever hosts edit while a tick works from its old
\* copy and whenever the process dies: a job's failures in a row are bounded, and its next
\* time is later than the run it follows (_advance, ensure_scheduled).
THEOREM JobsCannotSpin == Spec => []CannotSpin
  <1>1. HostedInv => CannotSpin
    BY DEF HostedInv, SchedulerInv, FailuresAreCounted, RowIsSound, CannotSpin,
           Scheduler!CannotSpin, Scheduler!NoBackfill, Scheduler!None
  <1> QED BY <1>1, HostedInvariant, PTL

\* For any schedule and any date: what next_after returns is a moment that crontab's rule
\* names on the real calendar, strictly after its argument, and what it passes over is none.
THEOREM CronFindsTheNext == Spec => []FindsTheNext
  <1>1. HostedInv => FindsTheNext
    BY MatchesIsNamed DEF HostedInv, CronInv, FindsTheNext, Cron!FindsTheNext, Rank
  <1> QED BY <1>1, HostedInvariant, PTL

\* For any items, repeats, slots, costs and crashes: no run is recorded twice, and the spend
\* passes the cap by less than one wave of runs (BatchRunner.run, _run_one, item_ids).
THEOREM BatchRecordsOnce == Spec => []RecordedOnce
  <1>1. ASSUME BatchInv PROVE Batch!RecordedOnce
    <2>1. \A n \in 1..Len(lines) : lines[n] \in Batch!Readable => Reads(lines[n])
      BY DEF Batch!Readable, Reads
    <2> QED BY <1>1, <2>1 DEF BatchInv, LinesAreRuns, RunOf, Batch!RecordedOnce
  <1>2. ASSUME BatchInv PROVE Batch!SpendIsBounded
    <2>1. ASSUME NEW most \in Costs, max_total_cost > 0, \A c \in Costs : c <= most
          PROVE  spent < max_total_cost + concurrency * most
      <3> DEFINE flying == Cardinality(Batch!InFlight) * most
      <3>1. spent + flying < max_total_cost + concurrency * most
        BY <1>2, <2>1 DEF BatchInv, SpendIsCovered
      <3>2. flying \in Nat /\ concurrency * most \in Nat /\ max_total_cost \in Nat /\ spent \in Nat
        BY <1>2, InFlightIsFinite, BatchConstants DEF BatchInv
      <3> HIDE DEF flying
      <3> QED BY <3>1, <3>2
    <2> QED BY <2>1 DEF Batch!SpendIsBounded
  <1>3. HostedInv => RecordedOnce
    BY <1>1, <1>2 DEF HostedInv, RecordedOnce
  <1> QED BY <1>3, HostedInvariant, PTL

=============================================================================
