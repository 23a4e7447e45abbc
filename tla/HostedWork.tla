----------------------------- MODULE HostedWork -----------------------------
(***************************************************************************)
(* The services a host runs work with: the provider router, with several   *)
(* providers ("router") and with one that is retried and probed ("lone"),  *)
(* the job scheduler ("scheduler"), the search of a cron schedule ("cron") *)
(* and the batch runner ("batch").  They share no variable; a behaviour is *)
(* one of a single service.                                                *)
(***************************************************************************)
EXTENDS Integers

CONSTANTS
    Providers, LoneProvider, NoProvider, Requests, Threshold, Cooldown, MaxCooldown,
    LoneMaxCooldown, MaxRetries, Fallback,                            \* ProviderRouter
    Jobs, Intervals, MaxFailures, MaxTime, MaxEdits, MaxCrashes,      \* JobScheduler
    Slots, Horizon, Schedules, Starts,                                \* CronSchedule
    Items, repeats, concurrency, retries, max_total_cost, Costs, MaxDeaths, Torn, Spoiled

VARIABLES
    part,                                                    \* the service that moves
    healthy, breaker, calls, chunks,                                  \* ProviderRouter
    store, now, moment, queue, copy, edits, crashes, deleted, streak, \* JobScheduler
    schedule, start, candidate, scanned, found,                       \* CronSchedule
    phase, task, attempt, spent, lines, skipped, deaths               \* BatchRunner

Router(providers, longest) == INSTANCE ProviderRouter WITH
    Providers <- providers, MaxCooldown <- longest

Scheduler == INSTANCE JobScheduler

Cron == INSTANCE CronSchedule

Batch == INSTANCE BatchRunner WITH MaxCrashes <- MaxDeaths, crashes <- deaths

ASSUME RoutersAssumption ==
    /\ Router(Providers, MaxCooldown)!RouterAssumption
    /\ Router({LoneProvider}, LoneMaxCooldown)!RouterAssumption
    /\ Router(Providers, MaxCooldown)!CooldownArithmetic
    /\ Router({LoneProvider}, LoneMaxCooldown)!CooldownArithmetic

ASSUME SchedulerAssumption == Scheduler!SchedulerAssumption

ASSUME CronAssumption == Cron!CronAssumption

ASSUME BatchAssumption == Batch!BatchAssumption

routerVars == <<healthy, breaker, calls, chunks>>
schedulerVars == <<store, now, moment, queue, copy, edits, crashes, deleted, streak>>
cronVars == <<schedule, start, candidate, scanned, found>>
batchVars == <<phase, task, attempt, spent, lines, skipped, deaths>>
allVars == <<part, routerVars, schedulerVars, cronVars, batchVars>>

Init ==
    /\ part \in {"router", "lone", "scheduler", "cron", "batch"}
    /\ IF part = "lone" THEN Router({LoneProvider}, LoneMaxCooldown)!Init
       ELSE Router(Providers, MaxCooldown)!Init
    /\ Scheduler!Init
    /\ Cron!Init
    /\ part # "cron" => <<schedule, start>> = CHOOSE q \in Schedules \X Starts : TRUE
    /\ Batch!Init

Next ==
    \/ /\ part = "router" /\ Router(Providers, MaxCooldown)!Next
       /\ UNCHANGED <<part, schedulerVars, cronVars, batchVars>>
    \/ /\ part = "lone" /\ Router({LoneProvider}, LoneMaxCooldown)!Next
       /\ UNCHANGED <<part, schedulerVars, cronVars, batchVars>>
    \/ part = "scheduler" /\ Scheduler!Next /\ UNCHANGED <<part, routerVars, cronVars, batchVars>>
    \/ part = "cron" /\ Cron!Next /\ UNCHANGED <<part, routerVars, schedulerVars, batchVars>>
    \/ part = "batch" /\ Batch!Next /\ UNCHANGED <<part, routerVars, schedulerVars, cronVars>>

\* A call of the lone provider goes on to its next await.
LoneGoesOn(r) ==
    \/ Router({LoneProvider}, LoneMaxCooldown)!Select(r)
    \/ Router({LoneProvider}, LoneMaxCooldown)!Backoff(r)
    \/ Router({LoneProvider}, LoneMaxCooldown)!RetrySingle(r)

LoneHealth(r) == Router({LoneProvider}, LoneMaxCooldown)!refresh_health(r)

\* Calls of the lone provider go on and are answered, time passes, callers keep coming and
\* in the end every health check is positive; the scheduler ticks and its timer fires; the
\* batch goes on.
Fairness ==
    /\ WF_routerVars(part = "lone" /\ Router({LoneProvider}, LoneMaxCooldown)!Tick)
    /\ \A r \in Requests :
          /\ WF_routerVars(part = "lone" /\ LoneGoesOn(r))
          /\ WF_routerVars(part = "lone" /\ Router({LoneProvider}, LoneMaxCooldown)!AttemptEnds(r))
          /\ WF_routerVars(part = "lone" /\ LoneHealth(r))
    /\ <>[][\A r \in Requests : part = "lone" /\ LoneHealth(r) => healthy'[LoneProvider]]_routerVars
    /\ WF_schedulerVars(part = "scheduler" /\ Scheduler!tick)
    /\ WF_schedulerVars(part = "scheduler" /\ Scheduler!HardInterrupt)
    /\ WF_batchVars(part = "batch" /\ Batch!Progress)

Spec == Init /\ [][Next]_allVars /\ Fairness

-----------------------------------------------------------------------------
\* Whatever order the results of attempts come in, a closed circuit has a streak below the
\* threshold and no opening left over, and only an open one is half-open.
BreakerIsCoherent ==
    /\ part = "router" => Router(Providers, MaxCooldown)!BreakerIsCoherent
    /\ part = "lone" => Router({LoneProvider}, LoneMaxCooldown)!BreakerIsCoherent

\* A failover shows no seam: a caller never sees chunks of two providers in one stream, and
\* a call tries a provider once, but for the bounded retries of a lone one.
FailoverIsInvisible ==
    /\ part = "router" => /\ Router(Providers, MaxCooldown)!OneProviderPerStream
                          /\ Router(Providers, MaxCooldown)!AttemptsAreBounded
    /\ part = "lone" => Router({LoneProvider}, LoneMaxCooldown)!AttemptsAreBounded

\* A circuit does not stay shut for ever, and holds nobody up for ever: while callers keep
\* coming and health checks have become positive, the provider is tried again; and every
\* call comes back, although two callers fail, retry, reset and open it for each other.
CircuitIsProbed ==
    /\ (part = "lone" /\ breaker[LoneProvider].opened) ~>
           (~breaker[LoneProvider].opened \/ \E r \in Requests : calls[r].provider = LoneProvider)
    /\ \A r \in Requests :
          LET Ongoing == Router({LoneProvider}, LoneMaxCooldown)!Ongoing(r)
          IN (part = "lone" /\ Ongoing) ~> ~Ongoing

\* No job fails more often in a row than max_consecutive_failures unless a host has spoken
\* in between, and what is stored as its next time is later than the run it follows, through
\* host edits, rows written back from an old copy, late ticks and crashes.
CannotSpin == Scheduler!CannotSpin /\ Scheduler!NoBackfill

\* A due job gets its run, whatever the jobs before it do, or a host takes it off.
DueJobRuns ==
    \A j \in Jobs :
        (part = "scheduler" /\ Scheduler!_is_due(store[j], now)) ~>
            (~Scheduler!_is_due(store[j], now) \/ (queue # {} /\ Scheduler!Running = j))

\* next_after returns a moment the schedule names, strictly after its argument, and passes
\* over none.
FindsTheNext == part = "cron" => Cron!FindsTheNext

\* A run is recorded once, across crashes and resumes, whatever lines cannot be read, and
\* the runs in flight when the cap is reached are the only ones that add to the spend.
RecordedOnce == Batch!RecordedOnce /\ Batch!SpendIsBounded

\* A batch comes to its report although queries fail and the process dies.
BatchEnds == part = "batch" ~> phase = "finished"
=============================================================================
