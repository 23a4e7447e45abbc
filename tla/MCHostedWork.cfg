SPECIFICATION Spec
CONSTANTS
    Providers = {p1, p2}
    LoneProvider = p1
    NoProvider = NoProvider
    Requests = {r1, r2}
    Threshold = 2
    Cooldown = 1
    MaxCooldown = 1
    LoneMaxCooldown = 2
    MaxRetries = 1
    Fallback = TRUE
    Jobs = {1, 2}
    Intervals = {0, 1}
    MaxFailures = 2
    MaxTime = 4
    MaxEdits = 3
    MaxCrashes = 1
    Slots = 2
    Horizon = 367
    Schedules <- MCSchedules
    Starts <- MCStarts
    Items = {i1, i2}
    repeats = 2
    concurrency = 2
    retries = 1
    max_total_cost = 3
    Costs = {2}
    MaxDeaths = 2
    Torn = Torn
    Spoiled = Spoiled
CHECK_DEADLOCK FALSE
INVARIANTS
    BreakerIsCoherent
    FailoverIsInvisible
    CannotSpin
    FindsTheNext
    RecordedOnce
PROPERTIES
    CircuitIsProbed
    DueJobRuns
    
