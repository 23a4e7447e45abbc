SPECIFICATION LiveSpec
CONSTANTS
    r1 = r1
    Run = r1
    Runs = {r1}
    Workers = {w1, w2}
    Dispatchers = {d1}
    Claimants = {w1, w2, d1}
    Turns = {t1}
    Keys = {}
    Requests <- MCLive
    NoRun = NoRun
    NoKey = NoKey
    Nobody = Nobody
    NoTurn = NoTurn
    MaxItems = 1
    MaxGeneration = 1
    AtomicEnqueue = TRUE
    Streaming = TRUE
    MaxLlmSteps = 1
CHECK_DEADLOCK FALSE
INVARIANTS
    AppliedByOneWorker
