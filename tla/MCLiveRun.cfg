SPECIFICATION LiveSpec
CONSTANTS
    r1 = r1
    Run = r1
    Runs = {r1}
    Workers = {w1}
    Dispatchers = {d1}
    Claimants = {w1, d1}
    Turns = {t1}
    Keys = {}
    Requests <- MCRequests
    NoRun = NoRun
    NoKey = NoKey
    Nobody = Nobody
    NoTurn = NoTurn
    MaxItems = 2
    MaxGeneration = 2
    AtomicEnqueue = TRUE
    Streaming = FALSE
    MaxLlmSteps = 2
CHECK_DEADLOCK FALSE

    
    
PROPERTIES
    UsesTheQueue
    MessagesAreSettled
