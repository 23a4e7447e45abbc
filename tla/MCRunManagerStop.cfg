SPECIFICATION Spec
CONSTANTS
    Runs = {1}
    Clients = {c1}
    NoRun = 0
    MaxRuns = 1
    MaxParks = 1
INVARIANT StopReachesTheDriver
CHECK_DEADLOCK FALSE
