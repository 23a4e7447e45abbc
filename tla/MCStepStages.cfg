SPECIFICATION Spec
CONSTANTS
    None = None
    a = a
    b = b
    p = p
    q = q
    Runs = {1, 2}
    failure_limit = 2
    cooldown_attempts = 2
    every_n = 2
    Configs <- MCConfigs
    Archives = FALSE
    MaxGroups = 3
    Executors <- MCExecutors
    PlanningGates <- MCPlanningGates
    Endings <- MCEndings
CHECK_DEADLOCK FALSE
INVARIANTS
    
    RunsOnlyAllowed
    
    
    EndsAsJudged
PROPERTIES
    NothingStartsAfterAbort
    TurnEnds
    OpenIsProbed
