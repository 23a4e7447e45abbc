SPECIFICATION AllSpec
CONSTANTS
    Handles = {h0, h1, h2}
    Root = h0
    Threads = {t1, t2}
    Reasons = {r1, r2}
    ParentAborted = ParentAborted
    NoReason = NoReason
    NoHandle = NoHandle
    ParentsOutlive = TRUE
    Workers = {w1, w2}
    Sessions = {s1, s2}
    NoSession = NoSession
    Runs = {1, 2}
    Watchers = {c1}
    NoRun = 0
    MaxRuns = 1
    MaxParks = 2
    Clients = {c1, c2}
    MaxPauses = 2
    Disconnects = TRUE
INVARIANTS
    CascadeIsExact
    LedgerIsTruthful
    RunsAreKept
PROPERTIES
    
    StreamEnds
CHECK_DEADLOCK FALSE
