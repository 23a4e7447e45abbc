SPECIFICATION Spec
CONSTANTS
    Leases = {1, 2, 3}
    Workers = {w1, w2}
    NoLease = NoLease
    HostLease = HostLease
    MaxDrives = 5
    MaxTakeovers = 4
    MaxGeneration = 2
    MaxSequence = 2
    max_pages = 3
    MaxCrashes = 1
    Tasks = {1, 2, 3, 4}
    max_parallel = 2
    max_child_runs = 3
    MaxMessages = 1
    MaxExecutions = 2
    i1 = i1
    i2 = i2
    i3 = i3
    Items = {i1, i2, i3}
    Processes = {p1, p2}
    Key <- MCKey
    Kind <- MCKind
    NoItem = NoItem
CHECK_DEADLOCK FALSE
INVARIANTS
    
    NothingIsMissed
    CompletedIsSettled
    OneQueuedPerKey

    
    
    
