SPECIFICATION Spec
CONSTANTS
    r1 = r1
    k1 = k1
    Runs = {r1}
    Claimants = {c1, c2}
    Turns = {t1}
    Keys = {k1}
    Requests <- MCRequests
    NoRun = NoRun
    NoKey = NoKey
    Nobody = Nobody
    NoTurn = NoTurn
    MaxItems = 2
    MaxGeneration = 2
    AtomicEnqueue = TRUE
SYMMETRY ClaimantSymmetry
CHECK_DEADLOCK FALSE
INVARIANTS
    TypeOK
    MessagesHaveTheirPlace
PROPERTIES
    ImplementsContract
