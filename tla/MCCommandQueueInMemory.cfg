SPECIFICATION Spec
CONSTANTS
    r1 = r1
    k1 = k1
    Runs = {r1}
    Claimants = {c1, c2}
    Turns = {t1}
    Keys = {k1}
    Requests <- MCRaceRequests
    NoRun = NoRun
    NoKey = NoKey
    Nobody = Nobody
    NoTurn = NoTurn
    MaxItems = 2
    MaxGeneration = 2
    AtomicEnqueue = FALSE
SYMMETRY ClaimantSymmetry
CHECK_DEADLOCK FALSE
INVARIANTS
    NamesAreUnique
PROPERTIES
    OnlyForward
