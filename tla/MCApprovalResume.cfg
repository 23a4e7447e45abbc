SPECIFICATION Spec
CONSTANTS
    Clients = {c1, c2}
    Keys = {k1}
    NoKey = NoKey
    Nobody = Nobody
    UseStore = TRUE
    Replay = TRUE
    Decisions = {"approve", "reject", "clarify", "continue"}
    MaxCheckpoints = 5
    MaxPauses = 2
SYMMETRY ClientSymmetry
CHECK_DEADLOCK FALSE
INVARIANTS
    ApprovalIsExact
    ResultComesFromTheWinner
