SPECIFICATION Spec
CONSTANTS
    Clients = {c1, c2}
    Keys = {k1}
    NoKey = NoKey
    Nobody = Nobody
    UseStore = TRUE
    Replay = FALSE
    Decisions = {"approve", "reject", "clarify", "continue"}
    MaxCheckpoints = 5
    MaxPauses = 2
INVARIANT PauseIsResumable
CHECK_DEADLOCK FALSE
