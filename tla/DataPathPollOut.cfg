SPECIFICATION Spec
CONSTANTS
    Readers = {}
    Writers = {w1}
    Pollers = {p1}
    BufSize = 2
    Bounce = 2
    MaxRequest = 2
    SoftLimits <- MCNoLimit
    Batches <- MCNone
    Ticking = FALSE
    Resetting = TRUE
    MaxCount = 3
INVARIANT NoPollOutStranded
CHECK_DEADLOCK FALSE
