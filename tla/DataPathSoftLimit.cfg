SPECIFICATION Spec
CONSTANTS
    Readers = {}
    Writers = {w1, w2}
    Pollers = {}
    BufSize = 3
    Bounce = 1
    MaxRequest = 1
    SoftLimits <- MCLimit
    Batches <- MCNone
    Ticking = FALSE
    Resetting = FALSE
    MaxCount = 3
INVARIANT SoftLimitHolds
CHECK_DEADLOCK FALSE
