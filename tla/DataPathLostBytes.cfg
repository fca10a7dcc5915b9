SPECIFICATION Spec
CONSTANTS
    Readers = {}
    Writers = {w1}
    Pollers = {}
    BufSize = 2
    Bounce = 2
    MaxRequest = 2
    SoftLimits <- MCNoLimit
    Batches <- MCNone
    Ticking = TRUE
    Resetting = FALSE
    MaxCount = 3
INVARIANT WriteReportsStored
CHECK_DEADLOCK FALSE
