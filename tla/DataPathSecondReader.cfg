SPECIFICATION Spec
CONSTANTS
    Readers = {r1, r2}
    Writers = {w1}
    Pollers = {}
    BufSize = 2
    Bounce = 2
    MaxRequest = 2
    SoftLimits <- MCNoLimit
    Batches <- MCNone
    Ticking = FALSE
    Resetting = FALSE
    MaxCount = 3
INVARIANT NoReaderStranded
CHECK_DEADLOCK FALSE
