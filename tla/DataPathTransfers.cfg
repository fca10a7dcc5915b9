SPECIFICATION Spec
CONSTANTS
    Readers = {r1, r2}
    Writers = {w1}
    Pollers = {}
    BufSize = 2
    Bounce = 2
    MaxRequest = 2
    SoftLimits <- MCNoneOrTwo
    Batches <- MCNone
    Ticking = FALSE
    Resetting = TRUE
    MaxCount = 3
INVARIANTS CountersAgree NobodyStranded ProgressEndsCall
CHECK_DEADLOCK FALSE
