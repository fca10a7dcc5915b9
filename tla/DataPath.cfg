SPECIFICATION FairSpec
CONSTANTS
    Readers = {r1}
    Writers = {w1}
    Pollers = {p1}
    BufSize = 2
    Bounce = 2
    MaxRequest = 2
    SoftLimits <- MCNoLimit
    Batches <- MCBatches
    Ticking = TRUE
    Resetting = FALSE
    MaxCount = 3
PROPERTIES PollInWakes RoundLosesToOthers
CHECK_DEADLOCK FALSE
