SPECIFICATION FairSpec
CONSTANTS
    Callers = {c1, c2}
    Frozen = TRUE
INVARIANT SuccessMeansDone
CHECK_DEADLOCK FALSE
