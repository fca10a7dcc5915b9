SPECIFICATION FairSpec
CONSTANTS
    Callers = {c1, c2}
    Frozen = FALSE
INVARIANT QuietWhenSuspended
CHECK_DEADLOCK FALSE
