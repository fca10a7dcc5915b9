SPECIFICATION FairSpec
CONSTANTS
    Callers = {c1, c2}
    Frozen = TRUE
INVARIANT EngineOnlyWhenBusy
CHECK_DEADLOCK FALSE
