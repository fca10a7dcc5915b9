SPECIFICATION FairSpec
CONSTANTS
    Callers = {c1, c2}
    Frozen = TRUE
INVARIANTS BusyHasOwner QuietWhenSuspended CalmEngineOnlyWhenBusy CalmSuccessMeansDone
PROPERTIES BusyEnds QuiesceEnds
CHECK_DEADLOCK FALSE
