SPECIFICATION Spec
CONSTANTS
    MaxVectors = 3
    FallbackFires = TRUE
    Racing = FALSE
INVARIANT TasksAreInitialized
CHECK_DEADLOCK FALSE
