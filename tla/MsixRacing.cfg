SPECIFICATION Spec
CONSTANTS
    MaxVectors = 3
    FallbackFires = FALSE
    Racing = TRUE
INVARIANT NobodyUsesWhatIsGone
CHECK_DEADLOCK FALSE
