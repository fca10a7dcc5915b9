SPECIFICATION FairSpec
CONSTANTS
    MaxVectors = 3
    FallbackFires = FALSE
    Racing = FALSE
INVARIANTS NothingLeaks UnmaskedMeansHandled NobodyUsesWhatIsGone
PROPERTY ConfigEnds
CHECK_DEADLOCK FALSE
