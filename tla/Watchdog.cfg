SPECIFICATION WatchdogFairSpec
CONSTANTS
    Handlers = {h1, h2}
    MaxUsed = 2
INVARIANT FlagMeansRecovery
PROPERTIES OnlyOvertakenMisarm StallRecovered
