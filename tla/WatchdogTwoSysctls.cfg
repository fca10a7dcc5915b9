SPECIFICATION WatchdogSpec
CONSTANTS
    Handlers = {h1, h2}
    MaxUsed = 1
INVARIANT ArmedMeansInterval
