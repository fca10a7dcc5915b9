SPECIFICATION FairSpec
CONSTANTS
    Users = {u1}
    Handlers = {h1}
    Kinds <- MCDeferred
    Racing <- MCNone
    Timers = {"watchdog", "tick_source"}
    WritersLimit = 1
    MaxSema = 3
INVARIANTS NoUseAfterDestroy TaskqueueFreedQuiet
PROPERTY DetachFinishes
CHECK_DEADLOCK FALSE
