SPECIFICATION Spec
CONSTANTS
    Users = {}
    Handlers = {h1}
    Kinds <- MCSemaphore
    Racing <- MCSemaphore
    Timers = {}
    WritersLimit = 1
    MaxSema = 2
INVARIANT NoUseAfterDestroy
CHECK_DEADLOCK FALSE
