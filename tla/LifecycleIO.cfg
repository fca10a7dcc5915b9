SPECIFICATION FairSpec
CONSTANTS
    Users = {u1, u2}
    Handlers = {h1}
    Kinds <- MCIOKinds
    Racing <- MCSafe
    Timers = {}
    WritersLimit = 1
    MaxSema = 3
INVARIANTS NoUseAfterDestroy IOPinsDevice
PROPERTY DetachFinishes
CHECK_DEADLOCK FALSE
