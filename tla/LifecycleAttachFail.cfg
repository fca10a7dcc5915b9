SPECIFICATION Spec
CONSTANTS
    Users = {u1}
    Handlers = {h1}
    Kinds <- MCNone
    Racing <- MCNone
    Timers = {}
    WritersLimit = 1
    MaxSema = 2
INVARIANT AttachFailureReleasesAll
CHECK_DEADLOCK FALSE
