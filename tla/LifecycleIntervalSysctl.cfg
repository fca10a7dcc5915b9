SPECIFICATION Spec
CONSTANTS
    Users = {}
    Handlers = {h1}
    Kinds <- MCInterval
    Racing <- MCInterval
    Timers = {"heartbeat"}
    WritersLimit = 1
    MaxSema = 2
INVARIANT CalloutsStayDrained
CHECK_DEADLOCK FALSE
