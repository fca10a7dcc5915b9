SPECIFICATION Spec
CONSTANTS
    Users = {}
    Handlers = {h1}
    Kinds <- MCTasks
    Racing <- MCTasks
    Timers = {}
    WritersLimit = 1
    MaxSema = 2
INVARIANT TaskqueueFreedQuiet
CHECK_DEADLOCK FALSE
