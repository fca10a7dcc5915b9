SPECIFICATION Spec
CONSTANTS
    Callers = {w1, w2}
    Samplers = {w2}
    ReadyPolls = 1
    DataPolls = 3
    FaultMasks = {{}, {"TIMEOUT"}, {"ERROR"}, {"STUCK_BUSY"}, {"TIMEOUT", "STUCK_BUSY"}}
    MaxCommands = 3
INVARIANT CommandAccounted
CHECK_DEADLOCK FALSE
