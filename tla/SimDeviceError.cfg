SPECIFICATION Spec
CONSTANTS
    Callers = {w1}
    Samplers = {}
    ReadyPolls = 1
    DataPolls = 3
    FaultMasks = {{}, {"TIMEOUT"}, {"ERROR"}, {"STUCK_BUSY"}, {"TIMEOUT", "STUCK_BUSY"}}
    MaxCommands = 3
INVARIANT ErrorIsAnswered
CHECK_DEADLOCK FALSE
