SPECIFICATION FairSpec
CONSTANTS
    Callers = {w1, w2}
    Samplers = {}
    ReadyPolls = 1
    DataPolls = 3
    FaultMasks = {{}, {"TIMEOUT"}, {"ERROR"}, {"STUCK_BUSY"}, {"TIMEOUT", "STUCK_BUSY"}}
    MaxCommands = 3
INVARIANTS CommandAccounted OneClaimPerCompletion CallbacksFindTheirSim
PROPERTY PendingEnds
CHECK_DEADLOCK FALSE
