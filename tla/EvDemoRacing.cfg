SPECIFICATION Spec
CONSTANTS
    Readers = {r1, r2}
    Pollers = {t1}
    Knotes = {k1}
    Posters = {p1, p2}
    Kinds = {tick, trigger}
    NoEvent = NoEvent
    QueueSize = 3
    Racing = TRUE
INVARIANTS NoMethodAfterFree NoSysctlAfterFree
CHECK_DEADLOCK FALSE
