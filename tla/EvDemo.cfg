SPECIFICATION FairSpec
CONSTANTS
    Readers = {r1, r2}
    Pollers = {t1}
    Knotes = {k1}
    Posters = {p1, p2}
    Kinds = {tick, trigger}
    NoEvent = NoEvent
    QueueSize = 3
    Racing = FALSE
INVARIANTS NobodyMissesAnEvent FreedSoftcHasNoWaiters
PROPERTIES ImplementsEventQueue UnloadSendsReadersAway
CHECK_DEADLOCK FALSE
