SPECIFICATION CacheFairSpec
CONSTANTS
    Readers = {r1, r2, r3}
    Half = 8
    Start <- MCNearWrap
    Horizon = 3
    Stale = 1
INVARIANT FilledAnswersFresh
PROPERTIES OncePerInterval CallsFinish
