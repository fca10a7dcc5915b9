SPECIFICATION CacheFairSpec
CONSTANTS
    Readers = {r1, r2}
    Half = 8
    Start <- MCNegative
    Horizon = 3
    Stale = 1
INVARIANT AnswersFresh
