SPECIFICATION Spec
CONSTANTS
    Writers = {w1, w2, w3}
    Limits <- MCLowLimits
    Default = 2
    MayLower = TRUE
    MaxSlots = 6
INVARIANT NeverAboveEveryLimit
