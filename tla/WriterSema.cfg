SPECIFICATION Spec
CONSTANTS
    Writers = {w1, w2, w3, w4}
    Limits <- MCLimits
    Default = 2
    MayLower = FALSE
    MaxSlots = 6
INVARIANTS SlotsAccounted CapHolds DrainedMeansOut
