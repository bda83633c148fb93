CONSTANTS
    ElemCount = 3
    AllocMin = 2
    SpeedPercent = 50
    UIntMod = 16
    MaxPools = 1
    Strategies = {{}}

SPECIFICATION SetSpec

CHECK_DEADLOCK FALSE

INVARIANT HeldOnce
