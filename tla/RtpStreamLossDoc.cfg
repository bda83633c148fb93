CONSTANTS
    MaxSeq = 4
    TimeMod = 4
    CountMod = 6
    LossMod = 16
    CCs = {0}
    Sources = {1, 2}
    Times = {0}
    Payloads = {0}
    DetectSizes = {2}
    NotRtp = NotRtp

SPECIFICATION Spec

INVARIANT LossRateIsFraction
