CONSTANTS
    MaxSeq = 2
    TimeMod = 4
    CountMod = 4
    LossMod = 16
    CCs = {0}
    Sources = {1}
    Times = {0}
    Payloads = {0}
    DetectSizes = {2}
    NotRtp = NotRtp
    Interfaces = {i1, i2}
    Streams = {s1, s2}
    Flows = {f1, f2}
    NoStream = NoStream

SPECIFICATION Spec

SYMMETRY Symmetry

INVARIANTS
    DeletedLeavesMQmon
