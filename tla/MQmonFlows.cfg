CONSTANTS
    MaxSeq = 3
    TimeMod = 4
    CountMod = 5
    LossMod = 16
    CCs = {0}
    Sources = {1, 2}
    Times = {0}
    Payloads = {0}
    DetectSizes = {2, 3}
    NotRtp = NotRtp
    Interfaces = {i1}
    Streams = {s1, s2}
    Flows = {f1}
    NoStream = NoStream

SPECIFICATION FlowsSpec

INVARIANTS
    AnswersTellValidity
    PromptDetection
