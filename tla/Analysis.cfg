CONSTANTS
    MaxIds = 2
    JunkPorts <- MCJunkPorts
    JunkAddress = 97
    SubSec = 8
    MicroSec = 4
    HeaderSize = 2
    BlockSize = 9
    Analyzers = {a1, a2}
    Main = a1
    Traffics <- MCTraffics
    Timestamps = {1, 5, 13}
    Intervals = {4, 8}
    DelayUnit = 16
    MaxRtcp = 2
    CaptureTimes = {0, 9}
    MaxSeq = 3
    TimeMod = 4
    CountMod = 5
    LossMod = 16
    CCs = {0}
    Sources = {1, 2}
    Times = {0}
    Payloads = {0}
    DetectSizes = {2, 3}
    NotRtp = NotRtp
    Reports <- MCReports
    RtpPackets <- MCRtpPackets
    Amounts <- MCAmounts
    MaxAmount = 20

SPECIFICATION AnalysisSpec

CHECK_DEADLOCK FALSE

INVARIANTS
    TypeOK
    ValidWindow
    LossAccounting
    ReceivedWithinSpan
    DetectionExact
    AnalyzerInv
    EntriesAreConversations
    DumpInv
    OutputsPunctual
    RtcpInv
    DirectFollowsInterface
    TimeInv

PROPERTIES
    RangeAdvances
    StopNeedsNoise
    OutputsSpaced
    LossRateStays
