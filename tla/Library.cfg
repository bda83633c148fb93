CONSTANTS
    MaxSize = 18
    Sizes = {1, 3}
    ElemCount = 3
    AllocMin = 2
    SpeedPercent = 50
    UIntMod = 16
    MaxPools = 3
    Strategies <- MCStrategies
    BlockSizes = {1, 2}
    Units = 4
    SizeMod = 32
    MaxNodes = 7
    Keys = {1, 2, 3, 4, 5, 6, 7}
    MultiKeys = {1, 2}
    Values = {0, 1}
    HashOf <- MCHashOf
    BinSizes <- MCBinSizes
    MaskBins = 4
    MinLo = 1
    BlockSize = 2
    HashKeys = {1, 2, 3, 4}
    HashValues = {0, 1}
    Loads <- MCLoads
    FirstBins = 2
    RehashBins = {0, 2, 3, 4, 5}
    MaxItems = 5
    Elements = {1, 2}
    CellValues = {1, 2}
    Default = 0
    GrowBys = {0, 2}
    GrowLeast = 2
    MaxCells = 4

SPECIFICATION LibrarySpec

VIEW LibraryView

CHECK_DEADLOCK FALSE

INVARIANTS
    PoolsInv
    TreeInv
    TableInv
    ListCoherent
    ObjectsExact

PROPERTIES
    IsFifo
    SetIsSlotPool
    TreeIsStore
    TableIsStore
    ListIsSequence
    ArrayIsSequence
