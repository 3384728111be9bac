SPECIFICATION LiveSpec
CONSTANTS
    Tokens = {0}
    Eos = 0
    BlockTokens = 2
    ContextLimit = 3
    ChunkTokens = 2
    TileTokens = 1
    MaxWidth = 1
    MaxEpoch = 2
    Graphs = TRUE
    Faults = TRUE
    RingSlots = 2
    MaxAhead = 2
    MaxBoundaries = 3
    MaxRingFailures = 2
    Parts <- MCTable
    FileCells <- MCFileCells
    Stride = 3
    PageCells = 2
    MaxPages = 3
    ChunkPages = 2
    QueueDepth = 2
    FailureIsFatal = TRUE
    MaxBatch = 2
    MaxCalls = 2
    MaxIoFaults = 1
INVARIANTS
    BoundaryIsOwn
    StoreIsExact
PROPERTIES
    CallsReturn
    WaitingProducerGoesOn
    ReadsEnd
CHECK_DEADLOCK FALSE
