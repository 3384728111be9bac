SPECIFICATION PleSpec
CONSTANTS
    Parts <- MCTable
    FileCells <- MCFileCells
    Stride = 3
    PageCells = 2
    MaxPages = 3
    ChunkPages = 2
    QueueDepth = 2
    FailureIsFatal = FALSE
    MaxBatch = 2
    MaxCalls = 2
    MaxIoFaults = 1
INVARIANTS
    StoreIsExact
CHECK_DEADLOCK FALSE
