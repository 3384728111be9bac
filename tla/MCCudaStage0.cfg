SPECIFICATION CudaSpec
CONSTANTS
    Tokens = {0, 1}
    Eos = 0
    BlockTokens = 2
    ContextLimit = 3
    ChunkTokens = 2
    TileTokens = 1
    MaxWidth = 2
    MaxEpoch = 2
    Graphs = TRUE
    Faults = FALSE
INVARIANTS
    BanksHoldSession
    RowsAreOwn
    ReaderQuiet
    FailsOnlyByReadAhead
PROPERTIES
    ImplementsStageBackend
CHECK_DEADLOCK FALSE
