SPECIFICATION CudaSpec
CONSTANTS
    Tokens = {0, 1}
    Eos = 0
    BlockTokens = 2
    ContextLimit = 4
    ChunkTokens = 3
    TileTokens = 2
    MaxWidth = 2
    MaxEpoch = 2
    Graphs = TRUE
    Faults = FALSE
INVARIANTS
    ReadAheadServesChunks
CHECK_DEADLOCK FALSE
