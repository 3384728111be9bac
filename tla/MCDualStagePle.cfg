SPECIFICATION DualSpec
CONSTANTS
    MaxU64 = 5
    MaxCount = 2
    Vocab = {0, 1}
    StopTokens = {1}
    ContextLimit = 5
    ChunkTokens = 1
    MaxWidth = 2
    FatalFailures = FALSE
    Faults = FALSE
    PleStage0 = TRUE
    NoToken = NoToken
    Predict <- MCPredict
INVARIANTS
    HealthyWithoutFaults
