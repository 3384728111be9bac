SPECIFICATION DualFairSpec
CONSTANTS
    MaxU64 = 3
    MaxCount = 2
    Vocab = {0, 1}
    StopTokens = {1}
    ContextLimit = 3
    ChunkTokens = 1
    MaxWidth = 1
    FatalFailures = FALSE
    Faults = TRUE
    PleStage0 = FALSE
    NoToken = NoToken
    Predict <- MCPredict
INVARIANTS
    StagesAgreeWhenIdle
PROPERTIES
    ImplementsTokenSession
    EveryRequestAnswered
