SPECIFICATION Cuda1Spec
CONSTANTS
    Tokens = {a, b}
    BlockTokens = 2
    ContextLimit = 6
    ChunkTokens = 3
    TileTokens = 1
    AppendSizes = {1, 5}
    MaxWidth = 2
    MaxEpoch = 3
SYMMETRY TokenSymmetry
INVARIANTS
    DraftStateFollowsTarget
    AnswerIsOwn
    StageOneAccepts
