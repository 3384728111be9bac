SPECIFICATION PartsSpec
CONSTANTS
    MaxU64 = 4
    MaxCount = 2
    Clients = {c1, c2}
    MaxId = 3
    CacheCap = 2
    HasJournal = TRUE
    None = None
    MaxLen = 2
    Sessions <- MCSessions
    MaxRecords = 2
    MaxStarts = 3
    SVocab = {0, 1, 2}
    Logit <- MCLogit
    NegInf <- MCNegInf
    TopK = 2
    TopP = 3
    TopPOne = 4
    Presence = 1
    Frequency = 1
    Repetition = 2
    Uniform <- MCUniform
    UniformOne = 8
    MaxSession = 4
    RExperts = 8
    RTopK = 3
    RThreads = 2
    RLogits = {0, 1, 3}
    RRows <- MCRows
    Expf <- MCExpf
    MExperts = 3
    MTopK = 2
    MmqM = 2
    KTiles = 2
    MaxMoeTokens = 3
    GdnWidth = 2
    ConvWidth = 2
    GdnPrime = 11
    Projected <- MCProjected
    MaxGdnTokens = 3
    MaxLaunch = 2
    QBlockTokens = 2
    QBudget = 2
    Radix = 2
    Digits = 2
    QWarps = 2
    QTokens = {1, 2}
    Affinity <- MCAffinity
    QContext = 6
    QSlab = 3
    AttnHeads = 2
    AttnWarps = 2
    KeyTile = 2
    ValueTile = 2
    AttnDot <- MCAttnDot
    MaxAttended = 5
    MaxAttnCalls = 2
SYMMETRY ClientSymmetry
INVARIANTS
    EngineInv
    FrontiersStayValid
    DecidedTxnCommits
    AtMostOnce
    LastAnswerReplayable
    NoReplayAcrossReset
    CancelIsHonest
    PublishedIsCurrent
    JournalHolds
    SamplerFollowsSession
    RouterIsTopK
    PlanFailsClosed
    ExpertsAreOwn
    GdnIsRecurrence
    SelectionIsTop
    AttentionIsSoftmax
PROPERTIES
    AckedExtentFrozen
    EpochsAreFresh
    ImplementsSessionLog
    RecoveryIsExact
CHECK_DEADLOCK FALSE
