SPECIFICATION RouterSpec
CONSTANTS
    RExperts = 4
    RTopK = 2
    RThreads = 2
    RLogits = {0, 1, 3}
    RRows <- MCRows
    Expf <- MCExpf
INVARIANTS
    MatchesReference
CHECK_DEADLOCK FALSE
