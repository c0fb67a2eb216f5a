SPECIFICATION FairSpec
CONSTANTS
    MaxRequest = 2
    QueryText <- MCQueryText
    Plans <- MCClient
    MaxIterations = 1
    MaxRetries = 1
    MaxDrops = 1
    MaxRestarts = 1
INVARIANT ModelSeesNoOrphan
PROPERTIES
    NothingForgotten
    EveryTurnEnds
CHECK_DEADLOCK FALSE
