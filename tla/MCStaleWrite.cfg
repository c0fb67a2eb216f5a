SPECIFICATION Spec
CONSTANTS
    MaxRequest = 2
    QueryText <- MCQueryText
    Plans <- MCMixed
    MaxIterations = 2
    MaxRetries = 1
    MaxDrops = 0
    MaxRestarts = 0
PROPERTY StaleLoopNeverWrites
CHECK_DEADLOCK FALSE
