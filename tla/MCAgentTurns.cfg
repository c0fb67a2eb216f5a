SPECIFICATION Spec
CONSTANTS
    MaxRequest = 2
    QueryText <- MCQueryText
    Plans <- MCPlans
    MaxIterations = 2
    MaxRetries = 0
    MaxDrops = 0
    MaxRestarts = 0
INVARIANTS
    ModelSeesValidThread
    OwnerKnowsThread
    ModelCallsBounded
    NoFlagLeak
    OneCurrentTurn
CHECK_DEADLOCK FALSE
