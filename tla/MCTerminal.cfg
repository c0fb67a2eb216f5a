CONSTANTS
    Presses <- MCPresses
    Texts <- MCTexts
    Settings <- MCSettings
    KeyLimit = 2
    EventLimit = 1
    MaxRequests = 2
SPECIFICATION FairSpec
INVARIANTS
    KeysInOrder
    GhostFollowsLine
PROPERTIES
    AnswersSettle
CHECK_DEADLOCK FALSE
