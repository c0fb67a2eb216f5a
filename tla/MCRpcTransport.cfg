SPECIFICATION FairSpec
CONSTANTS
    Sends = {"io"}
    Calls = {}
    Streams = {"chat"}
    MaxConn = 2
    QueueCap = 1
    PushCap = 1
    MaxPush = 1
    MaxBuffer = 1
    MaxReplies = 2
INVARIANTS
    HandledOnce
    RegisteredFirst
PROPERTIES
    CallsEnd
    ConnectionRestored
CHECK_DEADLOCK FALSE
