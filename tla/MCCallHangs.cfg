SPECIFICATION FairSpec
CONSTANTS
    Sends = {"io"}
    Calls = {}
    Streams = {"chat"}
    MaxConn = 2
    QueueCap = 1
    PushCap = 1
    MaxPush = 1
    MaxBuffer = 1
    MaxReplies = 2
PROPERTIES
    CallsNeverHang
CHECK_DEADLOCK FALSE
