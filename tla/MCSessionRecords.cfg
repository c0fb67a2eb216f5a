SPECIFICATION Spec
CONSTANTS
    MaxConn = 2
    MaxTasks = 2
    MaxIo = 1
    MaxCommands = 2
    MaxRestarts = 1
INVARIANTS
    TypeOK
    RangesWithinStream
    RangesDisjoint
PROPERTIES
    HistoryKept
