\* Whole lives of a session, with a lost connection and a daemon restart.
SPECIFICATION FairSpec
CONSTANTS
    MaxConn = 2
    MaxTasks = 2
    MaxIo = 1
    MaxCommands = 0
    MaxRestarts = 1
INVARIANTS
    LoadedDirExists
    BoundToItsClient
PROPERTIES
    AbandonedSessionEnds
    WritersReleased
