SPECIFICATION DistSpec
CONSTANTS
    \* Updates
    UpdClients = {"c1"}
    HostOf <- MCHostOf
    LocalHost = "local"
    PlatformOf <- MCPlatformOf
    LastVersion = 3
    PackageChunks = 2
    MaxCached = 1
    CutLimit = 1
    \* PluginSync
    SyncClients = {"c1"}
    SyncTasks = {1, 2}
    PluginFiles = {"tool", "override"}
    Archives <- MCArchives
    EditBound = 1
    BreakBound = 1
    Absent = Absent
    NoDir = NoDir
INVARIANTS
    WholePackages
PROPERTIES
    
    PluginsConverge
