SPECIFICATION DaemonSpec
CONSTANTS
    \* ChatThreads
    Sessions = {s1, s2}
    Threads = {t1, t2}
    Nobody = Nobody
    Stored = {t1}
    Fuel = 2
    Events = 1
    ListLimit = 1
    \* ConfigSync
    Watched = {"llm", "client"}
    Clients = {"c1"}
    Settings = {"language", "theme"}
    Backends = {"b1"}
    EditOps = {"set", "add_backend", "delete_backend", "local", "editor"}
    EditLimit = 3
    ConnectLimit = 1
    \* Plugins
    PluginCount = 2
    ToolsOf <- MCToolsOf
    BuiltinTools = {"bash"}
    ChangeLimit = 3
INVARIANTS
    WriterHoldsClaim
    FileHasMemory
    
    RegistrySound
PROPERTIES
    ImplementsLocks
CHECK_DEADLOCK FALSE
