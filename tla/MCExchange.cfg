SPECIFICATION ExchangeSpec
CONSTANTS
    \* Tracker
    TextOf <- MCText
    Directory <- MCDir
    LineLimit = 2
    OutputLimit = 1
    UpdateLimit = 1
    AheadLimit = 0
    \* ChatInput
    SlashCommands <- MCSlash
    FoldLines = 2
    MaxText = 2
    MaxPastes = 2
    MaxInputs = 1
    HistorySize = 1
    \* Widgets
    MaxVisible = 2
    MaxItems = 4
    Height = 3
    Columns = 2
    Widths = {0, 2, 3, 7}
    MaxLines = 3
    \* Context
    CtxSessions = {s1, s2}
    DirOf <- MCDirOf
    CtxLines = {"ls"}
    NoLine = "none"
    DetailedCommands = 2
    HistoryCommands = 2
    MinCurrent = 1
    DetailedMin = 1
    DetailedMax = 2
    CwdHistoryLimit = 1
    SectionsLimit = NoLimit
    NoLimit = NoLimit
    MaxRecords = 3
    MaxWarmups = 2
    OutLengths = {1}
    \* Tools
    ToolCalls = {"c1", "c2"}
    Turns <- MCTurns
    Matches <- MCMatches
    PipeSize = 3
    MaxOutput = 2
    SnippetContext = 1
    HasBwrap = FALSE
    HasLandlock = TRUE
    SandboxSettings <- MCSandbox
    \* Llm
    BackendType <- MCTypes
    MaxRetries = 1
    LoopRetries = 1
    MaxThread = 4
    \* Notes
    DayHours = 2
    Window = 1
    UtcOffset = 0
    LastHour = 4
    \* MCConversation
    ToolIds = {t1, t2}
    Queries = {q1, q2}
    MaxLen = 6
INVARIANTS
    
    EditorFaithful
    WidgetsFaithful
    
    
    
    
    
    
CHECK_DEADLOCK FALSE
