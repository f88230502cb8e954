SPECIFICATION Spec
CONSTANTS
    Procs = {"p", "q"}
    Callers = {"p", "q", "r"}
    MapKeys = {1, 2}
    MaxOps = 5
    Elements = {1, 2}
    ArgLists <- MCArgLists
    MaxCalls = 3
    MaxCheckers = 3
    MaxTime = 3
    Retentions = {1, 3}
    DefaultMetricsRetention = 2
    Totals = {0, 1, 3}
    TaskLists = {2, 4}
    Parallels = {0, 2, 3}
    N = 3
    MaxFetches = 3
    OptionLists <- MCOptions
    Deadlines <- MCDeadlines
    Channels = {"c1", "c2", ""}
    NoName = ""
    SubName = "s"
    OwnName = "own"
    BatchKeys = {1, 2, 3, 4}
    Limits = {1, 2, 3}
    ViewPaths <- MCPaths
    ViewGroups <- MCGroups
    ViewValues = {"v1", "v2"}
    EventKeys <- MCEventKeys
    EventPrefixes <- MCPrefixes
    Handlers = {"h1", "h2"}
    MaxRegistered = 2
INVARIANTS GoroutinesSound FailuresContained ParametersSound KeysConsistent RowsConsistent
    MessagesConsistent ReportsSound
PROPERTY CallsReturn
CHECK_DEADLOCK FALSE
