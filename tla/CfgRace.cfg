SPECIFICATION Spec
CONSTANTS
    Keys <- MCKeys
    formatKey <- MCFormat
    Values <- MCValues
    Sources = {"FileSource", "EtcdSource"}
    Contents <- MCContents
    Initially <- AnyContents
    Changing = {"FileSource", "EtcdSource"}
    MayFail = FALSE
    EarlyTick = FALSE
    WatchRaces = FALSE
    RuntimeCalls = {}
INVARIANT Resolved
CHECK_DEADLOCK FALSE
