SPECIFICATION Spec
CONSTANTS
    Keys <- MCKeys
    formatKey <- MCFormat
    Values = {"true"}
    Sources = {"EnvironmentSource", "FileSource", "EtcdSource"}
    Contents <- MCContents
    Initially <- EnvHolds
    Changing = {"EtcdSource"}
    MayFail = FALSE
    EarlyTick = FALSE
    WatchRaces = FALSE
    RuntimeCalls = {"SetConfig", "SetMapConfig", "DeleteConfig", "ResetConfig", "ForbidUpdate"}
INVARIANTS TypeOK Resolved
CHECK_DEADLOCK FALSE
