SPECIFICATION FairSpec
CONSTANTS
    Keys <- MCKeys
    formatKey <- MCFormat
    Values <- MCValues
    Sources = {"EnvironmentSource", "FileSource"}
    Contents <- MCContents
    Initially <- AnyContents
    Changing = {"FileSource"}
    MayFail = TRUE
    EarlyTick = FALSE
    WatchRaces = FALSE
    RuntimeCalls = {}
INVARIANTS WatcherCurrent NeverMissing
PROPERTIES Refreshed CloseReturns
CHECK_DEADLOCK FALSE
