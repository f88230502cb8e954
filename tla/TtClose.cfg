SPECIFICATION StreamFairSpec
CONSTANTS
    Channels = {"a", "b"}
    Topics <- MCFewTopics
    ReceiveBufSize = 1
    EnablePursuitMode = TRUE
    PursuitBufferSize = 1
    IgnoreBadPosition = TRUE
    EarlyChan = TRUE
    AllowClose = TRUE
    MaxCrashes = 0
INVARIANTS NoSendOnClosed PositionsSet
PROPERTY CloseReturns
