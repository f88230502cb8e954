SPECIFICATION FairSpec
CONSTANTS
    Channels = {"a", "b"}
    Topics <- MCFewTopics
    ReceiveBufSize = 1
    EnablePursuitMode = FALSE
    PursuitBufferSize = 1
    IgnoreBadPosition = FALSE
    EarlyChan = FALSE
    AllowClose = FALSE
    MaxCrashes = 1
PROPERTY TicksDelivered
CHECK_DEADLOCK FALSE
