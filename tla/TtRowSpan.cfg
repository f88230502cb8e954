SPECIFICATION Spec
CONSTANTS
    Channels = {"a", "b"}
    Topics <- MCSpanTopics
    ReceiveBufSize = 1
    EnablePursuitMode = TRUE
    PursuitBufferSize = 1
    IgnoreBadPosition = FALSE
    EarlyChan = FALSE
    AllowClose = FALSE
    MaxCrashes = 0
INVARIANT ResumeExact
CHECK_DEADLOCK FALSE
