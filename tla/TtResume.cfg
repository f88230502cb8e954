SPECIFICATION Spec
CONSTANTS
    Channels = {"a", "b"}
    Topics <- MCTopics
    ReceiveBufSize = 1
    EnablePursuitMode = TRUE
    PursuitBufferSize = 1
    IgnoreBadPosition = FALSE
    EarlyChan = FALSE
    AllowClose = FALSE
    MaxCrashes = 2
INVARIANTS TypeOK ReaderInv StreamInv PackContents PackChain ResumeExact AppliedExact
PROPERTIES NoRedelivery Implements
CHECK_DEADLOCK FALSE
