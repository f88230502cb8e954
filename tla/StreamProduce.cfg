SPECIFICATION FairSpec
CONSTANTS
    Channels = {"a", "b"}
    Callers = {"p", "q"}
    Scenarios <- MCScenarios
    OldLog <- MCOldLog
    ReceiveBufSize = 1
    MaxFails = 1
    MaxSwitches = 1
    MaxProducers = 2
INVARIANTS KeyOrder BroadcastInv ReceiveInv
PROPERTY CloseReturns
CHECK_DEADLOCK FALSE
