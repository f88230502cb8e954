SPECIFICATION FairSpec
CONSTANTS
    MaxMsgs = 3
    MsgChannelSize = 1
    ReceiverQueueSize = 1
    Attempts = 2
    MaxRestarts = 1
    SeekAfterChan = FALSE
INVARIANTS ConsumerInv
PROPERTIES IsCursor Delivered CloseReleases
CHECK_DEADLOCK FALSE
