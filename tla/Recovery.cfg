SPECIFICATION Spec
CONSTANTS
    Channels = {"a"}
    Payloads <- SomePayloads
    collectionID = 1
    collectionName = "x"
    TargetID = 2
    TsPerSec = 3
    MaxTs = 6
    MaxData = 3
    MaxFails = 1
INVARIANTS RecoveryInv Replayed NoEcho
PROPERTIES Terminates TakesWindows
CHECK_DEADLOCK FALSE
