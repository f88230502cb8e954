SPECIFICATION Spec
CONSTANTS
    Procs = {"p", "q"}
    Names <- TwinNames
    MaxPartitions = 2
    Keys = {}
    hash = 0
INVARIANT OrderStatic
CHECK_DEADLOCK FALSE
