SPECIFICATION Spec
CONSTANTS
    Tasks = {1}
    MaxQueue = 1
    CleansUp = FALSE
    Foreign = {}
    Malformed = {}
    MaxBoots = 1
    MaxDrops = 1
    None = None
PROPERTY FailedSendIsKept
CHECK_DEADLOCK FALSE
