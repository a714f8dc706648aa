SPECIFICATION Spec
CONSTANTS
    Tasks = {1}
    MaxQueue = 1
    CleansUp = FALSE
    Foreign = {}
    Malformed = {}
    MaxBoots = 1
    MaxDrops = 0
    None = None
PROPERTY ExecutedOnce
CHECK_DEADLOCK FALSE
