SPECIFICATION FairSpec
CONSTANTS
    Tasks = {1, 2}
    MaxQueue = 1
    CleansUp = TRUE
    Foreign = {2}
    Malformed = {}
    MaxBoots = 2
    MaxDrops = 1
    None = None
INVARIANTS
    TypeOK
    AcceptedIsHeld
    KeptIsOnDisk
PROPERTIES
    CancelledNeverStarts
    AcceptedIsDecided
    KeptIsFlushed
CHECK_DEADLOCK FALSE
