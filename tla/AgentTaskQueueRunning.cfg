SPECIFICATION Spec
CONSTANTS
    Tasks = {1, 2}
    Workers = {w1, w2}
    Priority <- MCPriority
    MaxSize = 2
    RecoveryEnabled = FALSE
    MaxBoots = 1
    None = None
INVARIANT RunningHasWorkers
CHECK_DEADLOCK FALSE
