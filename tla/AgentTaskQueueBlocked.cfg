SPECIFICATION Spec
CONSTANTS
    Tasks = {1, 2}
    Workers = {w1, w2}
    Priority <- MCPriority
    MaxSize = 2
    RecoveryEnabled = TRUE
    MaxBoots = 1
    None = None
INVARIANT WorkersNeverBlockTheLoop
CHECK_DEADLOCK FALSE
