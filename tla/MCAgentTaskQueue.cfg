SPECIFICATION FairSpec
CONSTANTS
    Tasks = {1, 2}
    Workers = {w1, w2, w3}
    Priority <- MCPriority
    MaxSize = 2
    RecoveryEnabled = TRUE
    MaxBoots = 2
    None = None
INVARIANTS
    TypeOK
    SingleExecution
    CancelledRunIsOut
    NoTaskLost
    CompletedTaskHasCompletedRun
    WorkersLostOnlyByCancel
    BlockedOnlyByDoubledTask
PROPERTIES
    FinishedOnce
    QueuedIsDecided
CHECK_DEADLOCK FALSE
