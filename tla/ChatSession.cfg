SPECIFICATION FairSpec
CONSTANTS
    MaxTurns = 2
    MaxRuns = 2
    Blocks = 1
    MaxFaults = 1
INVARIANTS
    TypeOK
    ReadyOrServed
    RepliedOnce
    TranscriptReachesItsTurn
    QuietAfterTheRun
PROPERTIES
    OwnOutcome
    EveryTurnEnds
CHECK_DEADLOCK FALSE
