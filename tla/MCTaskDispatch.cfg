SPECIFICATION FairSpec
CONSTANTS
    x1 = x1
    x2 = x2
    Services = {x1, x2}
    Facts <- MCFacts
    Models = {"m"}
    Kinds = {"audio", "image"}
    Audio = "audio"
    None = None
    Tasks = {1}
    Request <- MCRequest
    Total = 2
    MaxDrops = 1
INVARIANTS
    TypeOK
    NeverSilentlyUnfinished
    CompletedHasFiles
    CancelIsSignalled
    ToolMissesOnlyTheEarly
PROPERTY EveryTaskSettles
CHECK_DEADLOCK FALSE
