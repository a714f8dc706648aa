SPECIFICATION FairSpec
CONSTANTS
    Services = {x1, x2}
    Sockets = {s1, s2}
    Requests = {c1}
    None = None
INVARIANTS
    TypeOK
    MapsAreInverse
    RegisteredIsHandled
    RunningRowIsServed
PROPERTIES
    OnlyOwnEndUnregisters
    HandlersProgress
