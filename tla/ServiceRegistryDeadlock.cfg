SPECIFICATION Spec
CONSTANTS
    Services = {x1, x2}
    Sockets = {s1, s2}
    Requests = {c1}
    None = None
INVARIANT NoSelfDeadlock
