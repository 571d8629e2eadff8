SPECIFICATION PumpsFairSpec

CONSTANTS
    Sockets = {s1, s2}
    NoSocket = NoSocket
    Callers = {p1, p2}
    Cap = 1
    MaxSent = 2

INVARIANT
    InOrder

PROPERTIES
    Settled
    Unregistered
    Flows
