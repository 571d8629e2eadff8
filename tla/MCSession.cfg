SPECIFICATION Spec

CONSTANTS
    d = d
    e = e
    d1 = d1
    d2 = d2
    e1 = e1
    Names = {d, e}
    Conns = {d1, d2, e1}
    NoConn = NoConn
    NameOf <- TwoDisplays
    Group = d
    Ports = {p1, p2}
    MaxEvents = 3
    MaxQueries = 2

SYMMETRY Alike

INVARIANTS
    GroupReached
    
    AnswerFits
