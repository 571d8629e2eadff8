SPECIFICATION Spec

CONSTANTS
    n1 = n1
    n2 = n2
    c1 = c1
    c2 = c2
    c3 = c3
    c4 = c4
    Names = {n1, n2}
    Conns = {c1, c2, c3, c4}
    NoConn = NoConn
    NameOf <- MCNameOf

INVARIANT
    AlreadyClosed
