SPECIFICATION Spec

CONSTANTS
    d = d
    s = s
    d1 = d1
    d2 = d2
    s1 = s1
    Names = {d, s}
    Conns = {d1, d2, s1}
    NoConn = NoConn
    NameOf <- NameOfConn
    Workers = {w1, w2}
    Cap = 1
    MaxJobs = 2
    Senders = {s1}
    Targets <- ToDisplayOrGroup
    Stalled = {}
    Flaky = {d2}
    MayStop = FALSE

INVARIANTS
    TypeOK
    FreshTarget
    LostForAReason

