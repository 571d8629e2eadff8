SPECIFICATION FairSpec

CONSTANTS
    d = d
    s = s
    d1 = d1
    d2 = d2
    s1 = s1
    Names = {d}
    Conns = {d1, d2}
    NoConn = NoConn
    NameOf <- AllDisplay
    Workers = {w1}
    Cap = 1
    MaxJobs = 3
    Senders = {d1}
    Targets <- ToDisplay
    Stalled = {d1, d2}
    Flaky = {}
    MayStop = TRUE

PROPERTIES
    Freed
    DisplacedEnds
