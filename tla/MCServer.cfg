SPECIFICATION FairSpec

CONSTANTS
    Echoes = {e1, e2}
    Displays = {d1}
    Workers = {w1}
    Stalled = {d1}
    NoConn = NoConn
    MaxJobs = 1

INVARIANT
    ListExact

PROPERTIES
    StopReturns
    GoodbyeHeard
