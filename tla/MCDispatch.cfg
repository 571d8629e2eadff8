SPECIFICATION FairSpec

CONSTANTS
    Workers = {w1, w2}
    Handlers = {h1, h2}
    Cap = 2
    MaxFan = 2
    MaxJobs = 4
    Unread = {2, 3}

INVARIANTS
    TypeOK
    ExactlyOnce
    BoundedReordering

PROPERTIES
    DrainedAtReturn
    CleanStop
    Served
    StopReturns
