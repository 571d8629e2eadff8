SPECIFICATION FairSpec

CONSTANTS
    MaxStale = 2
    MaxEvents = 2

INVARIANT
    HandOverSafe

PROPERTIES
    NTPReturns
    StopEnds
