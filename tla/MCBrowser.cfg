SPECIFICATION FairSpec

CONSTANT
    MaxGens = 2

INVARIANT
    HarmlessWhileAlive

PROPERTIES
    GoneForGood
    LostForGood
    CallsReturn
