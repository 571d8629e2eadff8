SPECIFICATION Spec

CONSTANTS
    a = a
    b = b
    c = c
    Names = {a, b, c}
    Senders = {c}
    Hole = Hole
    Garbled = Garbled
    MaxLen = 4

SYMMETRY OthersAlike

INVARIANTS
    TypeOK
    ExactFanOut
    OnlyMembers

PROPERTY
    ImplementsMembership
