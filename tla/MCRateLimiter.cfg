SPECIFICATION Spec
CONSTANTS
    Threads = {t1, t2, t3}
    Keys = {c1}
    MaxRequests = 2
    Window = 4
    MaxLag = 2
    NoCall = NoCall
    NoBucket = NoBucket
    MaxTime = 9
SYMMETRY Symmetry
INVARIANTS
    BurstBounded
PROPERTIES
    RefusalJustified
