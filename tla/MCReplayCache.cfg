SPECIFICATION Spec
CONSTANTS
    Threads = {t1, t2}
    Jtis = {j1, j2, j3}
    TTL = 2
    MaxEntries = 2
    NoCall = NoCall
    MaxTime = 5
SYMMETRY Symmetry
INVARIANTS
    EvictionNeedsFlood
PROPERTIES
    ReplayWindow
    BoundedRejection
    ImplementsLedger
