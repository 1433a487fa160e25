SPECIFICATION Spec
CONSTANTS
    Jtis = {j1, j2}
    Threads = {t1, t2}
    NoJti = NoJti
    TTL = 2
    MaxEntries = 1
    MaxTime = 3
    MaxFaults = 2
    MaxRestarts = 1
SYMMETRY Symmetry
INVARIANTS
    IndexBounded
PROPERTIES
    OncePerStore
    RefusedForCause
    ReplayNeedsOverflow
    FallbackIsLedger
