SPECIFICATION Spec
CONSTANTS
    Jtis = {j1, j2, j3}
    Threads = {t1, t2}
    NoJti = NoJti
    TTL = 2
    MaxEntries = 2
    MaxTime = 4
    MaxFaults = 0
    MaxRestarts = 0
SYMMETRY Symmetry
PROPERTIES
    ReplayRejected
