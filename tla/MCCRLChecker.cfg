\* Safety and liveness together, so no symmetry.
SPECIFICATION FairSpec
CONSTANTS
    Threads = {t1, t2}
    Serials = {s1}
    TTL = 2
    MaxFetch = 2
    NoThread = NoThread
    NoSerial = NoSerial
    MaxOutages = 2
    MaxRestarts = 1
PROPERTIES
    RevocationEffective
    RefusedForGood
    EveryoneAnswered
