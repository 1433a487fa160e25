\* Safety and liveness together, so no symmetry.
SPECIFICATION MCSpec
CONSTANTS
    Kids = {k1, k2}
    Threads = {t1}
    Loop = loop
    TTLs = {2}
    MinTTL = 1
    MaxFetch = 2
    InitialKids = {k1}
    Horizon = 7
    MaxChanges = 2
    MaxOutages = 1
    CacheTTL = 3
    RequestTimeout = 1
    IssuerKnown = FALSE
INVARIANTS
    StalenessBounded
PROPERTIES
    SettledKeyKept
    SettledKeyFound
    RetiredKeyRefused
    SettledKeyAccepted
    CacheConverges
