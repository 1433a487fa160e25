SPECIFICATION MCSpec
CONSTANTS
    Threads = {t1, t2, t3}
    Keys = {k1, k2}
    InitialKey = initial
    NoKey = NoKey
    MaxFaults = 2
    Workers = {w1, w2, w3}
    Users = {u1, u2}
    MaxAccidents = 2
INVARIANTS
    TokenExplained
    AnswersTruthful
    RolelessExplained
PROPERTIES
    ServedByProxy
