\* server.go, whose tokens are recorded by their jti: the life of a proof against
\* its entry, without nonces; or main.go with nonces, as MCAuthzPrograms sets them.
SPECIFICATION MCSpec
CONSTANTS
    Threads = {t1, t2}
    Tokens = {k1, k2}
    DPoPTokens = {k1}
    Proofs = {p1, p2}
    NoToken = NoToken
    NoProof = NoProof
    NoCall = NoCall
    MarksTokens = TRUE
    NonceEnabled = FALSE
    NonceTTL = 1
    ProofTTL = 2
    ProofMax = 1
    TokenTTL = 9
    TokenMax = 1
    MaxAge = 0
    Skew = 1
    MaxDelay = 1
    Drift = 1
    MaxNonces = 3
    MaxTime = 3
SYMMETRY Symmetry
INVARIANTS
    TokenSpentOnlyByAllow
    NonceUsesBounded
    UsedNonceRetired
PROPERTIES
    ProofUsedOnce
    TokenAllowedOnce
