\* cmd/server/main.go: the comment of Check on token replay.
SPECIFICATION Spec
CONSTANTS
    Threads = {t1, t2}
    Tokens = {k1}
    DPoPTokens = {}
    Proofs = {}
    NoToken = NoToken
    NoProof = NoProof
    NoCall = NoCall
    MarksTokens = FALSE
    NonceEnabled = FALSE
    NonceTTL = 1
    ProofTTL = 3
    ProofMax = 2
    TokenTTL = 9
    TokenMax = 1
    MaxAge = 1
    Skew = 1
    MaxDelay = 1
    Drift = 1
    MaxNonces = 1
    MaxTime = 1
SYMMETRY Symmetry
PROPERTIES
    TokenAllowedOnce
