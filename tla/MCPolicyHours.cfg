\* ext_authz in UTC, as infrastructure/docker leaves it.
SPECIFICATION MCSpec
CONSTANTS
    RuleSet <- MCAllRules
    GlobalSet <- MCGlobals
    NoRule = NoRule
    Scopes <- MCScopes
    BaseScopes <- MCBase
    Limits <- MCLimits
    MaxRules = 2
    Claims <- MCClaims
    LowerCase <- MCClaims
    Lower <- MCLower
    PartOf <- MCPartOf
    Requests <- MCAllRequests
    Depth <- MCDepth
    Constraints <- MCConstraints
    NoCondition = NoCondition
    Certs <- MCCerts
    TrustedCerts <- MCTrusted
    Keys <- MCKeys
    Tokens <- MCTokens
    Wires <- MCWires
    None = None
    Zone = 0
INVARIANTS
    AnnouncedHours
