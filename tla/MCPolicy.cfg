\* ext_authz in the time zone of the backend, as infrastructure/k8s sets it.
SPECIFICATION MCSpec
CONSTANTS
    RuleSet <- MCAllRules
    GlobalSet <- MCGlobals
    NoRule = NoRule
    Scopes <- MCScopes
    BaseScopes <- MCBase
    Limits <- MCLimits
    MaxRules = 3
    Claims <- MCClaims
    LowerCase <- MCClaims
    Lower <- MCLower
    PartOf <- MCPartOf
    Requests <- MCAllRequests
    Depth <- MCDepth
    Constraints <- MCConstraints
    NoCondition = NoCondition
    Certs <- MCCerts
    TrustedCerts <- MCTrusted
    Keys <- MCKeys
    Tokens <- MCTokens
    Wires <- MCWires
    None = None
    Zone = 7
INVARIANTS
    EvaluateCorrect
    AllowedHoldsScopes
    ScopesAskedAreDemanded
    GlobalLimitKept
    GrantedAsAdvised
    GuardsAgree
    BindingProved
    OwnerAdmitted
    SameToken
    TwinsAgree
    ToldToLogIn
