---------------------------- MODULE PolicyAdvice ----------------------------
(***************************************************************************)
(* The backend's reading of the same policy file (backend/routes/abac.py)  *)
(* beside that of ext_authz (PolicyEval), each with its own evaluation of  *)
(* a rule's constraint (PolicyConditions): /api/abac/evaluate tells a user *)
(* whether a request would be let through, and abac_enforce guards a       *)
(* handler by one named rule once more, behind the proxy.  Both see the    *)
(* token only, never the certificate.                                      *)
(***************************************************************************)
EXTENDS PolicyEval, PolicyConditions

CONSTANTS
    Requests,       \* the requests that are asked about
    Constraints,    \* the constraints of rules
    NoCondition,    \* no constraint, or one of which only the verdict is known
    Zone            \* hours the local time of ext_authz is ahead of UTC

ASSUME RequestAssumption == Requests \subseteq RequestType
ASSUME ConstraintAssumption == Constraints \subseteq Conditions /\ NoCondition \notin Conditions

VARIABLES
    request,
    conditions      \* conditions[k]: the constraint of the rule k

Verdict(c) == IF Holds(c, request, Zone) THEN "hit" ELSE "miss"

\* What ext_authz sees of a constraint is its verdict on the request.
RequestInit ==
    /\ request \in Requests
    /\ conditions \in [DOMAIN policy.rules -> Constraints \cup {NoCondition}]
    /\ \A k \in DOMAIN policy.rules :
          conditions[k] # NoCondition => policy.rules[k].constraint = Verdict(conditions[k])

AdviceInit == Init /\ RequestInit
AdviceNext == Next /\ UNCHANGED <<request, conditions>>

adviceVars == <<vars, request, conditions>>

AdviceSpec == AdviceInit /\ [][AdviceNext]_adviceVars

-----------------------------------------------------------------------------
PathMatches(r) == r.path = "hit" \/ r.prefix = "hit"
MethodMatches(r) == r.methods # "miss"

\* _match_rule: required scopes are a condition, a constraint replaces the
\* others, and a rule about the certificate always fails.
MatchRule(k) ==
    LET r == policy.rules[k]
    IN  /\ r.scopes \subseteq scopes
        /\ IF conditions[k] # NoCondition
           THEN BackendHolds(conditions[k], request)
           ELSE r.subject # "miss" /\ r.cert = "absent" /\ r.claims # "miss"

Candidates == {k \in DOMAIN policy.rules :
                 PathMatches(policy.rules[k]) /\ MethodMatches(policy.rules[k])}

\* Mutant of Advice: the first candidate decides, satisfied or not.
AdviceOfFirst ==
    IF Candidates = {} THEN policy.default = "allow"
    ELSE \E k \in Candidates : /\ \A l \in Candidates : k <= l
                               /\ MatchRule(k) /\ policy.rules[k].action # "deny"

\* evaluate(): the first satisfied candidate decides, the default if there is
\* none.  The global rule and the scopes of every request are not looked at.
Advice ==
    LET satisfied == {k \in Candidates : MatchRule(k)}
    IN  IF satisfied = {} THEN policy.default = "allow"
        ELSE \E k \in satisfied : /\ \A l \in satisfied : k <= l
                                  /\ policy.rules[k].action # "deny"

\* abac_enforce(rule_name), on a handler that names the rule k.
Enforce(k) == MatchRule(k)

-----------------------------------------------------------------------------
\* Policies of the shape of config/authz-policy.yaml: no global rule, and rules
\* that allow a path prefix under scopes and a portable constraint.
Deployed ==
    /\ policy.global = NoRule
    /\ \A k \in DOMAIN policy.rules :
        LET r == policy.rules[k]
        IN  /\ r.action = "allow" /\ r.path = "absent" /\ r.prefix # "absent"
            /\ r.subject = "absent" /\ r.cert = "absent" /\ r.claims = "absent"
            /\ IF conditions[k] = NoCondition THEN r.constraint = "absent"
               ELSE Portable(conditions[k])
    /\ Plain(request)

\* The advice is never too dark: on a deployed policy a request that ext_authz
\* lets through is one that /api/abac/evaluate calls allowed, where ext_authz
\* runs in the backend's time zone (evaluate, evaluateCondition).
GrantedAsAdvised == Deployed /\ Zone = LocalZone /\ pc = "allow" => Advice

\* The two points of enforcement agree on a deployed policy in one time zone:
\* where one rule concerns a request that carries the scopes of every request,
\* and no limit is exceeded, ext_authz lets it through just when the guard of
\* that rule does (abac_enforce, _evaluate_constraint_detailed).
GuardsAgree ==
    \A k \in Matching :
        /\ Deployed /\ Zone = LocalZone
        /\ Matching = {k} /\ BaseScopes \subseteq scopes
        /\ pc \in Ends \ {"refused by rate"}
        => (pc = "allow" <=> Enforce(k))

-----------------------------------------------------------------------------
\* "Environment attributes evaluated at request time - timezone:
\* Asia/Ho_Chi_Minh (UTC+7)": who is let through by a rule satisfies its
\* constraint by the time in that zone.
AnnouncedHours ==
    \A k \in Holding :
        pc = "allow" /\ Deployed /\ FirstHolding(k) /\ conditions[k] # NoCondition
          => Holds(conditions[k], request, LocalZone)
=============================================================================
