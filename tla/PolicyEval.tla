----------------------------- MODULE PolicyEval -----------------------------
(***************************************************************************)
(* The policy stage of Check: PolicyConfig.Evaluate (internal/auth/        *)
(* policy.go) walks the global rule and the rules of the YAML policy, then *)
(* Check asks for the scopes and the rate limit of the decision            *)
(* (cmd/server/main.go).  A rule is what Evaluate sees of it for the       *)
(* request at hand: each part of its match and of its conditions is absent,*)
(* fits the request, or does not.                                          *)
(***************************************************************************)
EXTENDS Integers, Sequences, SequencesExt

CONSTANTS
    RuleSet,        \* the rules a policy is made of
    GlobalSet,      \* the global rules, NoRule among them if it may be absent
    NoRule,
    Scopes,
    BaseScopes,     \* REQUIRED_SCOPES, required of every request
    Limits,         \* rate limits a rule may set
    MaxRules        \* bound on the length of a policy

Parts == {"absent", "hit", "miss"}
Defaults == {"allow", "deny"}
Actions == {"", "allow", "deny"}

\* rate_limit: no block, a disabled one, or a limit.
NoBlock == "no block"
NoLimit == "no limit"

RuleType ==
    [path : Parts, prefix : Parts, methods : Parts,
     subject : Parts, cert : Parts, claims : Parts, constraint : Parts,
     action : Actions, scopes : SUBSET Scopes, limit : Limits \cup {NoBlock, NoLimit}]

ASSUME RuleAssumption ==
    /\ RuleSet \subseteq RuleType /\ GlobalSet \subseteq RuleType \cup {NoRule}
    /\ NoRule \notin RuleType
ASSUME ScopeAssumption == BaseScopes \subseteq Scopes
ASSUME LimitAssumption == NoBlock \notin Limits /\ NoLimit \notin Limits
ASSUME MaxRulesAssumption == MaxRules \in Nat

Decisions == [allowed : BOOLEAN, scopes : SUBSET Scopes, limit : Limits \cup {NoLimit}]

VARIABLES
    policy,         \* the policy: default_action, global, rules
    scopes,         \* the scopes of the request's token
    pc,             \* "global", "rules", "scopes", "rate", or the end of the call
    i,              \* the next rule
    decision,       \* decision with requiredScopes
    fallback        \* a matching rule failed: fallbackDecision # nil

vars == <<policy, scopes, pc, i, decision, fallback>>

Ends == {"allow", "refused by policy", "refused by scopes", "refused by rate"}

TypeOK ==
    /\ policy \in [default : Defaults, global : GlobalSet, rules : Seq(RuleSet)]
    /\ scopes \subseteq Scopes
    /\ pc \in {"global", "rules", "scopes", "rate"} \cup Ends
    /\ i \in 1..Len(policy.rules) + 1
    /\ decision \in Decisions
    /\ fallback \in BOOLEAN

Start == [allowed |-> TRUE, scopes |-> {}, limit |-> NoLimit]

Init ==
    /\ policy \in [default : Defaults, global : GlobalSet,
                   rules : BoundedSeq(RuleSet, MaxRules)]
    /\ scopes \in SUBSET Scopes
    /\ pc = "global" /\ i = 1
    /\ decision = Start
    /\ fallback = FALSE

\* policyRuleMatches
Matches(r) == r.path # "miss" /\ r.prefix # "miss" /\ r.methods # "miss"

\* policyRuleSatisfied.  Required scopes are no condition.
Satisfied(r) ==
    /\ r.subject # "miss" /\ r.cert # "miss" /\ r.claims # "miss"
    /\ r.constraint # "miss"

ActionOf(r) == IF r.action = "" THEN policy.default ELSE r.action

\* Mutant of Applied: the rule's decision is made from nothing.
AppliedAlone(r) ==
    [allowed |-> TRUE, scopes |-> r.scopes,
     limit |-> IF r.limit = NoBlock THEN NoLimit ELSE r.limit]

\* What a satisfied rule adds to the decision: its scopes, and its rate limit
\* in place of the one before it.
Applied(r) ==
    [allowed |-> TRUE, scopes |-> decision.scopes \cup r.scopes,
     limit |-> IF r.limit = NoBlock THEN decision.limit ELSE r.limit]

\* A refusal; what else the code leaves in one is never read.
Refused == [allowed |-> FALSE, scopes |-> {}, limit |-> NoLimit]

-----------------------------------------------------------------------------
(* Evaluate: the global rule, under the default action.                    *)

GlobalPasses ==
    /\ pc = "global"
    /\ policy.global # NoRule
    /\ Satisfied(policy.global) /\ policy.default # "deny"
    /\ decision' = Applied(policy.global)
    /\ pc' = "rules"
    /\ UNCHANGED <<policy, scopes, i, fallback>>

GlobalRefuses ==
    /\ pc = "global"
    /\ policy.global # NoRule
    /\ ~Satisfied(policy.global) \/ policy.default = "deny"
    /\ decision' = Refused
    /\ pc' = "refused by policy"
    /\ UNCHANGED <<policy, scopes, i, fallback>>

NoGlobal ==
    /\ pc = "global"
    /\ policy.global = NoRule
    /\ pc' = "rules"
    /\ UNCHANGED <<policy, scopes, i, decision, fallback>>

(* Evaluate: the rules, in order.                                          *)

Rule == policy.rules[i]
AtRule == pc = "rules" /\ i <= Len(policy.rules)

NoMatch ==
    /\ AtRule /\ ~Matches(Rule)
    /\ i' = i + 1
    /\ UNCHANGED <<policy, scopes, pc, decision, fallback>>

\* The first satisfied rule that does not deny decides.
Allows ==
    /\ AtRule /\ Matches(Rule) /\ Satisfied(Rule) /\ ActionOf(Rule) # "deny"
    /\ decision' = Applied(Rule)
    /\ pc' = "scopes"
    /\ UNCHANGED <<policy, scopes, i, fallback>>

\* A rule that denies ends the walk, satisfied or not.
Denies ==
    /\ AtRule /\ Matches(Rule) /\ ActionOf(Rule) = "deny"
    /\ decision' = Refused
    /\ pc' = "refused by policy"
    /\ UNCHANGED <<policy, scopes, i, fallback>>

\* Mutant of FallsThrough: the failure is not recorded.
FallsThroughUnrecorded ==
    /\ AtRule /\ Matches(Rule) /\ ~Satisfied(Rule) /\ ActionOf(Rule) # "deny"
    /\ i' = i + 1
    /\ UNCHANGED <<policy, scopes, pc, decision, fallback>>

\* Mutant of FallsThrough: a failed rule leaves its scopes behind.
FallsThroughWithScopes ==
    /\ AtRule /\ Matches(Rule) /\ ~Satisfied(Rule) /\ ActionOf(Rule) # "deny"
    /\ decision' = [decision EXCEPT !.scopes = @ \cup Rule.scopes]
    /\ fallback' = TRUE
    /\ i' = i + 1
    /\ UNCHANGED <<policy, scopes, pc>>

FallsThrough ==
    /\ AtRule /\ Matches(Rule) /\ ~Satisfied(Rule) /\ ActionOf(Rule) # "deny"
    /\ fallback' = TRUE
    /\ i' = i + 1
    /\ UNCHANGED <<policy, scopes, pc, decision>>

\* No rule decided: a recorded failure refuses, then the default does.
NoneDecides ==
    /\ pc = "rules" /\ i > Len(policy.rules)
    /\ IF fallback \/ policy.default = "deny"
       THEN decision' = Refused /\ pc' = "refused by policy"
       ELSE decision' = decision /\ pc' = "scopes"
    /\ UNCHANGED <<policy, scopes, i, fallback>>

-----------------------------------------------------------------------------
(* Check: the scopes and the rate limit of the decision.                   *)

\* Mutant of CheckScopes: the scopes of the policy replace the others.
CheckScopesOfPolicy ==
    /\ pc = "scopes"
    /\ pc' = IF (IF decision.scopes = {} THEN BaseScopes ELSE decision.scopes) \subseteq scopes
             THEN "rate" ELSE "refused by scopes"
    /\ UNCHANGED <<policy, scopes, i, decision, fallback>>

\* mergeStringSlices, ValidateScopes
CheckScopes ==
    /\ pc = "scopes"
    /\ pc' = IF BaseScopes \cup decision.scopes \subseteq scopes
             THEN "rate" ELSE "refused by scopes"
    /\ UNCHANGED <<policy, scopes, i, decision, fallback>>

\* enforceRateLimit: with a limit the limiter answers either way.
CheckRate ==
    /\ pc = "rate"
    /\ pc' \in {"allow"} \cup IF decision.limit = NoLimit THEN {} ELSE {"refused by rate"}
    /\ UNCHANGED <<policy, scopes, i, decision, fallback>>

Terminated == pc \in Ends /\ UNCHANGED vars

Next ==
    \/ GlobalPasses \/ GlobalRefuses \/ NoGlobal
    \/ NoMatch \/ Allows \/ Denies \/ FallsThrough \/ NoneDecides
    \/ CheckScopes \/ CheckRate
    \/ Terminated

Spec == Init /\ [][Next]_vars

-----------------------------------------------------------------------------
(* Where the walk stops.                                                   *)

Matching == {k \in DOMAIN policy.rules : Matches(policy.rules[k])}

\* The rules Evaluate does not go past: those whose conditions hold, and those
\* that deny, whatever their conditions.
Deciding == {k \in Matching : Satisfied(policy.rules[k]) \/ ActionOf(policy.rules[k]) = "deny"}
First(k) == \A l \in Deciding : k <= l

-----------------------------------------------------------------------------
(* What a policy means: "If a rule matches path/method but fails           *)
(* conditions, continue to the next rule" (the comment in Evaluate).       *)

\* The rules for the request whose conditions hold.
Holding == {k \in Matching : Satisfied(policy.rules[k])}
FirstHolding(k) == \A l \in Holding : k <= l

GlobalHolds ==
    policy.global = NoRule \/ (Satisfied(policy.global) /\ policy.default # "deny")

\* The policy lets the request through: the global rule holds, and the first
\* rule that holds allows it, or no rule concerns it and the default is not to
\* deny.
Permits ==
    /\ GlobalHolds
    /\ \/ \E k \in Holding : FirstHolding(k) /\ ActionOf(policy.rules[k]) # "deny"
       \/ Matching = {} /\ policy.default # "deny"

\* The scopes a permitted request must carry.
ScopesOf(r) == IF r = NoRule THEN {} ELSE r.scopes
Demands ==
    BaseScopes \cup ScopesOf(policy.global)
      \cup UNION {policy.rules[k].scopes : k \in {l \in Holding : FirstHolding(l)}}

\* No rule denies what its conditions do not hold of.
DenialsHold == \A k \in Matching : ActionOf(policy.rules[k]) = "deny" => k \in Holding

\* Evaluate lets nobody through whom the policy does not permit, and refuses
\* nobody whom it permits, as long as no rule denies on conditions that fail
\* (Evaluate).
EvaluateCorrect ==
    /\ pc \in {"scopes", "rate"} \cup (Ends \ {"refused by policy"}) => Permits
    /\ pc = "refused by policy" /\ DenialsHold => ~Permits

\* "If a rule matches path/method but fails conditions, continue to the next
\* rule (allows fallthrough like break-glass)": nobody is refused whom the first
\* rule that holds lets through (the comment in Evaluate).
FailedRulesPassedOver == pc = "refused by policy" => ~Permits

\* A request that goes through carries every scope: those of every request, of
\* the global rule and of the rule that decided (Evaluate, Check).
AllowedHoldsScopes == pc = "allow" => Demands \subseteq scopes

\* A request the policy stops is not stopped by the scopes it lacks, and one
\* it permits with every scope never is: no scope of a rule that was tried and
\* failed is asked for (Evaluate, Check).
ScopesAskedAreDemanded == pc = "refused by scopes" => ~(Demands \subseteq scopes)

\* The rate limit of the global rule binds every request, unless the rule that
\* decided has a rate_limit of its own, be it a disabled one (applyPolicyRule).
GlobalLimitKept ==
    pc \in {"rate", "allow"} /\ policy.global # NoRule /\ policy.global.limit \in Limits
      => \/ decision.limit = policy.global.limit
         \/ \E k \in Holding : FirstHolding(k) /\ policy.rules[k].limit # NoBlock
=============================================================================
