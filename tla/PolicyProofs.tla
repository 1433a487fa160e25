---------------------------- MODULE PolicyProofs ----------------------------
(***************************************************************************)
(* What is proved of a whole call of Check, for a policy of any length,    *)
(* any rules, conditions nested to any depth, and any certificates, keys,  *)
(* tokens and requests.                                                    *)
(*                                                                         *)
(* First the walk of PolicyEval: no rule passed so far decides, a failure  *)
(* is recorded just when one of them matched, and the decision under way   *)
(* is the global rule's.  Then conditions: what holds of each is settled   *)
(* by what holds of its parts, so that two evaluations that agree on the   *)
(* leaves agree throughout, and the advice and guards of PolicyAdvice      *)
(* follow.  Last the stages of Admission: until the policy is reached,     *)
(* what is left to refuse is what refuses first of the whole request.      *)
(***************************************************************************)
EXTENDS Admission, FiniteSetTheorems, TLAPS

LimitKept ==
    policy.global # NoRule /\ policy.global.limit \in Limits
      => decision.limit = policy.global.limit

\* At the global rule nothing has happened.
AtGlobal ==
    pc = "global" => i = 1 /\ decision = Start /\ ~fallback

\* At the rules.
Walked ==
    pc = "rules" =>
        /\ GlobalHolds
        /\ \A k \in DOMAIN policy.rules : k < i => k \notin Deciding
        /\ fallback <=> \E k \in Matching : k < i
        /\ decision.scopes = ScopesOf(policy.global)
        /\ LimitKept

\* After the walk.
Decided ==
    pc \in {"scopes", "rate"} \cup (Ends \ {"refused by policy"}) =>
        /\ Permits
        /\ BaseScopes \cup decision.scopes = Demands
        /\ LimitKept \/ \E k \in Holding : FirstHolding(k) /\ policy.rules[k].limit # NoBlock

\* The walk ends well: the rule it stops at allows.
WalkPermits ==
    /\ GlobalHolds
    /\ \/ \E k \in Deciding : First(k) /\ ActionOf(policy.rules[k]) # "deny"
       \/ Matching = {} /\ policy.default # "deny"

RefusedRightly == pc = "refused by policy" => ~WalkPermits

ScopesChecked ==
    /\ pc \in {"rate", "allow"} => Demands \subseteq scopes
    /\ pc = "refused by scopes" => ~(Demands \subseteq scopes)

IInv == TypeOK /\ AtGlobal /\ Walked /\ Decided /\ RefusedRightly /\ ScopesChecked

-----------------------------------------------------------------------------
(* The meaning of a policy does not change under way.                      *)

\* What the policy means depends on the policy alone, which no step changes.
LEMMA MeaningFixed ==
    ASSUME policy' = policy
    PROVE  /\ Matching' = Matching /\ Deciding' = Deciding /\ Holding' = Holding
           /\ GlobalHolds' = GlobalHolds /\ Permits' = Permits /\ WalkPermits' = WalkPermits
           /\ Demands' = Demands
           /\ \A k : First(k)' = First(k) /\ FirstHolding(k)' = FirstHolding(k)
  <1>1. Matching' = Matching
    BY DEF Matching, Matches
  <1>2. Deciding' = Deciding
    BY <1>1 DEF Deciding, Satisfied, ActionOf
  <1>3. GlobalHolds' = GlobalHolds
    BY DEF GlobalHolds, Satisfied
  <1>4. \A k : First(k)' = First(k)
    BY <1>2 DEF First
  <1>5. WalkPermits' = WalkPermits
    BY <1>1, <1>2, <1>3, <1>4 DEF WalkPermits, ActionOf
  <1>6. Holding' = Holding
    BY <1>1 DEF Holding, Satisfied
  <1>7. \A k : FirstHolding(k)' = FirstHolding(k)
    BY <1>6 DEF FirstHolding
  <1>8. Permits' = Permits
    BY <1>1, <1>3, <1>6, <1>7 DEF Permits, ActionOf
  <1>9. Demands' = Demands
    BY <1>6, <1>7 DEF Demands, ScopesOf
  <1> QED BY <1>1, <1>2, <1>3, <1>4, <1>5, <1>6, <1>7, <1>8, <1>9

\* The first rule that decides is the only one.
LEMMA FirstUnique ==
    ASSUME TypeOK, NEW k \in Deciding, First(k),
           NEW l \in Deciding, First(l)
    PROVE  k = l
  <1>1. k \in Int /\ l \in Int
    BY DEF TypeOK, Deciding, Matching
  <1>2. k <= l /\ l <= k
    BY DEF First
  <1> QED BY <1>1, <1>2

\* A rule that decides, when none before it does, is the first.
LEMMA WalkedFirst ==
    ASSUME TypeOK, Walked, AtRule, i \in Deciding
    PROVE  First(i)
  <1>1. i \in Int /\ \A l \in Deciding : l \in Int /\ l \in DOMAIN policy.rules
    BY DEF TypeOK, Deciding, Matching
  <1>2. \A l \in Deciding : ~(l < i)
    BY <1>1 DEF Walked, AtRule
  <1> QED BY <1>1, <1>2 DEF First

\* The rule that decides, when its conditions hold, is the first that holds, and
\* the only one.
LEMMA FirstHolds ==
    ASSUME TypeOK, NEW k \in Holding, First(k)
    PROVE  k \in Deciding /\ {l \in Holding : FirstHolding(l)} = {k}
  <1>1. Holding \subseteq Deciding /\ \A l \in Deciding : l \in Int
    BY DEF TypeOK, Holding, Deciding, Matching
  <1>2. FirstHolding(k)
    BY <1>1 DEF First, FirstHolding
  <1>3. ASSUME NEW l \in Holding, FirstHolding(l) PROVE l = k
    <2>1. k <= l /\ l <= k
      BY <1>2, <1>3 DEF FirstHolding
    <2> QED BY <1>1, <2>1
  <1> QED BY <1>1, <1>2, <1>3

\* Where every rule that denies holds, the walk stops where the policy decides.
LEMMA WalkMeans ==
    ASSUME Deciding = Holding
    PROVE  WalkPermits <=> Permits
  BY DEF WalkPermits, Permits, First, FirstHolding

\* The rule at hand is one of the policy, and well formed.
LEMMA AtRuleTypes ==
    ASSUME TypeOK, AtRule
    PROVE  /\ i \in DOMAIN policy.rules /\ i \in 1..Len(policy.rules)
           /\ Rule \in RuleType /\ i + 1 \in 1..Len(policy.rules) + 1
  <1>1. policy.rules \in Seq(RuleSet) /\ i \in 1..Len(policy.rules) + 1
    BY DEF TypeOK
  <1>2. Len(policy.rules) \in Nat /\ DOMAIN policy.rules = 1..Len(policy.rules)
    BY <1>1
  <1>3. i \in 1..Len(policy.rules)
    BY <1>1, <1>2 DEF AtRule
  <1>4. Rule \in RuleSet
    BY <1>1, <1>3 DEF Rule
  <1> QED BY <1>1, <1>2, <1>3, <1>4, RuleAssumption

-----------------------------------------------------------------------------
(* Types.                                                                  *)

\* What applying a rule makes is a decision.
LEMMA AppliedType ==
    ASSUME decision \in Decisions, NEW r \in RuleType
    PROVE  Applied(r) \in Decisions
  BY LimitAssumption DEF Decisions, RuleType, Applied

\* A refusal is a decision.
LEMMA RefusedType == Refused \in Decisions
  BY DEF Decisions, Refused

\* The initial states of the specification have the right types.
LEMMA InitTypes == Init => TypeOK
  <1> SUFFICES ASSUME Init PROVE TypeOK
    OBVIOUS
  <1>1. policy.rules \in Seq(RuleSet)
    BY MaxRulesAssumption DEF Init, BoundedSeq, SeqOf
  <1>2. policy \in [default : Defaults, global : GlobalSet, rules : Seq(RuleSet)]
    BY <1>1 DEF Init
  <1>3. Len(policy.rules) \in Nat
    BY <1>1
  <1>4. i \in 1..Len(policy.rules) + 1
    BY <1>3 DEF Init
  <1> QED BY <1>2, <1>4 DEF Init, TypeOK, Start, Decisions

\* Every step keeps the types.
LEMMA TypesKept == TypeOK /\ [Next]_vars => TypeOK'
  <1> SUFFICES ASSUME TypeOK, [Next]_vars PROVE TypeOK'
    OBVIOUS
  <1> USE DEF TypeOK
  <1>1. CASE GlobalPasses
    <2>1. policy.global \in RuleType
      BY <1>1, RuleAssumption DEF GlobalPasses
    <2> QED BY <1>1, <2>1, AppliedType DEF GlobalPasses
  <1>2. CASE GlobalRefuses
    BY <1>2, RefusedType DEF GlobalRefuses, Ends
  <1>3. CASE NoGlobal
    BY <1>3 DEF NoGlobal
  <1>4. CASE NoMatch
    BY <1>4, AtRuleTypes DEF NoMatch
  <1>5. CASE Allows
    BY <1>5, AtRuleTypes, AppliedType DEF Allows
  <1>6. CASE Denies
    BY <1>6, RefusedType DEF Denies, Ends
  <1>7. CASE FallsThrough
    BY <1>7, AtRuleTypes DEF FallsThrough
  <1>8. CASE NoneDecides
    <2>1. decision' \in {decision, Refused}
      BY <1>8 DEF NoneDecides
    <2>2. pc' \in {"refused by policy", "scopes"}
      BY <1>8 DEF NoneDecides
    <2> QED BY <1>8, <2>1, <2>2, RefusedType DEF NoneDecides, Ends
  <1>9. CASE CheckScopes
    BY <1>9 DEF CheckScopes, Ends
  <1>10. CASE CheckRate
    <2>1. pc' \in {"allow", "refused by rate"}
      BY <1>10 DEF CheckRate
    <2> QED BY <1>10, <2>1 DEF CheckRate, Ends
  <1>11. CASE UNCHANGED vars
    BY <1>11 DEF vars
  <1> QED
    BY <1>1, <1>2, <1>3, <1>4, <1>5, <1>6, <1>7, <1>8, <1>9, <1>10, <1>11
       DEF Next, Terminated

-----------------------------------------------------------------------------
(* The walk.  Each lemma takes one group of actions from the invariant to  *)
(* its parts other than the types.                                         *)

WalkParts == AtGlobal /\ Walked /\ Decided /\ RefusedRightly /\ ScopesChecked

\* The global rule.
LEMMA GlobalStep ==
    ASSUME IInv, GlobalPasses \/ GlobalRefuses \/ NoGlobal
    PROVE  WalkParts'
  <1>1. policy' = policy /\ i' = 1 /\ ~fallback /\ fallback' = fallback /\ decision = Start
    BY DEF IInv, AtGlobal, GlobalPasses, GlobalRefuses, NoGlobal
  <1>2. \A k \in DOMAIN policy.rules : k \in Int /\ ~(k < 1)
    BY DEF IInv, TypeOK
  <1>3. Matching \subseteq DOMAIN policy.rules
    BY DEF Matching
  <1>4. CASE GlobalPasses
    <2>1. GlobalHolds
      BY <1>4 DEF GlobalPasses, GlobalHolds
    <2>2. decision'.scopes = policy.global.scopes
      BY <1>1, <1>4 DEF GlobalPasses, Applied, Start
    <2>3. decision'.scopes = ScopesOf(policy.global)
      BY <2>2, <1>4 DEF GlobalPasses, ScopesOf
    <2>4. policy.global.limit \in Limits => decision'.limit = policy.global.limit
      BY <1>4, LimitAssumption DEF GlobalPasses, Applied
    <2>5. Walked'
      BY <1>1, <1>2, <1>3, <2>1, <2>3, <2>4, MeaningFixed DEF Walked, LimitKept, ScopesOf
    <2>6. pc' = "rules"
      BY <1>4 DEF GlobalPasses
    <2> QED
      BY <2>5, <2>6 DEF WalkParts, AtGlobal, Decided, RefusedRightly, ScopesChecked, Ends
  <1>5. CASE GlobalRefuses
    <2>1. ~GlobalHolds
      BY <1>5 DEF GlobalRefuses, GlobalHolds
    <2>2. ~WalkPermits'
      BY <2>1, <1>1, MeaningFixed DEF WalkPermits
    <2>3. pc' = "refused by policy"
      BY <1>5 DEF GlobalRefuses
    <2> QED
      BY <2>2, <2>3 DEF WalkParts, AtGlobal, Walked, Decided, RefusedRightly, ScopesChecked, Ends
  <1>6. CASE NoGlobal
    <2>1. policy.global = NoRule /\ decision' = Start /\ pc' = "rules"
      BY <1>1, <1>6 DEF NoGlobal
    <2>2. GlobalHolds /\ decision'.scopes = ScopesOf(policy.global)
      BY <2>1 DEF GlobalHolds, ScopesOf, Start
    <2>3. Walked'
      BY <1>1, <1>2, <1>3, <2>1, <2>2, MeaningFixed DEF Walked, LimitKept, ScopesOf
    <2> QED
      BY <2>1, <2>3 DEF WalkParts, AtGlobal, Decided, RefusedRightly, ScopesChecked, Ends
  <1> QED BY <1>4, <1>5, <1>6

\* A rule that does not decide.
LEMMA PassStep ==
    ASSUME IInv, NoMatch \/ FallsThrough
    PROVE  WalkParts'
  <1>1. /\ policy' = policy /\ scopes' = scopes /\ decision' = decision
        /\ pc = "rules" /\ pc' = "rules" /\ i' = i + 1 /\ AtRule
    BY DEF NoMatch, FallsThrough, AtRule
  <1>2. i \in DOMAIN policy.rules /\ i \in Int
    BY <1>1, AtRuleTypes DEF IInv
  <1>3. \A k \in DOMAIN policy.rules : k \in Int /\ (k < i + 1 <=> k < i \/ k = i)
    BY <1>2 DEF IInv, TypeOK
  <1>4. i \notin Deciding /\ (i \in Matching <=> FallsThrough)
    BY <1>2 DEF NoMatch, FallsThrough, Rule, Deciding, Matching
  <1>5. Walked
    BY DEF IInv
  <1>6. fallback' <=> \E k \in Matching : k < i + 1
    <2>1. fallback' <=> fallback \/ FallsThrough
      BY DEF NoMatch, FallsThrough
    <2>2. Matching \subseteq DOMAIN policy.rules
      BY DEF Matching
    <2> QED BY <1>1, <1>3, <1>4, <1>5, <2>1, <2>2 DEF Walked
  <1>7. \A k \in DOMAIN policy.rules : k < i + 1 => k \notin Deciding
    BY <1>1, <1>3, <1>4, <1>5 DEF Walked
  <1>8. Walked'
    <2>1. GlobalHolds /\ decision'.scopes = ScopesOf(policy.global) /\ LimitKept
      BY <1>1, <1>5 DEF Walked
    <2> QED BY <1>1, <1>6, <1>7, <2>1, MeaningFixed DEF Walked, LimitKept, ScopesOf
  <1> QED
    BY <1>1, <1>8 DEF WalkParts, AtGlobal, Decided, RefusedRightly, ScopesChecked, Ends

\* A rule that allows.
LEMMA AllowStep ==
    ASSUME IInv, Allows
    PROVE  WalkParts'
  <1>1. /\ policy' = policy /\ pc' = "scopes" /\ AtRule /\ decision' = Applied(Rule)
        /\ Matches(Rule) /\ Satisfied(Rule) /\ ActionOf(Rule) # "deny"
    BY DEF Allows
  <1>2. i \in DOMAIN policy.rules /\ Rule = policy.rules[i]
    BY <1>1, AtRuleTypes DEF IInv, Rule
  <1>3. i \in Deciding
    BY <1>1, <1>2 DEF Deciding, Matching
  <1>4. TypeOK /\ Walked /\ pc = "rules"
    BY <1>1 DEF IInv, AtRule
  <1>5. First(i)
    BY <1>1, <1>3, <1>4, WalkedFirst
  <1>6. i \in Holding /\ {l \in Holding : FirstHolding(l)} = {i}
    <2>1. i \in Holding
      BY <1>1, <1>2 DEF Holding, Matching
    <2> QED BY <1>4, <1>5, <2>1, FirstHolds
  <1>7. Permits
    BY <1>1, <1>2, <1>4, <1>6 DEF Permits, Walked
  <1>8. decision'.scopes = ScopesOf(policy.global) \cup policy.rules[i].scopes
    BY <1>1, <1>2, <1>4 DEF Applied, Walked
  <1>9. BaseScopes \cup decision'.scopes = Demands
    BY <1>6, <1>8 DEF Demands
  <1>10. policy.rules[i].limit = NoBlock => decision'.limit = decision.limit
    BY <1>1, <1>2 DEF Applied
  <1>11. LimitKept' \/ \E k \in Holding : FirstHolding(k) /\ policy.rules[k].limit # NoBlock
    BY <1>1, <1>4, <1>6, <1>10 DEF LimitKept, Walked
  <1>12. Decided'
    BY <1>1, <1>7, <1>9, <1>11, MeaningFixed DEF Decided
  <1> QED
    BY <1>1, <1>12 DEF WalkParts, AtGlobal, Walked, RefusedRightly, ScopesChecked

\* A rule that denies.
LEMMA DenyStep ==
    ASSUME IInv, Denies
    PROVE  WalkParts'
  <1>1. /\ policy' = policy /\ pc' = "refused by policy" /\ AtRule
        /\ Matches(Rule) /\ ActionOf(Rule) = "deny"
    BY DEF Denies
  <1>2. i \in DOMAIN policy.rules /\ Rule = policy.rules[i]
    BY <1>1, AtRuleTypes DEF IInv, Rule
  <1>3. i \in Deciding /\ i \in Matching
    BY <1>1, <1>2 DEF Deciding, Matching
  <1>4. TypeOK /\ Walked
    BY DEF IInv
  <1>5. First(i)
    BY <1>1, <1>3, <1>4, WalkedFirst
  <1>6. \A k \in Deciding : First(k) => k = i
    BY <1>3, <1>4, <1>5, FirstUnique
  <1>7. ~WalkPermits
    BY <1>1, <1>2, <1>3, <1>6 DEF WalkPermits
  <1>8. ~WalkPermits'
    BY <1>1, <1>7, MeaningFixed
  <1> QED
    BY <1>1, <1>8
       DEF WalkParts, AtGlobal, Walked, Decided, RefusedRightly, ScopesChecked, Ends

\* The end of the rules.
LEMMA EndStep ==
    ASSUME IInv, NoneDecides
    PROVE  WalkParts'
  <1>1. policy' = policy /\ pc = "rules" /\ i > Len(policy.rules) /\ Walked /\ TypeOK
    BY DEF NoneDecides, IInv
  <1>2. \A k \in DOMAIN policy.rules : k < i
    BY <1>1 DEF TypeOK
  <1>3. Matching \subseteq DOMAIN policy.rules /\ Deciding \subseteq Matching
    BY DEF Matching, Deciding
  <1>4. /\ Deciding = {} /\ Holding = {}
        /\ GlobalHolds /\ (fallback <=> Matching # {})
    BY <1>1, <1>2, <1>3 DEF Walked, Holding, Deciding
  <1>5. CASE fallback \/ policy.default = "deny"
    <2>1. ~WalkPermits
      BY <1>4, <1>5 DEF WalkPermits
    <2>2. pc' = "refused by policy"
      BY <1>5 DEF NoneDecides
    <2>3. ~WalkPermits'
      BY <1>1, <2>1, MeaningFixed
    <2> QED
      BY <2>2, <2>3
         DEF WalkParts, AtGlobal, Walked, Decided, RefusedRightly, ScopesChecked, Ends
  <1>6. CASE ~(fallback \/ policy.default = "deny")
    <2>1. Permits
      BY <1>4, <1>6 DEF Permits
    <2>2. pc' = "scopes" /\ decision' = decision
      BY <1>6 DEF NoneDecides
    <2>3. Demands = BaseScopes \cup decision.scopes
      BY <1>1, <1>4 DEF Demands, Walked
    <2>4. LimitKept'
      BY <1>1, <2>2 DEF Walked, LimitKept
    <2>5. Decided'
      BY <1>1, <2>1, <2>2, <2>3, <2>4, MeaningFixed DEF Decided
    <2> QED
      BY <2>2, <2>5 DEF WalkParts, AtGlobal, Walked, RefusedRightly, ScopesChecked
  <1> QED BY <1>5, <1>6

\* The checks of the scopes and of the rate limit.
LEMMA CheckStep ==
    ASSUME IInv, CheckScopes \/ CheckRate
    PROVE  WalkParts'
  <1>1. policy' = policy /\ scopes' = scopes /\ decision' = decision
    BY DEF CheckScopes, CheckRate
  <1>2. /\ pc \in {"scopes", "rate"}
        /\ pc' \in {"rate", "refused by scopes", "allow", "refused by rate"}
    BY DEF CheckScopes, CheckRate
  <1>3. Decided'
    <2>1. /\ Permits
          /\ BaseScopes \cup decision.scopes = Demands
          /\ LimitKept \/ \E k \in Holding : FirstHolding(k) /\ policy.rules[k].limit # NoBlock
      BY <1>2 DEF IInv, Decided
    <2>2. LimitKept' <=> LimitKept
      BY <1>1 DEF LimitKept
    <2> QED BY <1>1, <2>1, <2>2, MeaningFixed DEF Decided
  <1>4. ScopesChecked'
    <2>1. CASE CheckScopes
      <3>1. BaseScopes \cup decision.scopes = Demands
        BY <1>2 DEF IInv, Decided
      <3> QED BY <1>1, <2>1, <3>1, MeaningFixed DEF CheckScopes, ScopesChecked
    <2>2. CASE CheckRate
      <3>1. Demands \subseteq scopes /\ pc' \in {"allow", "refused by rate"}
        BY <2>2 DEF CheckRate, IInv, ScopesChecked
      <3> QED BY <1>1, <3>1, MeaningFixed DEF ScopesChecked
    <2> QED BY <2>1, <2>2
  <1> QED
    BY <1>2, <1>3, <1>4 DEF WalkParts, AtGlobal, Walked, RefusedRightly

\* A step that changes nothing.
LEMMA StutterStep ==
    ASSUME IInv, UNCHANGED vars
    PROVE  WalkParts'
  <1>1. /\ policy' = policy /\ scopes' = scopes /\ pc' = pc /\ i' = i
        /\ decision' = decision /\ fallback' = fallback
    BY DEF vars
  <1>2. LimitKept' <=> LimitKept
    BY <1>1 DEF LimitKept
  <1>3. Walked'
    BY <1>1, <1>2, MeaningFixed DEF IInv, Walked, ScopesOf
  <1>4. Decided'
    BY <1>1, <1>2, MeaningFixed DEF IInv, Decided
  <1>5. AtGlobal'
    BY <1>1 DEF IInv, AtGlobal, Start
  <1>6. WalkPermits' = WalkPermits /\ Demands' = Demands
    BY <1>1, MeaningFixed
  <1>7. RefusedRightly' /\ ScopesChecked'
    BY <1>1, <1>6 DEF IInv, RefusedRightly, ScopesChecked
  <1> QED BY <1>3, <1>4, <1>5, <1>7 DEF WalkParts

-----------------------------------------------------------------------------
\* The invariant holds of the initial states and is kept by every step.
THEOREM Inductive == (Init => IInv) /\ (IInv /\ [Next]_vars => IInv')
  <1>1. Init => IInv
    BY InitTypes
       DEF Init, IInv, AtGlobal, Walked, Decided, RefusedRightly, ScopesChecked, Ends
  <1>2. ASSUME IInv, [Next]_vars PROVE IInv'
    <2>1. TypeOK'
      BY <1>2, TypesKept DEF IInv
    <2>2. WalkParts'
      BY <1>2, GlobalStep, PassStep, AllowStep, DenyStep, EndStep, CheckStep, StutterStep
         DEF Next, Terminated
    <2> QED BY <2>1, <2>2 DEF IInv, WalkParts
  <1> QED BY <1>1, <1>2

\* The invariant holds throughout.
THEOREM Invariance == Spec => []IInv
  <1>1. Init => IInv
    BY Inductive
  <1>2. IInv /\ [Next]_vars => IInv'
    BY Inductive
  <1> QED BY <1>1, <1>2, PTL DEF Spec

\* Evaluate permits only what the policy means, for every policy, and all of it
\* where no rule denies on conditions that fail.
THEOREM EvaluatesCorrectly == Spec => []EvaluateCorrect
  <1>1. DenialsHold => Deciding = Holding
    BY DEF DenialsHold, Deciding, Holding
  <1>2. IInv => EvaluateCorrect
    BY <1>1, WalkMeans DEF IInv, Decided, RefusedRightly, EvaluateCorrect
  <1> QED BY <1>2, Invariance, PTL

\* A request that goes through carries every scope the policy demands.
THEOREM AllowedHasScopes == Spec => []AllowedHoldsScopes
  <1>1. IInv => AllowedHoldsScopes
    BY DEF IInv, ScopesChecked, AllowedHoldsScopes
  <1> QED BY <1>1, Invariance, PTL

\* A request refused for its scopes lacks one the policy demands.
THEOREM RefusedLacksScopes == Spec => []ScopesAskedAreDemanded
  <1>1. IInv => ScopesAskedAreDemanded
    BY DEF IInv, ScopesChecked, ScopesAskedAreDemanded
  <1> QED BY <1>1, Invariance, PTL

\* The global rate limit is kept unless the deciding rule has its own.
THEOREM GlobalLimitHolds == Spec => []GlobalLimitKept
  <1>1. IInv => GlobalLimitKept
    BY DEF IInv, Decided, LimitKept, GlobalLimitKept, Ends
  <1> QED BY <1>1, Invariance, PTL

-----------------------------------------------------------------------------
(* Conditions: what holds of each is settled by what holds of its parts.   *)

\* A set of numbers that is not empty has a least element: what lies below one
\* shrinks as it falls.
LEMMA LeastExists ==
    ASSUME NEW S \in SUBSET Nat, S # {}
    PROVE  \E s \in S : \A u \in S : s <= u
<1>1. PICK top \in S : TRUE
  OBVIOUS
<1> DEFINE Low == {u \in S : u <= top}
           Below(s) == {u \in S : u <= s}
           Heads == {T \in SUBSET Low : \E s \in S : s <= top /\ T = Below(s)}
<1>2. IsFiniteSet(Low)
  <2>1. 0 \in Int /\ top \in Int /\ \A u \in S : u \in Nat
    OBVIOUS
  <2>2. IsFiniteSet(0..top)
    BY <2>1, FS_Interval
  <2>3. Low \subseteq 0..top
    <3> SUFFICES ASSUME NEW u \in Low PROVE u \in 0..top
      OBVIOUS
    <3>1. u \in Nat /\ u <= top
      BY <2>1
    <3> HIDE DEF Low
    <3> QED
      BY <2>1, <3>1
  <2> QED
    BY <2>2, <2>3, FS_Subset
<1>3. IsWellFoundedOn(StrictSubsetOrdering(Low), SUBSET Low)
  BY <1>2, FS_StrictSubsetOrderingWellFounded, FS_FiniteSubsetsOfFinite
<1>4. Low \in Heads
  OBVIOUS
<1>5. PICK T \in Heads : \A U \in Heads : ~ (<<U, T>> \in StrictSubsetOrdering(Low))
  <2> HIDE DEF Heads
  <2>1. Heads # {} /\ Heads \subseteq SUBSET Low
    BY <1>4 DEF Heads
  <2> QED
    BY <1>3, <2>1, WFMin
<1>6. PICK s \in S : s <= top /\ T = Below(s)
  BY <1>5
<1>7. ASSUME NEW u \in S, ~(s <= u) PROVE FALSE
  <2>1. /\ \A v \in Below(u) : v \in Below(s)
        /\ s \in Below(s) /\ s \notin Below(u) /\ u <= top
    <3>1. \A v \in S : v \in Nat
      OBVIOUS
    <3> QED
      BY <1>6, <1>7, <3>1
  <2>2. Below(u) \in Heads
    <3>1. \A v \in S : v \in Nat
      OBVIOUS
    <3>2. ASSUME NEW v \in Below(u) PROVE v \in Low
      <4>1. v \in S /\ v \in Nat /\ v <= u /\ u <= top /\ u \in Nat /\ top \in Nat
        BY <2>1, <3>1, <3>2
      <4>2. v <= top
        BY <4>1
      <4> QED
        BY <4>1, <4>2
    <3>3. Below(u) \subseteq Low
      BY <3>2
    <3> HIDE DEF Low
    <3> QED
      BY <2>1, <3>3
  <2>3. <<Below(u), Below(s)>> \in StrictSubsetOrdering(Low)
    BY <1>5, <1>6, <2>1, <2>2 DEF StrictSubsetOrdering
  <2> QED
    BY <1>5, <1>6, <2>2, <2>3
<1> QED
  BY <1>7

\* The parts of a condition.
Within(c) == {c.of[k] : k \in DOMAIN c.of}

\* Any conditions, if there are some, include one no part of which is among them.
LEMMA ShallowestExists ==
    ASSUME NEW S \in SUBSET Conditions, S # {}
    PROVE  \E c \in S : \A d \in Conditions : d \in Within(c) => d \notin S
<1>1. \A c \in Conditions : Depth[c] \in Nat
  BY DepthAssumption
<1>2. PICK n \in {Depth[c] : c \in S} : \A m \in {Depth[c] : c \in S} : n <= m
  BY <1>1, LeastExists
<1>3. PICK c \in S : n = Depth[c]
  BY <1>2
<1>4. ASSUME NEW d \in Conditions, d \in Within(c), d \in S PROVE FALSE
  <2>1. Depth[d] < Depth[c] /\ Depth[d] \in Nat /\ Depth[c] \in Nat
    BY <1>1, <1>3, <1>4, DepthAssumption DEF Within
  <2>2. Depth[c] <= Depth[d]
    BY <1>2, <1>3, <1>4
  <2> QED
    BY <2>1, <2>2
<1> QED
  BY <1>4

\* A part is a condition, nested less deep.
LEMMA PartsLower ==
    ASSUME NEW c \in Conditions, NEW d \in Within(c)
    PROVE  d \in Conditions /\ Depth[d] \in Nat /\ Depth[c] \in Nat /\ Depth[d] < Depth[c]
  BY DepthAssumption DEF Within

\* T is what holds of the conditions nested less deep than n, when G says of a
\* condition and those of its parts that hold whether it holds.
Settles(T, G, n) ==
    /\ \A c \in T : c \in Conditions /\ Depth[c] < n
    /\ \A c \in Conditions : Depth[c] < n => (c \in T <=> <<c, T \cap Within(c)>> \in G)

\* Two such sets are alike as far as both reach.
LEMMA SettledAlike ==
    ASSUME NEW G, NEW S, NEW T, NEW m \in Nat, NEW n \in Nat,
           Settles(S, G, m), Settles(T, G, n),
           NEW c \in Conditions, Depth[c] < m, Depth[c] < n
    PROVE  c \in S <=> c \in T
<1> DEFINE D == {d \in Conditions : /\ Depth[d] < m /\ Depth[d] < n
                                    /\ ~(d \in S <=> d \in T)}
<1>1. SUFFICES ASSUME D # {} PROVE FALSE
  OBVIOUS
<1>2. PICK d \in D : \A e \in Conditions : e \in Within(d) => e \notin D
  BY <1>1, ShallowestExists
<1>3. \A e \in Within(d) : e \in S <=> e \in T
  <2> SUFFICES ASSUME NEW e \in Within(d) PROVE e \in S <=> e \in T
    OBVIOUS
  <2>1. e \in Conditions /\ Depth[e] < m /\ Depth[e] < n
    BY PartsLower, <1>2
  <2> QED
    BY <1>2, <2>1
<1>4. S \cap Within(d) = T \cap Within(d)
  BY <1>3
<1> QED
  BY <1>2, <1>4 DEF Settles

\* There is one for every depth.
LEMMA SettledTo ==
    ASSUME NEW G, NEW n \in Nat
    PROVE  \E T : Settles(T, G, n)
<1> DEFINE Bad == {m \in Nat : ~ \E T : Settles(T, G, m)}
<1>1. SUFFICES ASSUME Bad # {} PROVE FALSE
  OBVIOUS
<1>2. PICK m \in Bad : \A k \in Bad : m <= k
  BY <1>1, LeastExists
<1>3. m # 0
  <2>1. Settles({}, G, 0)
    BY DepthAssumption DEF Settles
  <2> QED
    BY <1>2, <2>1
<1>4. m - 1 \in Nat /\ m \in Nat
  BY <1>2, <1>3
<1>5. PICK S : Settles(S, G, m - 1)
  BY <1>2, <1>4
<1> DEFINE T == S \cup {c \in Conditions : Depth[c] = m - 1 /\ <<c, S \cap Within(c)>> \in G}
<1>6. \A c \in Conditions : Depth[c] < m =>
        /\ T \cap Within(c) = S \cap Within(c)
        /\ Depth[c] < m - 1 => (c \in T <=> c \in S)
        /\ ~(Depth[c] < m - 1) => Depth[c] = m - 1 /\ c \notin S
  <2> SUFFICES ASSUME NEW c \in Conditions, Depth[c] < m
               PROVE  /\ T \cap Within(c) = S \cap Within(c)
                      /\ Depth[c] < m - 1 => (c \in T <=> c \in S)
                      /\ ~(Depth[c] < m - 1) => Depth[c] = m - 1 /\ c \notin S
    OBVIOUS
  <2>1. Depth[c] \in Nat
    BY DepthAssumption
  <2>2. \A d \in Within(c) : Depth[d] \in Nat /\ Depth[d] < m - 1
    BY <1>4, <2>1, PartsLower
  <2>3. T \cap Within(c) = S \cap Within(c)
    BY <1>4, <2>2
  <2> QED
    BY <1>4, <1>5, <2>1, <2>3 DEF Settles
<1>7. Settles(T, G, m)
  <2>1. \A c \in T : c \in Conditions /\ Depth[c] < m
    BY <1>4, <1>5, DepthAssumption DEF Settles
  <2>2. ASSUME NEW c \in Conditions, Depth[c] < m
        PROVE  c \in T <=> <<c, T \cap Within(c)>> \in G
    BY <1>5, <1>6, <2>2 DEF Settles
  <2> HIDE DEF T
  <2> QED
    BY <2>1, <2>2 DEF Settles
<1> QED
  BY <1>2, <1>7

\* Conditions are founded: what holds of each is settled by what holds of its
\* parts.
LEMMA Founded ==
    ASSUME NEW G
    PROVE  \E T \in SUBSET Conditions :
              \A c \in Conditions : c \in T <=> <<c, T \cap Within(c)>> \in G
<1> DEFINE T == {c \in Conditions : \E S : Settles(S, G, Depth[c] + 1) /\ c \in S}
<1>1. ASSUME NEW c \in Conditions PROVE c \in T <=> <<c, T \cap Within(c)>> \in G
  <2>1. Depth[c] \in Nat /\ Depth[c] + 1 \in Nat
    BY DepthAssumption
  <2>2. PICK S : Settles(S, G, Depth[c] + 1)
    BY <2>1, SettledTo
  <2>3. \A d \in Conditions : Depth[d] <= Depth[c] => (d \in S <=> d \in T)
    <3> SUFFICES ASSUME NEW d \in Conditions, Depth[d] <= Depth[c] PROVE d \in S <=> d \in T
      OBVIOUS
    <3>1. Depth[d] \in Nat /\ Depth[d] + 1 \in Nat
      BY DepthAssumption
    <3>2. PICK R : Settles(R, G, Depth[d] + 1)
      BY <3>1, SettledTo
    <3>3. d \in S <=> d \in R
      BY <2>1, <2>2, <3>1, <3>2, SettledAlike
    <3>4. \A Q : Settles(Q, G, Depth[d] + 1) => (d \in Q <=> d \in R)
      BY <3>1, <3>2, SettledAlike
    <3> QED
      BY <3>2, <3>3, <3>4
  <2> HIDE DEF T
  <2>4. S \cap Within(c) = T \cap Within(c)
    <3>1. \A d \in Within(c) : d \in Conditions /\ Depth[d] <= Depth[c]
      BY PartsLower
    <3> QED
      BY <2>3, <3>1
  <2> QED
    BY <2>1, <2>2, <2>3, <2>4 DEF Settles
<1> QED
  BY <1>1

\* What may hold of some conditions.
Verdicts == UNION {[S -> BOOLEAN] : S \in SUBSET Conditions}

\* h as far as it concerns the parts of c.
Of(h, c) == [d \in Within(c) |-> h[d]]

\* Whatever G makes of a condition from what holds of its parts, some function says
\* so of every condition at once.
LEMMA Recursion ==
    ASSUME NEW G
    PROVE  \E h \in [Conditions -> BOOLEAN] :
              \A d \in Conditions : Of(h, d) \in Verdicts /\ (h[d] <=> <<d, Of(h, d)>> \in G)
<1> DEFINE F == {p \in Conditions \X SUBSET Conditions :
                   <<p[1], [e \in Within(p[1]) |-> e \in p[2]]>> \in G}
<1>1. PICK T \in SUBSET Conditions :
         \A d \in Conditions : d \in T <=> <<d, T \cap Within(d)>> \in F
  <2> HIDE DEF F
  <2> QED
    BY Founded
<1> DEFINE h == [d \in Conditions |-> d \in T]
<1>2. ASSUME NEW d \in Conditions
      PROVE  Of(h, d) \in Verdicts /\ (h[d] <=> <<d, Of(h, d)>> \in G)
  <2>1. \A e \in Within(d) : e \in Conditions
    BY PartsLower
  <2>2. Of(h, d) = [e \in Within(d) |-> e \in T \cap Within(d)]
    BY <2>1 DEF Of
  <2>3. Of(h, d) \in [Within(d) -> BOOLEAN] /\ Within(d) \in SUBSET Conditions
    <3>1. [e \in Within(d) |-> e \in T \cap Within(d)] \in [Within(d) -> BOOLEAN]
      OBVIOUS
    <3> QED
      BY <2>1, <2>2, <3>1, Zenon
  <2>4. <<d, T \cap Within(d)>> \in F <=> <<d, Of(h, d)>> \in G
    BY <2>2
  <2> QED
    BY <1>1, <2>3, <2>4 DEF Verdicts
<1>3. h \in [Conditions -> BOOLEAN]
  OBVIOUS
<1> HIDE DEF h
<1> QED
  BY <1>2, <1>3

\* A combination of conditions depends on its parts alone.
LEMMA CombinesAlike ==
    ASSUME NEW d \in Conditions, NEW h
    PROVE  Combines(d, Of(h, d)) <=> Combines(d, h)
<1>1. \A k \in DOMAIN d.of : d.of[k] \in Within(d)
  BY DEF Within
<1>2. d.op = "not" => 1 \in DOMAIN d.of
  BY DepthAssumption
<1> QED
  BY <1>1, <1>2 DEF Combines, Of

\* Both programs walk the tree: whatever leaves are satisfied, there is a verdict
\* on every condition.
LEMMA WalkExists ==
    ASSUME NEW L
    PROVE  \E h : h = [d \in Conditions |->
                         IF d.op \in Combined THEN Combines(d, h) ELSE d \in L]
<1> DEFINE Value(h, d) == IF d.op \in Combined THEN Combines(d, h) ELSE d \in L
           G == {p \in Conditions \X Verdicts : Value(p[2], p[1])}
<1>1. PICK h \in [Conditions -> BOOLEAN] :
         \A d \in Conditions : Of(h, d) \in Verdicts /\ (h[d] <=> <<d, Of(h, d)>> \in G)
  <2> HIDE DEF G
  <2> QED
    BY Recursion
<1>2. ASSUME NEW d \in Conditions PROVE h[d] = Value(h, d)
  <2>1. Value(Of(h, d), d) <=> Value(h, d)
    BY CombinesAlike
  <2>2. <<d, Of(h, d)>> \in G <=> Value(Of(h, d), d)
    <3> HIDE DEF Value
    <3> QED
      BY <1>1
  <2>3. Value(h, d) \in BOOLEAN
    <3>1. Combines(d, h) \in BOOLEAN
      BY Zenon DEF Combines
    <3>2. (d \in L) \in BOOLEAN
      OBVIOUS
    <3> QED
      BY <3>1, <3>2, Zenon
  <2> HIDE DEF Value, G
  <2> QED
    BY <1>1, <2>1, <2>2, <2>3
<1>3. h = [d \in Conditions |-> Value(h, d)]
  <2> HIDE DEF Value
  <2> QED
    BY <1>2
<1> QED
  BY <1>3

\* evaluateCondition walks the tree.
LEMMA HoldsUnfolds ==
    ASSUME NEW q, NEW zone
    PROVE  \E h : /\ \A c \in Conditions : Holds(c, q, zone) <=> h[c]
                  /\ \A c \in Conditions :
                       h[c] <=> IF c.op \in Combined THEN Combines(c, h)
                                ELSE Satisfies(c, q, zone)
<1> DEFINE L == {d \in Conditions : Satisfies(d, q, zone)}
           Value(h, d) == IF d.op \in Combined THEN Combines(d, h) ELSE Satisfies(d, q, zone)
           f == CHOOSE h : h = [d \in Conditions |-> Value(h, d)]
<1>1. PICK h : h = [d \in Conditions |->
                      IF d.op \in Combined THEN Combines(d, h) ELSE d \in L]
  <2> HIDE DEF L
  <2> QED
    BY WalkExists
<1>2. h = [d \in Conditions |-> Value(h, d)]
  <2>1. ASSUME NEW d \in Conditions PROVE (d \in L) = Satisfies(d, q, zone)
    BY DEF Satisfies
  <2> HIDE DEF L
  <2> QED
    BY <1>1, <2>1
<1>3. f = [d \in Conditions |-> Value(f, d)]
  <2> HIDE DEF Value
  <2> QED
    BY <1>2, Zenon
<1>4. \A c \in Conditions : f[c] <=> Value(f, c)
  <2> HIDE DEF f, Value
  <2> QED
    BY <1>3
<1>5. \A c : Holds(c, q, zone) = f[c]
  BY DEF Holds
<1> HIDE DEF f
<1> QED
  BY <1>4, <1>5
\* _evaluate_constraint_detailed walks the tree.
LEMMA BackendHoldsUnfolds ==
    ASSUME NEW q
    PROVE  \E h : /\ \A c \in Conditions : BackendHolds(c, q) <=> h[c]
                  /\ \A c \in Conditions :
                       h[c] <=> IF c.op \in Combined THEN Combines(c, h)
                                ELSE BackendSatisfies(c, q)
<1> DEFINE L == {d \in Conditions : BackendSatisfies(d, q)}
           Value(h, d) == IF d.op \in Combined THEN Combines(d, h) ELSE BackendSatisfies(d, q)
           f == CHOOSE h : h = [d \in Conditions |-> Value(h, d)]
<1>1. PICK h : h = [d \in Conditions |->
                      IF d.op \in Combined THEN Combines(d, h) ELSE d \in L]
  <2> HIDE DEF L
  <2> QED
    BY WalkExists
<1>2. h = [d \in Conditions |-> Value(h, d)]
  <2>1. ASSUME NEW d \in Conditions PROVE (d \in L) = BackendSatisfies(d, q)
    <3>1. BackendSatisfies(d, q) \in BOOLEAN
      BY Zenon DEF BackendSatisfies
    <3> QED
      BY <3>1
  <2> HIDE DEF L
  <2> QED
    BY <1>1, <2>1
<1>3. f = [d \in Conditions |-> Value(f, d)]
  <2> HIDE DEF Value
  <2> QED
    BY <1>2, Zenon
<1>4. \A c \in Conditions : f[c] <=> Value(f, c)
  <2> HIDE DEF f, Value
  <2> QED
    BY <1>3
<1>5. \A c : BackendHolds(c, q) = f[c]
  BY DEF BackendHolds
<1> HIDE DEF f
<1> QED
  BY <1>4, <1>5

\* Every leaf of a portable condition is portable, and so is every part.
LEMMA PortableUnfolds ==
    \E h : /\ \A c \in Conditions : Portable(c) <=> h[c]
           /\ \A c \in Conditions :
                h[c] <=> IF c.op \in Combined THEN \A k \in DOMAIN c.of : h[c.of[k]]
                         ELSE PortableLeaf(c)
<1> DEFINE Value(h, d) == IF d.op \in Combined THEN \A k \in DOMAIN d.of : h[d.of[k]]
                          ELSE PortableLeaf(d)
           G == {p \in Conditions \X Verdicts : Value(p[2], p[1])}
           f == CHOOSE h : h = [d \in Conditions |-> Value(h, d)]
<1>1. PICK h \in [Conditions -> BOOLEAN] :
         \A d \in Conditions : Of(h, d) \in Verdicts /\ (h[d] <=> <<d, Of(h, d)>> \in G)
  <2> HIDE DEF G
  <2> QED
    BY Recursion
<1>2. ASSUME NEW d \in Conditions PROVE h[d] = Value(h, d)
  <2>1. Value(Of(h, d), d) <=> Value(h, d)
    <3>1. \A k \in DOMAIN d.of : Of(h, d)[d.of[k]] = h[d.of[k]]
      BY DEF Of, Within
    <3> QED
      BY <3>1
  <2>2. <<d, Of(h, d)>> \in G <=> Value(Of(h, d), d)
    <3> HIDE DEF Value
    <3> QED
      BY <1>1
  <2>3. Value(h, d) \in BOOLEAN
    BY Zenon DEF PortableLeaf
  <2> HIDE DEF Value, G
  <2> QED
    BY <1>1, <2>1, <2>2, <2>3
<1>3. h = [d \in Conditions |-> Value(h, d)]
  <2> HIDE DEF Value
  <2> QED
    BY <1>2
<1>4. f = [d \in Conditions |-> Value(f, d)]
  <2> HIDE DEF Value
  <2> QED
    BY <1>3, Zenon
<1>5. \A c \in Conditions : f[c] <=> Value(f, c)
  <2> HIDE DEF f, Value
  <2> QED
    BY <1>4
<1>6. \A c : Portable(c) = f[c]
  BY DEF Portable
<1> HIDE DEF f
<1> QED
  BY <1>5, <1>6

-----------------------------------------------------------------------------
(* Both evaluations agree on portable conditions and plain requests.       *)

\* The values ext_authz and the backend compare: each is what it is in lower case.
Compared(c, q) ==
    IF c.fact \in Claims THEN {Word(w) : w \in q.claims[c.fact].words}
    ELSE IF c.fact = "request.time.hour" THEN {Number(Hour(q.time, LocalZone))}
    ELSE {Number(Day(q.time, LocalZone))}

\* A portable fact is resolved alike.
LEMMA ResolvedAlike ==
    ASSUME NEW q \in RequestType, Plain(q), NEW c, PortableLeaf(c)
    PROVE  /\ Resolve(c.fact, q, LocalZone) = Compared(c, q)
           /\ BackendResolve(c.fact, q) = Compared(c, q)
           /\ Known(c.fact, q) <=> Compared(c, q) # {}
           /\ \A a \in Compared(c, q) : Folded(a) = a
           /\ c.fact \notin Claims => \A a \in Compared(c, q) : a.number \in Nat
<1>1. \/ c.fact \in LowerCase /\ c.fact \in Claims
      \/ c.fact = "request.time.hour" /\ c.fact \notin Claims
      \/ c.fact = "request.time.day_of_week" /\ c.fact \notin Claims
  BY WordAssumption, FactAssumption DEF PortableLeaf, PortableFacts, OtherFacts
<1>2. \A n \in Nat : Folded(Number(n)) = Number(n) /\ Number(n).number = n
  BY WordAssumption DEF Folded, Number
<1>3. CASE c.fact \in LowerCase /\ c.fact \in Claims
  <2>1. /\ \A w \in q.claims[c.fact].words : w # Blank /\ Lower[w] = w
        /\ q.claims[c.fact].given <=> q.claims[c.fact].words # {}
    BY <1>3 DEF Plain
  <2>2. q.claims[c.fact].words \ {Blank} = q.claims[c.fact].words
    BY <2>1
  <2> DEFINE S == q.claims[c.fact].words
  <2>3. /\ c.fact # "cert.subject" /\ c.fact # "request.method"
        /\ c.fact # "request.time.hour" /\ c.fact # "request.time.day_of_week"
    BY <1>3, FactAssumption DEF OtherFacts
  <2>4. Resolve(c.fact, q, LocalZone) = {Word(w) : w \in S}
    BY <1>3, <2>2, <2>3, Zenon DEF Resolve
  <2>5. BackendResolve(c.fact, q) = {Word(w) : w \in S}
    BY <1>3, <2>3, Zenon DEF BackendResolve
  <2>6. Compared(c, q) = {Word(w) : w \in q.claims[c.fact].words}
    BY <1>3 DEF Compared
  <2>7. \A a \in Compared(c, q) : Folded(a) = a
    BY <2>1, <2>6 DEF Folded, Word
  <2>8. Known(c.fact, q) <=> q.claims[c.fact].given
    BY <1>3, FactAssumption DEF Known, OtherFacts
  <2>9. Compared(c, q) # {} <=> q.claims[c.fact].words # {}
    BY <2>6
  <2> QED
    BY <1>3, <2>1, <2>4, <2>5, <2>6, <2>7, <2>8, <2>9
<1>4. CASE c.fact = "request.time.hour" /\ c.fact \notin Claims
  <2>1. Hour(q.time, LocalZone) \in Nat
    BY DEF RequestType, Hour, LocalZone
  <2>2. /\ Resolve("request.time.hour", q, LocalZone) = {Number(Hour(q.time, LocalZone))}
        /\ BackendResolve("request.time.hour", q) = {Number(Hour(q.time, LocalZone))}
    BY <1>4, WordAssumption DEF Resolve, BackendResolve
  <2>3. Compared(c, q) = {Number(Hour(q.time, LocalZone))} /\ Known(c.fact, q)
    BY <1>4 DEF Compared, Known
  <2> QED
    BY <1>2, <1>4, <2>1, <2>2, <2>3
<1>5. CASE c.fact = "request.time.day_of_week" /\ c.fact \notin Claims
  <2>1. Day(q.time, LocalZone) \in Nat
    BY DEF RequestType, Day, LocalZone
  <2>2. /\ Resolve("request.time.day_of_week", q, LocalZone) = {Number(Day(q.time, LocalZone))}
        /\ BackendResolve("request.time.day_of_week", q) = {Number(Day(q.time, LocalZone))}
    BY <1>5, WordAssumption DEF Resolve, BackendResolve
  <2>3. Compared(c, q) = {Number(Day(q.time, LocalZone))} /\ Known(c.fact, q)
    BY <1>5 DEF Compared, Known
  <2> QED
    BY <1>2, <1>5, <2>1, <2>2, <2>3
<1> QED
  BY <1>1, <1>3, <1>4, <1>5

\* Values in lower case are compared alike with a value in lower case.
LEMMA ComparedAlike ==
    ASSUME NEW c \in Conditions, PortableLeaf(c),
           NEW A, \A a \in A : Folded(a) = a, A # {},
           c.fact \notin Claims => \A a \in A : a.number \in Nat
    PROVE  Compare(A, c.op, c.value) <=> BackendCompare(A, c.op, c.value)
<1>1. c.value \in Seq([word : Words, number : Int])
  BY DepthAssumption
<1>2. \A v \in ToSet(c.value) : Folded(v) = v
  BY DEF PortableLeaf
<1>3. c.op # "exists" => c.value[1] \in ToSet(c.value) /\ Folded(c.value[1]) = c.value[1]
  <2> SUFFICES ASSUME c.op # "exists" PROVE c.value[1] \in ToSet(c.value)
    BY <1>2
  <2>1. c.value # <<>>
    BY DepthAssumption DEF PortableLeaf, PortableOps, Combined, Valueless
  <2> QED
    BY <1>1, <2>1 DEF ToSet
<1>4. CASE c.op = "exists"
  BY <1>4, Zenon DEF Compare, BackendCompare
<1>5. CASE c.op = "eq"
  <2>1. Compare(A, c.op, c.value) <=> \E a \in A : Folded(a) = Folded(c.value[1])
    BY <1>5 DEF Compare
  <2>2. BackendCompare(A, c.op, c.value) <=> c.value[1] \in A
    BY <1>5 DEF BackendCompare
  <2> QED
    BY <1>3, <1>5, <2>1, <2>2
<1>6. CASE c.op = "neq"
  <2>1. Compare(A, c.op, c.value) <=> \A a \in A : Folded(a) # Folded(c.value[1])
    BY <1>6 DEF Compare
  <2>2. BackendCompare(A, c.op, c.value) <=> c.value[1] \notin A
    BY <1>6 DEF BackendCompare
  <2> QED
    BY <1>3, <1>6, <2>1, <2>2
<1>7. CASE c.op = "in"
  <2>1. Compare(A, c.op, c.value) <=> \E a \in A, v \in ToSet(c.value) : Folded(a) = Folded(v)
    BY <1>7 DEF Compare
  <2>2. BackendCompare(A, c.op, c.value) <=> ToSet(c.value) \cap A # {}
    BY <1>7 DEF BackendCompare
  <2> QED
    BY <1>2, <1>7, <2>1, <2>2
<1>8. CASE c.op = "contains"
  <2>1. Compare(A, c.op, c.value)
          <=> \E a \in A : <<Folded(c.value[1]).word, Folded(a).word>> \in PartOf
    BY <1>8 DEF Compare
  <2>2. BackendCompare(A, c.op, c.value)
          <=> \E a \in A : <<Folded(c.value[1]).word, Folded(a).word>> \in PartOf
    BY <1>8 DEF BackendCompare
  <2> QED
    BY <2>1, <2>2
<1>9. CASE c.op = "between"
  <2>1. Compare(A, c.op, c.value)
          <=> \E a \in A : a.number # NoNumber /\ Ordered("between", a.number, c.value)
    BY <1>9 DEF Compare
  <2>2. BackendCompare(A, c.op, c.value)
          <=> \E a \in A : Len(c.value) = 2 /\ Ordered("between", a.number, c.value)
    BY <1>9 DEF BackendCompare
  <2>3. Len(c.value) = 2 /\ \A a \in A : a.number # NoNumber
    BY <1>9 DEF PortableLeaf, NoNumber
  <2> QED
    BY <2>1, <2>2, <2>3
<1> QED
  BY <1>4, <1>5, <1>6, <1>7, <1>8, <1>9 DEF PortableLeaf, PortableOps

\* A portable leaf is satisfied in both programs or in neither.
LEMMA LeavesAgree ==
    ASSUME NEW q \in RequestType, Plain(q),
           NEW c \in Conditions, PortableLeaf(c)
    PROVE  Satisfies(c, q, LocalZone) <=> BackendSatisfies(c, q)
<1> DEFINE A == Compared(c, q)
<1>1. /\ Resolve(c.fact, q, LocalZone) = A
      /\ BackendResolve(c.fact, q) = A
      /\ Known(c.fact, q) <=> A # {}
      /\ \A a \in A : Folded(a) = a
      /\ c.fact \notin Claims => \A a \in A : a.number \in Nat
  BY ResolvedAlike
<1>2. c.op # "not_exists"
  BY DEF PortableLeaf, PortableOps
<1> HIDE DEF A
<1>3. A # {} => (Compare(A, c.op, c.value) <=> BackendCompare(A, c.op, c.value))
  BY <1>1, ComparedAlike
<1> QED
  BY <1>1, <1>2, <1>3 DEF Satisfies, BackendSatisfies

\* A portable condition holds of a plain request in both programs or in neither,
\* however deep it is nested, where both run in one time zone.
LEMMA VerdictsAgree ==
    ASSUME NEW q \in RequestType, Plain(q), NEW c \in Conditions, Portable(c)
    PROVE  Holds(c, q, LocalZone) <=> BackendHolds(c, q)
<1>1. PICK h : /\ \A d \in Conditions : Holds(d, q, LocalZone) <=> h[d]
               /\ \A d \in Conditions :
                    h[d] <=> IF d.op \in Combined THEN Combines(d, h)
                             ELSE Satisfies(d, q, LocalZone)
  BY HoldsUnfolds
<1>2. PICK b : /\ \A d \in Conditions : BackendHolds(d, q) <=> b[d]
               /\ \A d \in Conditions :
                    b[d] <=> IF d.op \in Combined THEN Combines(d, b) ELSE BackendSatisfies(d, q)
  BY BackendHoldsUnfolds
<1>3. PICK p : /\ \A d \in Conditions : Portable(d) <=> p[d]
               /\ \A d \in Conditions :
                    p[d] <=> IF d.op \in Combined THEN \A k \in DOMAIN d.of : p[d.of[k]]
                             ELSE PortableLeaf(d)
  BY PortableUnfolds
<1> DEFINE Differ == {d \in Conditions : p[d] /\ ~(h[d] <=> b[d])}
<1>4. SUFFICES ASSUME Differ # {} PROVE FALSE
  BY <1>1, <1>2, <1>3
<1>5. PICK d \in Differ : \A e \in Conditions : e \in Within(d) => e \notin Differ
  BY <1>4, ShallowestExists
<1>6. CASE d.op \in Combined
  <2>1. ASSUME NEW k \in DOMAIN d.of PROVE h[d.of[k]] <=> b[d.of[k]]
    <3>1. d.of[k] \in Within(d) /\ d.of[k] \in Conditions
      BY DepthAssumption DEF Within
    <3>2. p[d.of[k]]
      BY <1>3, <1>5, <1>6
    <3> QED
      BY <1>5, <3>1, <3>2
  <2>2. d.op = "not" => 1 \in DOMAIN d.of
    BY DepthAssumption
  <2>3. Combines(d, h) <=> Combines(d, b)
    BY <2>1, <2>2 DEF Combines
  <2> QED
    BY <1>1, <1>2, <1>5, <1>6, <2>3
<1>7. CASE d.op \notin Combined
  <2>1. PortableLeaf(d)
    BY <1>3, <1>5, <1>7
  <2>2. Satisfies(d, q, LocalZone) <=> BackendSatisfies(d, q)
    BY <2>1, LeavesAgree
  <2> QED
    BY <1>1, <1>2, <1>5, <1>7, <2>2
<1> QED
  BY <1>6, <1>7

-----------------------------------------------------------------------------
(* The advice and the guards of the backend.                               *)

\* What ext_authz sees of a rule's constraint is its verdict on the request.
RequestInv ==
    /\ request \in Requests
    /\ conditions \in [DOMAIN policy.rules -> Constraints \cup {NoCondition}]
    /\ \A k \in DOMAIN policy.rules :
          conditions[k] # NoCondition => policy.rules[k].constraint = Verdict(conditions[k])

\* A call is evaluated while the backend reads the same policy.
THEOREM AdviceInvariance == AdviceSpec => [](IInv /\ RequestInv)
<1>1. AdviceInit => IInv /\ RequestInv
  BY Inductive DEF AdviceInit, RequestInit, RequestInv
<1>2. IInv /\ RequestInv /\ [AdviceNext]_adviceVars => (IInv /\ RequestInv)'
  <2> SUFFICES ASSUME IInv, RequestInv, [AdviceNext]_adviceVars
               PROVE  IInv' /\ RequestInv'
    OBVIOUS
  <2>1. [Next]_vars /\ request' = request /\ conditions' = conditions
    BY DEF AdviceNext, adviceVars
  <2>2. IInv'
    BY <2>1, Inductive
  <2>3. policy' = policy
    BY <2>1 DEF Next, vars, GlobalPasses, GlobalRefuses, NoGlobal, NoMatch, Allows, Denies,
                FallsThrough, NoneDecides, CheckScopes, CheckRate, Terminated
  <2>4. RequestInv'
    BY <2>1, <2>3 DEF RequestInv, Verdict
  <2> QED
    BY <2>2, <2>4
<1> QED
  BY <1>1, <1>2, PTL DEF AdviceSpec

\* On a deployed policy a rule concerns a request in both programs or in neither,
\* and the guard of the rule asks for its scopes and for what ext_authz asks.
LEMMA RulesAgree ==
    ASSUME IInv, RequestInv, Deployed, Zone = LocalZone
    PROVE  /\ Candidates = Matching
           /\ Deciding = Holding
           /\ \A k \in DOMAIN policy.rules :
                MatchRule(k) <=> /\ policy.rules[k].scopes \subseteq scopes
                                 /\ Satisfied(policy.rules[k])
<1>1. \A k \in DOMAIN policy.rules : policy.rules[k] \in RuleType
  <2>1. policy.rules \in Seq(RuleSet)
    BY DEF IInv, TypeOK
  <2> QED
    BY <2>1, RuleAssumption
<1>2. \A k \in DOMAIN policy.rules :
         (Matches(policy.rules[k])
            <=> PathMatches(policy.rules[k]) /\ MethodMatches(policy.rules[k]))
  BY <1>1 DEF Deployed, Matches, PathMatches, MethodMatches, RuleType, Parts
<1>3. ASSUME NEW k \in DOMAIN policy.rules
      PROVE  MatchRule(k) <=> /\ policy.rules[k].scopes \subseteq scopes
                              /\ Satisfied(policy.rules[k])
  <2>1. Satisfied(policy.rules[k]) <=> policy.rules[k].constraint # "miss"
    BY DEF Deployed, Satisfied
  <2>2. CASE conditions[k] = NoCondition
    BY <2>1, <2>2 DEF Deployed, MatchRule
  <2>3. CASE conditions[k] # NoCondition
    <3>1. conditions[k] \in Conditions /\ Portable(conditions[k])
      BY <2>3, ConstraintAssumption DEF RequestInv, Deployed
    <3>2. request \in RequestType /\ Plain(request)
      BY RequestAssumption DEF RequestInv, Deployed
    <3>3. Holds(conditions[k], request, LocalZone) <=> BackendHolds(conditions[k], request)
      BY <3>1, <3>2, VerdictsAgree
    <3>4. policy.rules[k].constraint # "miss" <=> Holds(conditions[k], request, LocalZone)
      BY <2>3 DEF RequestInv, Verdict
    <3> QED
      BY <2>1, <2>3, <3>3, <3>4 DEF MatchRule
  <2> QED
    BY <2>2, <2>3
<1>4. \A k \in DOMAIN policy.rules : ActionOf(policy.rules[k]) # "deny"
  BY DEF Deployed, ActionOf
<1> QED
  BY <1>2, <1>3, <1>4 DEF Candidates, Matching, Deciding, Holding

\* Who is let through has been advised so.
LEMMA AdvisedStep == IInv /\ RequestInv => GrantedAsAdvised
<1> SUFFICES ASSUME IInv, RequestInv, Deployed, Zone = LocalZone, pc = "allow"
             PROVE  Advice
  BY DEF GrantedAsAdvised
<1> DEFINE Sat == {k \in Candidates : MatchRule(k)}
<1>1. Permits /\ Demands \subseteq scopes
  BY DEF IInv, Decided, ScopesChecked, Ends
<1>2. /\ Candidates = Matching
      /\ Deciding = Holding
      /\ \A k \in DOMAIN policy.rules :
           MatchRule(k) <=> /\ policy.rules[k].scopes \subseteq scopes
                            /\ Satisfied(policy.rules[k])
  BY RulesAgree
<1>3. Matching \subseteq DOMAIN policy.rules
  BY DEF Matching
<1>4. Sat \subseteq Holding /\ \A k \in Holding : k \in Matching /\ Satisfied(policy.rules[k])
  BY <1>2, <1>3 DEF Holding
<1>5. CASE \E k \in Holding : FirstHolding(k) /\ ActionOf(policy.rules[k]) # "deny"
  <2>1. PICK k \in Holding : FirstHolding(k)
    BY <1>5
  <2>2. policy.rules[k].scopes \subseteq Demands
    BY <2>1 DEF Demands
  <2>3. k \in Sat /\ k \in DOMAIN policy.rules
    BY <1>1, <1>2, <1>3, <1>4, <2>2
  <2>4. \A l \in Sat : k <= l
    BY <1>4, <2>1 DEF FirstHolding
  <2>5. policy.rules[k].action # "deny"
    BY <2>3 DEF Deployed
  <2> HIDE DEF Sat
  <2> QED
    BY <2>3, <2>4, <2>5 DEF Advice, Sat
<1>6. CASE Matching = {} /\ policy.default # "deny"
  <2>1. Sat = {}
    BY <1>2, <1>6
  <2>2. policy.default \in Defaults
    BY DEF IInv, TypeOK
  <2> QED
    BY <1>6, <2>1, <2>2 DEF Advice, Defaults
<1> QED
  BY <1>1, <1>5, <1>6 DEF Permits

\* A rule that matches is one of the policy.
LEMMA RuleIndex ==
    ASSUME TypeOK, NEW k \in Matching
    PROVE  k \in DOMAIN policy.rules /\ k <= k
<1>1. policy.rules \in Seq(RuleSet) /\ k \in DOMAIN policy.rules
  BY DEF TypeOK, Matching
<1>2. k \in 1..Len(policy.rules) /\ Len(policy.rules) \in Nat
  BY <1>1
<1> QED
  BY <1>1, <1>2

\* Where one rule concerns the request, its guard and ext_authz agree.
LEMMA GuardsStep == IInv /\ RequestInv => GuardsAgree
<1> SUFFICES ASSUME IInv, RequestInv, NEW k \in Matching, Deployed, Zone = LocalZone,
                    Matching = {k}, BaseScopes \subseteq scopes,
                    pc \in Ends \ {"refused by rate"}
             PROVE  pc = "allow" <=> Enforce(k)
  BY DEF GuardsAgree
<1>1. /\ Deciding = Holding /\ Holding = {l \in Matching : Satisfied(policy.rules[l])}
      /\ MatchRule(k) <=> /\ policy.rules[k].scopes \subseteq scopes
                          /\ Satisfied(policy.rules[k])
  BY RulesAgree DEF Matching, Holding
<1>2. k \in DOMAIN policy.rules /\ k <= k
  BY RuleIndex DEF IInv
<1>3. ASSUME Satisfied(policy.rules[k])
      PROVE  Permits /\ Demands = BaseScopes \cup policy.rules[k].scopes
  <2>1. Holding = {k} /\ k <= k
    BY <1>1, <1>2, <1>3, Zenon
  <2>2. policy.global = NoRule /\ ActionOf(policy.rules[k]) # "deny"
    BY <1>2 DEF Deployed, ActionOf
  <2>3. FirstHolding(k) /\ {l \in Holding : FirstHolding(l)} = {k}
    BY <2>1 DEF FirstHolding
  <2> QED
    BY <2>1, <2>2, <2>3 DEF Permits, GlobalHolds, Demands, ScopesOf
<1>4. ASSUME pc = "allow" PROVE MatchRule(k)
  <2>1. Permits /\ Demands \subseteq scopes
    BY <1>4 DEF IInv, Decided, ScopesChecked, Ends
  <2>2. Satisfied(policy.rules[k])
    BY <1>1, <2>1 DEF Permits
  <2> QED
    BY <1>1, <1>3, <2>1, <2>2
<1>5. ASSUME MatchRule(k) PROVE pc = "allow"
  <2>1. Permits /\ Demands \subseteq scopes
    BY <1>1, <1>3, <1>5
  <2>2. pc # "refused by policy" /\ pc # "refused by scopes"
    BY <1>1, <2>1, WalkMeans DEF IInv, RefusedRightly, ScopesChecked
  <2> QED
    BY <2>2 DEF Ends
<1> QED
  BY <1>4, <1>5 DEF Enforce

\* The advice is never too dark, for every policy of the deployed shape, however
\* deep its conditions are nested.
THEOREM GrantsAreAdvised == AdviceSpec => []GrantedAsAdvised
  BY AdvisedStep, AdviceInvariance, PTL

\* The guard of the one rule that concerns a request agrees with ext_authz.
THEOREM GuardsDecideAlike == AdviceSpec => []GuardsAgree
  BY GuardsStep, AdviceInvariance, PTL

\* What a constraint asks first is what its first part asks first.
LEMMA AsksUnfolds ==
    \E h : /\ \A c \in Conditions : AsksClaimFirst(c) <=> h[c]
           /\ \A c \in Conditions :
                h[c] <=> \/ c.op = "all" /\ c.of # <<>> /\ h[c.of[1]]
                         \/ c.op \notin Combined /\ c.fact \in Claims
<1> DEFINE Value(h, d) == \/ d.op = "all" /\ d.of # <<>> /\ h[d.of[1]]
                          \/ d.op \notin Combined /\ d.fact \in Claims
           G == {p \in Conditions \X Verdicts : Value(p[2], p[1])}
           f == CHOOSE h : h = [d \in Conditions |-> Value(h, d)]
<1>1. PICK h \in [Conditions -> BOOLEAN] :
         \A d \in Conditions : Of(h, d) \in Verdicts /\ (h[d] <=> <<d, Of(h, d)>> \in G)
  <2> HIDE DEF G
  <2> QED
    BY Recursion
<1>2. ASSUME NEW d \in Conditions PROVE h[d] = Value(h, d)
  <2>1. Value(Of(h, d), d) <=> Value(h, d)
    <3>1. d.of # <<>> => 1 \in DOMAIN d.of
      BY DepthAssumption
    <3>2. d.of # <<>> => Of(h, d)[d.of[1]] = h[d.of[1]]
      BY <3>1 DEF Of, Within
    <3> QED
      BY <3>2
  <2>2. <<d, Of(h, d)>> \in G <=> Value(Of(h, d), d)
    <3> HIDE DEF Value
    <3> QED
      BY <1>1
  <2>3. Value(h, d) \in BOOLEAN
    BY Zenon
  <2> HIDE DEF Value, G
  <2> QED
    BY <1>1, <2>1, <2>2, <2>3
<1>3. h = [d \in Conditions |-> Value(h, d)]
  <2> HIDE DEF Value
  <2> QED
    BY <1>2
<1>4. f = [d \in Conditions |-> Value(f, d)]
  <2> HIDE DEF Value
  <2> QED
    BY <1>3, Zenon
<1>5. \A c \in Conditions : f[c] <=> Value(f, c)
  <2> HIDE DEF f, Value
  <2> QED
    BY <1>4
<1>6. \A c : AsksClaimFirst(c) = f[c]
  BY DEF AsksClaimFirst
<1> HIDE DEF f
<1> QED
  BY <1>5, <1>6

\* The want of a claim is looked for where evaluateCondition stops.
LEMMA LacksUnfolds ==
    ASSUME NEW q
    PROVE  \E h : /\ \A c \in Conditions : LacksClaim(c, q) <=> h[c]
                  /\ \A c \in Conditions :
                       h[c] <=> \/ /\ c.op = "all"
                                   /\ \E k \in DOMAIN c.of :
                                        /\ ~Holds(c.of[k], q, Zone) /\ h[c.of[k]]
                                        /\ \A l \in 1..(k - 1) : Holds(c.of[l], q, Zone)
                                \/ /\ c.op \notin Combined /\ c.fact \in Claims
                                   /\ Resolve(c.fact, q, Zone) = {}
<1> DEFINE Value(h, d) ==
             \/ /\ d.op = "all"
                /\ \E k \in DOMAIN d.of :
                     /\ ~Holds(d.of[k], q, Zone) /\ h[d.of[k]]
                     /\ \A l \in 1..(k - 1) : Holds(d.of[l], q, Zone)
             \/ /\ d.op \notin Combined /\ d.fact \in Claims
                /\ Resolve(d.fact, q, Zone) = {}
           G == {p \in Conditions \X Verdicts : Value(p[2], p[1])}
           f == CHOOSE h : h = [d \in Conditions |-> Value(h, d)]
<1>1. PICK h \in [Conditions -> BOOLEAN] :
         \A d \in Conditions : Of(h, d) \in Verdicts /\ (h[d] <=> <<d, Of(h, d)>> \in G)
  <2> HIDE DEF G
  <2> QED
    BY Recursion
<1>2. ASSUME NEW d \in Conditions PROVE h[d] = Value(h, d)
  <2>1. Value(Of(h, d), d) <=> Value(h, d)
    <3>1. \A k \in DOMAIN d.of : Of(h, d)[d.of[k]] = h[d.of[k]]
      BY DEF Of, Within
    <3> QED
      BY <3>1
  <2>2. <<d, Of(h, d)>> \in G <=> Value(Of(h, d), d)
    <3> HIDE DEF Value
    <3> QED
      BY <1>1
  <2>3. Value(h, d) \in BOOLEAN
    BY Zenon
  <2> HIDE DEF Value, G
  <2> QED
    BY <1>1, <2>1, <2>2, <2>3
<1>3. h = [d \in Conditions |-> Value(h, d)]
  <2> HIDE DEF Value
  <2> QED
    BY <1>2
<1>4. f = [d \in Conditions |-> Value(f, d)]
  <2> HIDE DEF Value
  <2> QED
    BY <1>3, Zenon
<1>5. \A c \in Conditions : f[c] <=> Value(f, c)
  <2> HIDE DEF f, Value
  <2> QED
    BY <1>4
<1>6. \A c : LacksClaim(c, q) = f[c]
  BY DEF LacksClaim
<1> HIDE DEF f
<1> QED
  BY <1>5, <1>6

\* A constraint that asks for a claim first fails, for want of it, where no claim is
\* given.
LEMMA AskedIsLacked ==
    ASSUME NEW q, q.claims = Anonymous, NEW c \in Conditions, AsksClaimFirst(c)
    PROVE  LacksClaim(c, q) /\ ~Holds(c, q, Zone)
<1>1. PICK h : /\ \A d \in Conditions : Holds(d, q, Zone) <=> h[d]
               /\ \A d \in Conditions :
                    h[d] <=> IF d.op \in Combined THEN Combines(d, h)
                             ELSE Satisfies(d, q, Zone)
  BY HoldsUnfolds
<1>2. PICK a : /\ \A d \in Conditions : AsksClaimFirst(d) <=> a[d]
               /\ \A d \in Conditions :
                    a[d] <=> \/ d.op = "all" /\ d.of # <<>> /\ a[d.of[1]]
                             \/ d.op \notin Combined /\ d.fact \in Claims
  BY AsksUnfolds
<1>3. PICK b : /\ \A d \in Conditions : LacksClaim(d, q) <=> b[d]
               /\ \A d \in Conditions :
                    b[d] <=> \/ /\ d.op = "all"
                                /\ \E k \in DOMAIN d.of :
                                     /\ ~Holds(d.of[k], q, Zone) /\ b[d.of[k]]
                                     /\ \A l \in 1..(k - 1) : Holds(d.of[l], q, Zone)
                             \/ /\ d.op \notin Combined /\ d.fact \in Claims
                                /\ Resolve(d.fact, q, Zone) = {}
  BY LacksUnfolds
<1> DEFINE Bad == {d \in Conditions : a[d] /\ ~(b[d] /\ ~h[d])}
<1>4. SUFFICES ASSUME Bad # {} PROVE FALSE
  BY <1>1, <1>2, <1>3
<1>5. PICK d \in Bad : \A e \in Conditions : e \in Within(d) => e \notin Bad
  BY <1>4, ShallowestExists
<1>6. CASE d.op = "all" /\ d.of # <<>> /\ a[d.of[1]]
  <2>1. 1 \in DOMAIN d.of /\ d.of[1] \in Conditions
    BY <1>6, DepthAssumption
  <2>2. d.of[1] \in Within(d)
    BY <2>1 DEF Within
  <2>3. b[d.of[1]] /\ ~h[d.of[1]]
    BY <1>5, <1>6, <2>1, <2>2
  <2>4. ~h[d]
    BY <1>1, <1>5, <1>6, <2>1, <2>3 DEF Combined, Combines
  <2>5. b[d]
    <3>1. ~Holds(d.of[1], q, Zone) /\ 1..(1 - 1) = {}
      BY <1>1, <2>1, <2>3
    <3> QED
      BY <1>3, <1>5, <1>6, <2>1, <2>3, <3>1
  <2> QED
    BY <1>5, <2>4, <2>5
<1>7. CASE d.op \notin Combined /\ d.fact \in Claims
  <2>1. q.claims[d.fact].words = {}
    BY <1>7 DEF Anonymous
  <2>2. Resolve(d.fact, q, Zone) = {}
    <3>1. /\ d.fact # "cert.subject" /\ d.fact # "request.method"
          /\ d.fact # "request.time.hour" /\ d.fact # "request.time.day_of_week"
      BY <1>7, FactAssumption DEF OtherFacts
    <3>2. CASE d.fact \in LowerCase
      <4>1. Resolve(d.fact, q, Zone)
              = {Word(w) : w \in q.claims[d.fact].words \ {Blank}}
        BY <1>7, <3>1, <3>2, Zenon DEF Resolve
      <4> QED
        BY <2>1, <4>1
    <3>3. CASE d.fact \notin LowerCase
      <4>1. d.fact \in Claims \ LowerCase
        BY <1>7, <3>3
      <4> QED
        BY <3>1, <3>3, <4>1, Zenon DEF Resolve
    <3> QED
      BY <3>2, <3>3
  <2>3. b[d]
    BY <1>3, <1>5, <1>7, <2>2
  <2>4. ~h[d]
    BY <1>1, <1>5, <1>7, <2>2 DEF Satisfies
  <2> QED
    BY <1>5, <2>3, <2>4
<1> QED
  BY <1>2, <1>5, <1>6, <1>7

-----------------------------------------------------------------------------
(* The tests of Check, and the first that fails.                           *)

Statuses == {401, 403, 500}

\* A list of tests, each with its status.
IsTestList(tests) == \E X : tests \in Seq(X) /\ \A x \in X : x[2] \in Statuses
Failing(tests) == {k \in DOMAIN tests : ~tests[k][1]}

\* No test fails, or the first that fails gives the status.
LEMMA RefusalIs ==
    ASSUME NEW tests, IsTestList(tests)
    PROVE  /\ Failing(tests) = {} => Refusal(tests) = None
           /\ \A k \in Failing(tests) :
                (\A l \in Failing(tests) : k <= l) => Refusal(tests) = Status(tests[k][2])
           /\ Failing(tests) # {} => \E k \in Failing(tests) : \A l \in Failing(tests) : k <= l
<1> DEFINE I == {k \in 1..Len(tests) : ~tests[k][1]}
           first == IF I # {} THEN Min(I) ELSE 0
<1>1. I = Failing(tests) /\ I \in SUBSET Nat /\ 0 \notin I
  BY DEF IsTestList, Failing
<1>2. Refusal(tests) = IF first = 0 THEN None ELSE Status(tests[first][2])
  BY DEF Refusal, SelectInSeq
<1> HIDE DEF I
<1>3. I # {} => \E k \in I : \A l \in I : k <= l
  BY <1>1, LeastExists
<1>4. ASSUME NEW k \in I, \A l \in I : k <= l
      PROVE  first = k
  <2>1. Min(I) \in I /\ \A l \in I : Min(I) <= l
    BY <1>4 DEF Min
  <2>2. Min(I) <= k /\ k <= Min(I) /\ k \in Nat /\ Min(I) \in Nat
    BY <1>1, <1>4, <2>1
  <2> QED
    BY <2>2
<1> HIDE DEF first
<1>5. I = {} => first = 0
  BY DEF first
<1> QED
  BY <1>1, <1>2, <1>3, <1>4, <1>5

\* What refuses first.
Then(first, second) == IF first = None THEN second ELSE first

\* A refusal is a status.
LEMMA RefusalStatus ==
    ASSUME NEW tests, IsTestList(tests)
    PROVE  /\ Failing(tests) = {} <=> Refusal(tests) = None
           /\ Refusal(tests) # None => Refusal(tests) \in {401, 403}
<1>1. \A k \in DOMAIN tests : Status(tests[k][2]) \in {401, 403}
  BY DEF IsTestList, Statuses, Status
<1>2. None \notin {401, 403}
  BY NoneAssumption
<1>3. Failing(tests) \subseteq DOMAIN tests
  BY DEF Failing
<1> QED
  BY <1>1, <1>2, <1>3, RefusalIs

\* Of two lists of tests the second is read when the first refuses nothing.
LEMMA RefusalAppend ==
    ASSUME NEW A, NEW B, IsTestList(A), IsTestList(B)
    PROVE  IsTestList(A \o B) /\ Refusal(A \o B) = Then(Refusal(A), Refusal(B))
<1> DEFINE C == A \o B
<1>0. PICK X : /\ A \in Seq(X) /\ B \in Seq(X) /\ C \in Seq(X)
               /\ \A x \in X : x[2] \in Statuses
  <2>1. PICK Y : A \in Seq(Y) /\ \A x \in Y : x[2] \in Statuses
    BY DEF IsTestList
  <2>2. PICK Z : B \in Seq(Z) /\ \A x \in Z : x[2] \in Statuses
    BY DEF IsTestList
  <2>3. A \in Seq(Y \cup Z) /\ B \in Seq(Y \cup Z)
    BY <2>1, <2>2
  <2> QED
    BY <2>1, <2>2, <2>3
<1>1. /\ IsTestList(C) /\ Len(A) \in Nat /\ Len(B) \in Nat
      /\ DOMAIN A = 1..Len(A) /\ DOMAIN B = 1..Len(B) /\ DOMAIN C = 1..(Len(A) + Len(B))
  BY <1>0 DEF IsTestList
<1>2. /\ \A k \in DOMAIN A : C[k] = A[k]
      /\ \A k \in DOMAIN B : C[k + Len(A)] = B[k]
      /\ \A k \in DOMAIN C : k \in DOMAIN A \/ k - Len(A) \in DOMAIN B
  BY <1>0, <1>1
<1> HIDE DEF C
<1>3. \A k \in DOMAIN C : \/ k \in DOMAIN A /\ C[k] = A[k]
                          \/ k - Len(A) \in DOMAIN B /\ C[k] = B[k - Len(A)] /\ Len(A) < k
  <2> SUFFICES ASSUME NEW k \in DOMAIN C, k \notin DOMAIN A
               PROVE  k - Len(A) \in DOMAIN B /\ C[k] = B[k - Len(A)] /\ Len(A) < k
    BY <1>2
  <2>1. k \in Nat /\ k - Len(A) \in DOMAIN B /\ (k - Len(A)) + Len(A) = k /\ Len(A) < k
    BY <1>1, <1>2
  <2> QED
    BY <1>2, <2>1
<1>4. CASE Failing(A) # {}
  <2>1. PICK k \in Failing(A) : \A l \in Failing(A) : k <= l
    BY <1>4, RefusalIs
  <2>2. k \in DOMAIN A /\ k \in Nat /\ k <= Len(A) /\ C[k] = A[k] /\ k \in DOMAIN C
    BY <1>1, <1>2, <2>1 DEF Failing
  <2>3. k \in Failing(C)
    BY <2>1, <2>2 DEF Failing
  <2>4. ASSUME NEW l \in Failing(C) PROVE k <= l
    <3>1. l \in DOMAIN C /\ ~C[l][1] /\ l \in Nat
      BY <1>1, <2>4 DEF Failing
    <3>2. l \in Failing(A) \/ Len(A) < l
      BY <1>3, <3>1 DEF Failing
    <3> QED
      BY <1>1, <2>1, <2>2, <3>1, <3>2
  <2>5. Refusal(C) = Status(A[k][2]) /\ Refusal(A) = Status(A[k][2])
    BY <1>1, <2>1, <2>2, <2>3, <2>4, RefusalIs
  <2>6. Refusal(A) # None
    BY <1>4, RefusalStatus
  <2> QED
    BY <1>1, <2>5, <2>6 DEF Then, C
<1>5. CASE Failing(A) = {} /\ Failing(B) = {}
  <2>1. Failing(C) = {}
    BY <1>3, <1>5 DEF Failing
  <2> QED
    BY <1>1, <1>5, <2>1, RefusalIs DEF Then, C
<1>6. CASE Failing(A) = {} /\ Failing(B) # {}
  <2>1. PICK m \in Failing(B) : \A l \in Failing(B) : m <= l
    BY <1>6, RefusalIs
  <2>2. m \in DOMAIN B /\ m \in Nat /\ m + Len(A) \in DOMAIN C /\ C[m + Len(A)] = B[m]
    BY <1>1, <1>2, <2>1 DEF Failing
  <2>3. m + Len(A) \in Failing(C)
    BY <2>1, <2>2 DEF Failing
  <2>4. ASSUME NEW l \in Failing(C) PROVE m + Len(A) <= l
    <3>1. l \in DOMAIN C /\ ~C[l][1] /\ l \in Nat
      BY <1>1, <2>4 DEF Failing
    <3>2. l - Len(A) \in Failing(B)
      BY <1>3, <1>6, <3>1 DEF Failing
    <3> QED
      BY <1>1, <2>1, <2>2, <3>1, <3>2
  <2>5. Refusal(C) = Status(B[m][2]) /\ Refusal(B) = Status(B[m][2])
    BY <1>1, <2>1, <2>2, <2>3, <2>4, RefusalIs
  <2>6. Refusal(A) = None
    BY <1>6, RefusalIs
  <2> QED
    BY <1>1, <2>5, <2>6 DEF Then, C
<1> QED
  BY <1>1, <1>4, <1>5, <1>6 DEF C

-----------------------------------------------------------------------------
(* The checks before the policy.                                           *)

\* The tests of a request that are left at the token, and at the start.
TokenLeft(w) ==
    IF Presented(w) = <<>> THEN None
    ELSE IF ~Verifies(Presented(w)) THEN 401
    ELSE Then(Refusal(BindingTests(w, Presented(w)[2])),
              Refusal(PossessionTests(w, Presented(w)[2])))
FirstRefusal(w) ==
    IF w.cert = None THEN TokenLeft(w)
    ELSE Then(Refusal(CertificateTests(w)), Then(Refusal(RevocationTests(w)), TokenLeft(w)))

Early == {"certificate", "revocation", "token", "binding", "possession"}

\* The call is that of one request, for whose claims and scopes the policy asks.
CallInv ==
    /\ wire \in Wires /\ policy.global = NoRule
    /\ request.claims = ClaimsOf(TokenRead(wire)) /\ scopes = ScopesOfToken(TokenRead(wire))
    /\ \A k \in DOMAIN policy.rules :
          conditions[k] = NoCondition => policy.rules[k].constraint = "absent"

\* What refuses first is what is left to refuse, until the policy is reached.
LeftInv ==
    /\ stage \in Early \cup {"policy", "answered"}
    /\ stage \in Early => pc \notin Ends /\ told = None
    /\ stage = "revocation" =>
         FirstRefusal(wire) = Then(Refusal(RevocationTests(wire)), TokenLeft(wire))
    /\ stage = "token" => FirstRefusal(wire) = TokenLeft(wire)
    /\ stage = "binding" =>
         FirstRefusal(wire) = Then(Refusal(BindingTests(wire, verified)),
                                   Refusal(PossessionTests(wire, verified)))
    /\ stage = "possession" => FirstRefusal(wire) = Refusal(PossessionTests(wire, verified))
    /\ stage = "policy" => FirstRefusal(wire) = None /\ told = None
    /\ stage = "answered" /\ pc \notin Ends => told = FirstRefusal(wire) /\ told # None
    /\ stage = "answered" /\ pc \in Ends => FirstRefusal(wire) = None

\* The token is verified, if one was presented, and is the one presented.
VerifiedInv ==
    /\ stage \in {"binding", "possession"} => verified # None
    /\ verified # None => /\ Presented(wire) # <<>> /\ Verifies(Presented(wire))
                          /\ verified = Presented(wire)[2]

\* The answer to a call that reached the policy.
AnswerInv ==
    stage = "answered" /\ pc \in Ends =>
        told = CASE pc = "allow" -> 200
                 [] pc = "refused by policy" ->
                      IF Presented(wire) = <<>> /\ TokenRequired THEN 401 ELSE 403
                 [] pc = "refused by scopes" -> ScopeStatus
                 [] pc = "refused by rate" -> RateStatus(wire)

CheckInv == CallInv /\ LeftInv /\ VerifiedInv /\ AnswerInv

\* The tests of Check are lists of tests.
LEMMA TestLists ==
    ASSUME NEW w, NEW token
    PROVE  /\ IsTestList(CertificateTests(w)) /\ IsTestList(RevocationTests(w))
           /\ IsTestList(BindingTests(w, token)) /\ IsTestList(PossessionTests(w, token))
<1>1. IsTestList(CertificateTests(w))
  <2> DEFINE t == CertificateTests(w)
             X == {t[k] : k \in 1..1}
  <2>1. t \in Seq(X)
    BY DEF CertificateTests
  <2>2. \A k \in 1..1 : t[k][2] \in Statuses
    BY DEF CertificateTests, Statuses
  <2>3. \A x \in X : x[2] \in Statuses
    BY <2>2
  <2> HIDE DEF X
  <2> QED
    BY <2>1, <2>3 DEF IsTestList
<1>2. IsTestList(RevocationTests(w))
  <2> DEFINE t == RevocationTests(w)
             X == {t[k] : k \in 1..2}
  <2>1. t \in Seq(X)
    BY DEF RevocationTests
  <2>2. \A k \in 1..2 : t[k][2] \in Statuses
    BY DEF RevocationTests, Statuses
  <2>3. \A x \in X : x[2] \in Statuses
    BY <2>2
  <2> HIDE DEF X
  <2> QED
    BY <2>1, <2>3 DEF IsTestList
<1>3. IsTestList(BindingTests(w, token))
  <2> DEFINE t == BindingTests(w, token)
             X == {t[k] : k \in 1..2}
  <2>1. t \in Seq(X)
    BY DEF BindingTests
  <2>2. \A k \in 1..2 : t[k][2] \in Statuses
    BY DEF BindingTests, Statuses
  <2>3. \A x \in X : x[2] \in Statuses
    BY <2>2
  <2> HIDE DEF X
  <2> QED
    BY <2>1, <2>3 DEF IsTestList
<1>4. ASSUME NEW p, NEW raw PROVE IsTestList(ProofTests(p, token, raw))
  <2> DEFINE t == ProofTests(p, token, raw)
             X == {t[k] : k \in 1..10}
  <2>1. t \in Seq(X)
    BY DEF ProofTests
  <2>2. \A k \in 1..10 : t[k][2] \in Statuses
    BY DEF ProofTests, Statuses
  <2>3. \A x \in X : x[2] \in Statuses
    BY <2>2
  <2> HIDE DEF X
  <2> QED
    BY <2>1, <2>3 DEF IsTestList
<1>5. IsTestList(SignatureTests(w.signature, token))
  <2> DEFINE t == SignatureTests(w.signature, token)
             X == {t[k] : k \in 1..2}
  <2>1. t \in Seq(X)
    BY DEF SignatureTests
  <2>2. \A k \in 1..2 : t[k][2] \in Statuses
    BY DEF SignatureTests, Statuses
  <2>3. \A x \in X : x[2] \in Statuses
    BY <2>2
  <2> HIDE DEF X
  <2> QED
    BY <2>1, <2>3 DEF IsTestList
<1>6. IsTestList(<<>>)
  <2> DEFINE X == {}
  <2>1. <<>> \in Seq(X) /\ \A x \in X : x[2] \in Statuses
    OBVIOUS
  <2> HIDE DEF X
  <2> QED
    BY <2>1 DEF IsTestList
<1> QED
  BY <1>1, <1>2, <1>3, <1>4, <1>5, <1>6 DEF PossessionTests

\* What bears a token presents one of the tokens.
LEMMA PresentedToken ==
    ASSUME NEW w \in Wires, Presented(w) # <<>>, Verifies(Presented(w))
    PROVE  Presented(w)[2] \in Tokens /\ Presented(w)[2] # None
<1>1. w.header \in Tokens \cup {None} /\ w.cookie \in Tokens \cup {None}
  BY WireAssumption DEF WireType
<1>2. Presented(w)[2] # None
  BY DEF Verifies, Bears
<1> QED
  BY <1>1, <1>2 DEF Presented

\* The call itself never changes.
LEMMA CallKept ==
    ASSUME CallInv, [CheckNext]_checkVars
    PROVE  /\ CallInv' /\ wire' = wire /\ Presented(wire)' = Presented(wire)
           /\ TokenLeft(wire)' = TokenLeft(wire) /\ FirstRefusal(wire)' = FirstRefusal(wire)
<1>1. wire' = wire
  BY DEF CheckNext, checkVars, credentials, CheckCertificate, CheckRevocation, NoTokenGiven,
         VerifyToken, CheckBinding, CheckPossession, CheckPolicy, Respond, Answered
<1>2. [AdviceNext]_adviceVars
  BY DEF CheckNext, checkVars, CheckCertificate, CheckRevocation, NoTokenGiven,
         VerifyToken, CheckBinding, CheckPossession, CheckPolicy, Respond, Answered
<1>3. [Next]_vars /\ request' = request /\ conditions' = conditions
  BY <1>2 DEF AdviceNext, adviceVars
<1>4. policy' = policy /\ scopes' = scopes
  BY <1>3 DEF Next, vars, GlobalPasses, GlobalRefuses, NoGlobal, NoMatch, Allows, Denies,
              FallsThrough, NoneDecides, CheckScopes, CheckRate, Terminated
<1>5. CallInv'
  BY <1>1, <1>3, <1>4 DEF CallInv
<1>6. Presented(wire)' = Presented(wire)
  BY <1>1 DEF Presented
<1>7. TokenLeft(wire)' = TokenLeft(wire) /\ FirstRefusal(wire)' = FirstRefusal(wire)
  BY <1>1
<1> QED
  BY <1>1, <1>5, <1>6, <1>7

\* A test that passes leaves the rest, and one that fails is the answer.
LEMMA TestStep ==
    ASSUME NEW tests, IsTestList(tests), NEW rest, NEW to, Test(tests, to)
    PROVE  \/ /\ Refusal(tests) = None /\ Then(Refusal(tests), rest) = rest
              /\ stage' = to /\ told' = told
           \/ /\ Refusal(tests) # None /\ Then(Refusal(tests), rest) = Refusal(tests)
              /\ stage' = "answered" /\ told' = Refusal(tests)
  BY DEF Test, Proceed, Answer, Then

\* The checks of the certificate.
LEMMA CertificateStep ==
    ASSUME CheckInv, CheckCertificate \/ CheckRevocation
    PROVE  LeftInv' /\ VerifiedInv' /\ AnswerInv'
<1>1. /\ CallInv /\ wire' = wire /\ Presented(wire)' = Presented(wire)
      /\ FirstRefusal(wire)' = FirstRefusal(wire) /\ TokenLeft(wire)' = TokenLeft(wire)
  <2>1. CheckNext
    BY DEF CheckNext
  <2> QED
    BY <2>1, CallKept DEF CheckInv
<1>2. pc' = pc /\ verified' = verified
  BY DEF CheckCertificate, CheckRevocation, adviceVars, vars
<1>3. stage \in Early /\ pc \notin Ends /\ told = None
  BY DEF CheckInv, LeftInv, CheckCertificate, CheckRevocation, Early
<1>4. \/ /\ stage' = "revocation" /\ told' = None
         /\ FirstRefusal(wire) = Then(Refusal(RevocationTests(wire)), TokenLeft(wire))
      \/ stage' = "token" /\ told' = None /\ FirstRefusal(wire) = TokenLeft(wire)
      \/ stage' = "answered" /\ told' # None /\ told' = FirstRefusal(wire)
  <2>1. CASE CheckCertificate /\ wire.cert = None
    BY <1>3, <2>1 DEF CheckCertificate, Proceed, FirstRefusal
  <2>2. CASE CheckCertificate /\ wire.cert # None
    <3>1. Test(CertificateTests(wire), "revocation")
      BY <2>2 DEF CheckCertificate
    <3>2. FirstRefusal(wire)
            = Then(Refusal(CertificateTests(wire)),
                   Then(Refusal(RevocationTests(wire)), TokenLeft(wire)))
      BY <2>2 DEF FirstRefusal
    <3> QED
      BY <1>3, <3>1, <3>2, TestLists, TestStep
  <2>3. CASE CheckRevocation
    <3>1. Test(RevocationTests(wire), "token")
      BY <2>3 DEF CheckRevocation
    <3>2. FirstRefusal(wire) = Then(Refusal(RevocationTests(wire)), TokenLeft(wire))
      BY <2>3 DEF CheckRevocation, CheckInv, LeftInv
    <3> QED
      BY <1>3, <3>1, <3>2, TestLists, TestStep
  <2> QED
    BY <2>1, <2>2, <2>3
<1>5. Refusal(RevocationTests(wire))' = Refusal(RevocationTests(wire))
  BY <1>1
<1>6. LeftInv'
  BY <1>1, <1>2, <1>3, <1>4, <1>5 DEF LeftInv, Early
<1>7. VerifiedInv'
  BY <1>1, <1>2, <1>4 DEF CheckInv, VerifiedInv
<1>8. AnswerInv'
  BY <1>2, <1>3 DEF AnswerInv
<1> QED
  BY <1>6, <1>7, <1>8

\* The token: one that is presented is verified, or refused.
LEMMA TokenStep ==
    ASSUME CheckInv, NoTokenGiven \/ VerifyToken
    PROVE  LeftInv' /\ VerifiedInv' /\ AnswerInv'
<1>1. /\ CallInv /\ wire' = wire /\ Presented(wire)' = Presented(wire)
      /\ FirstRefusal(wire)' = FirstRefusal(wire)
  <2>1. CheckNext
    BY DEF CheckNext
  <2> QED
    BY <2>1, CallKept DEF CheckInv
<1>2. pc' = pc /\ stage = "token"
  BY DEF NoTokenGiven, VerifyToken, adviceVars, vars
<1>3. pc \notin Ends /\ told = None /\ FirstRefusal(wire) = TokenLeft(wire)
  BY <1>2 DEF CheckInv, LeftInv, Early
<1>4. AnswerInv'
  BY <1>2, <1>3 DEF AnswerInv
<1>5. CASE NoTokenGiven
  <2>1. stage' = "policy" /\ told' = None /\ verified' = verified /\ TokenLeft(wire) = None
    BY <1>3, <1>5 DEF NoTokenGiven, Proceed, TokenLeft
  <2>2. LeftInv'
    BY <1>1, <1>2, <1>3, <2>1 DEF LeftInv, Early
  <2>3. VerifiedInv'
    BY <1>1, <2>1 DEF CheckInv, VerifiedInv
  <2> QED
    BY <1>4, <2>2, <2>3
<1>6. CASE VerifyToken /\ ~Verifies(Presented(wire))
  <2>1. stage' = "answered" /\ told' = 401 /\ verified' = verified /\ TokenLeft(wire) = 401
    BY <1>6 DEF VerifyToken, Answer, TokenLeft
  <2>2. told' # None
    BY <2>1, NoneAssumption
  <2>3. LeftInv'
    BY <1>1, <1>2, <1>3, <2>1, <2>2 DEF LeftInv, Early
  <2>4. VerifiedInv'
    BY <1>1, <2>1 DEF CheckInv, VerifiedInv
  <2> QED
    BY <1>4, <2>3, <2>4
<1>7. CASE VerifyToken /\ Verifies(Presented(wire))
  <2>1. /\ stage' = "binding" /\ told' = None /\ verified' = Presented(wire)[2]
        /\ Presented(wire) # <<>>
    BY <1>3, <1>7 DEF VerifyToken, Proceed
  <2>2. verified' # None
    BY <1>1, <1>7, <2>1, PresentedToken DEF CallInv
  <2>3. FirstRefusal(wire) = Then(Refusal(BindingTests(wire, verified')),
                                  Refusal(PossessionTests(wire, verified')))
    BY <1>3, <1>7, <2>1 DEF TokenLeft
  <2>4. /\ Refusal(BindingTests(wire, verified))' = Refusal(BindingTests(wire, verified'))
        /\ Refusal(PossessionTests(wire, verified))' = Refusal(PossessionTests(wire, verified'))
    BY <1>1
  <2>5. LeftInv'
    BY <1>1, <1>2, <1>3, <2>1, <2>3, <2>4 DEF LeftInv, Early
  <2>6. VerifiedInv'
    <3>1. Verifies(Presented(wire))' = Verifies(Presented(wire))
      BY <1>1
    <3> QED
      BY <1>1, <1>7, <2>1, <2>2, <3>1 DEF VerifiedInv
  <2> QED
    BY <1>4, <2>5, <2>6
<1> QED
  BY <1>5, <1>6, <1>7 DEF VerifyToken

\* The checks of what the token is bound to.
LEMMA BindingStep ==
    ASSUME CheckInv, CheckBinding \/ CheckPossession
    PROVE  LeftInv' /\ VerifiedInv' /\ AnswerInv'
<1>1. /\ CallInv /\ wire' = wire /\ Presented(wire)' = Presented(wire)
      /\ FirstRefusal(wire)' = FirstRefusal(wire)
  <2>1. CheckNext
    BY DEF CheckNext
  <2> QED
    BY <2>1, CallKept DEF CheckInv
<1>2. pc' = pc /\ verified' = verified /\ stage \in {"binding", "possession"}
  BY DEF CheckBinding, CheckPossession, adviceVars, vars
<1>3. pc \notin Ends /\ told = None /\ verified # None
  BY <1>2 DEF CheckInv, LeftInv, VerifiedInv, Early
<1>4. \/ /\ stage' = "possession" /\ told' = None
         /\ FirstRefusal(wire) = Refusal(PossessionTests(wire, verified))
      \/ stage' = "policy" /\ told' = None /\ FirstRefusal(wire) = None
      \/ stage' = "answered" /\ told' # None /\ told' = FirstRefusal(wire)
  <2>1. CASE CheckBinding
    <3>1. Test(BindingTests(wire, verified), "possession")
      BY <2>1 DEF CheckBinding
    <3>2. FirstRefusal(wire) = Then(Refusal(BindingTests(wire, verified)),
                                    Refusal(PossessionTests(wire, verified)))
      BY <2>1 DEF CheckBinding, CheckInv, LeftInv
    <3> QED
      BY <1>3, <3>1, <3>2, TestLists, TestStep
  <2>2. CASE CheckPossession
    <3>1. Test(PossessionTests(wire, verified), "policy")
      BY <2>2 DEF CheckPossession
    <3>2. FirstRefusal(wire) = Refusal(PossessionTests(wire, verified))
      BY <2>2 DEF CheckPossession, CheckInv, LeftInv
    <3> QED
      BY <1>3, <3>1, <3>2, TestLists, TestStep
  <2> QED
    BY <2>1, <2>2
<1>5. Refusal(PossessionTests(wire, verified))' = Refusal(PossessionTests(wire, verified))
  BY <1>1, <1>2
<1>6. LeftInv'
  BY <1>1, <1>2, <1>3, <1>4, <1>5 DEF LeftInv, Early
<1>7. VerifiedInv'
  <2>1. Verifies(Presented(wire))' = Verifies(Presented(wire))
    BY <1>1
  <2> QED
    BY <1>1, <1>2, <1>3, <2>1 DEF CheckInv, VerifiedInv
<1>8. AnswerInv'
  BY <1>2, <1>3 DEF AnswerInv
<1> QED
  BY <1>6, <1>7, <1>8

\* The policy, and the end of the call.
LEMMA PolicyStep ==
    ASSUME CheckInv, CheckPolicy \/ Respond
    PROVE  LeftInv' /\ VerifiedInv' /\ AnswerInv'
<1>1. /\ CallInv /\ wire' = wire /\ Presented(wire)' = Presented(wire)
      /\ FirstRefusal(wire)' = FirstRefusal(wire)
  <2>1. CheckNext
    BY DEF CheckNext
  <2> QED
    BY <2>1, CallKept DEF CheckInv
<1>2. verified' = verified /\ stage = "policy"
  BY DEF CheckPolicy, Respond, credentials
<1>3. told = None /\ FirstRefusal(wire) = None
  BY <1>2 DEF CheckInv, LeftInv
<1>4. VerifiedInv'
  <2>1. Verifies(Presented(wire))' = Verifies(Presented(wire))
    BY <1>1
  <2>2. stage' \in {"policy", "answered"}
    BY <1>2 DEF CheckPolicy, Respond, Answer, credentials
  <2> QED
    BY <1>1, <1>2, <2>1, <2>2 DEF CheckInv, VerifiedInv
<1>5. CASE CheckPolicy
  <2>1. stage' = "policy" /\ told' = told
    BY <1>2, <1>5 DEF CheckPolicy, credentials
  <2>2. LeftInv'
    BY <1>1, <1>3, <2>1 DEF LeftInv, Early
  <2> QED
    BY <1>4, <2>1, <2>2 DEF AnswerInv
<1>6. CASE Respond
  <2>1. /\ stage' = "answered" /\ pc \in Ends /\ adviceVars' = adviceVars
        /\ told' = CASE pc = "allow" -> 200
                     [] pc = "refused by policy" ->
                          IF Presented(wire) = <<>> /\ TokenRequired THEN 401 ELSE 403
                     [] pc = "refused by scopes" -> ScopeStatus
                     [] pc = "refused by rate" -> RateStatus(wire)
    BY <1>6 DEF Respond, Answer
  <2>2. /\ policy' = policy /\ pc' = pc /\ request' = request /\ conditions' = conditions
        /\ scopes' = scopes
    BY <2>1 DEF adviceVars, vars
  <2>3. LeftInv'
    BY <1>1, <1>3, <2>1, <2>2 DEF LeftInv, Early
  <2>4. TokenRequired' = TokenRequired
    BY <2>2, MeaningFixed
       DEF TokenRequired, ReasonIsClaim, Satisfied
  <2>5. ScopeStatus' = ScopeStatus /\ RateStatus(wire)' = RateStatus(wire)
    BY <1>1, <1>2, <2>2 DEF ScopeStatus, RateStatus, Unidentified
  <2>6. AnswerInv'
    BY <1>1, <2>1, <2>2, <2>4, <2>5 DEF AnswerInv
  <2> QED
    BY <1>4, <2>3, <2>6
<1> QED
  BY <1>5, <1>6

\* The invariant of Check holds of the initial states and is kept by every step.
THEOREM CheckInductive ==
    /\ AdmissionInit => CheckInv /\ AdviceInit
    /\ CheckInv /\ [CheckNext]_checkVars => CheckInv' /\ [AdviceNext]_adviceVars
<1>1. ASSUME AdmissionInit PROVE CheckInv /\ AdviceInit
  <2>1. CallInv
    BY <1>1 DEF AdmissionInit, CallInv
  <2>2. stage = "certificate" /\ verified = None /\ told = None /\ pc = "global"
    BY <1>1 DEF AdmissionInit, AdviceInit, Init
  <2> QED
    BY <1>1, <2>1, <2>2
       DEF AdmissionInit, CheckInv, LeftInv, VerifiedInv, AnswerInv, Early, Ends
<1>2. ASSUME CheckInv, [CheckNext]_checkVars PROVE CheckInv' /\ [AdviceNext]_adviceVars
  <2>1. CallInv'
    BY <1>2, CallKept DEF CheckInv
  <2>2. [AdviceNext]_adviceVars
    BY <1>2 DEF CheckNext, checkVars, CheckCertificate, CheckRevocation, NoTokenGiven,
                VerifyToken, CheckBinding, CheckPossession, CheckPolicy, Respond, Answered
  <2>3. CASE UNCHANGED checkVars
    <3>1. /\ wire' = wire /\ stage' = stage /\ verified' = verified /\ told' = told
          /\ adviceVars' = adviceVars
      BY <2>3 DEF checkVars, credentials
    <3>2. /\ policy' = policy /\ pc' = pc /\ request' = request /\ conditions' = conditions
          /\ scopes' = scopes
      BY <3>1 DEF adviceVars, vars
    <3>3. /\ Presented(wire)' = Presented(wire) /\ TokenLeft(wire)' = TokenLeft(wire)
          /\ FirstRefusal(wire)' = FirstRefusal(wire)
      BY <1>2, CallKept DEF CheckInv
    <3>4. /\ Verifies(Presented(wire))' = Verifies(Presented(wire))
          /\ Refusal(RevocationTests(wire))' = Refusal(RevocationTests(wire))
          /\ Refusal(BindingTests(wire, verified))' = Refusal(BindingTests(wire, verified))
          /\ Refusal(PossessionTests(wire, verified))'
               = Refusal(PossessionTests(wire, verified))
      BY <3>1
    <3>5. LeftInv'
      BY <1>2, <3>1, <3>2, <3>3, <3>4 DEF CheckInv, LeftInv
    <3>6. VerifiedInv'
      BY <1>2, <3>1, <3>3, <3>4 DEF CheckInv, VerifiedInv
    <3>7. AnswerInv'
      <4>1. TokenRequired' = TokenRequired
        BY <3>2, MeaningFixed DEF TokenRequired, ReasonIsClaim, Satisfied
      <4>2. ScopeStatus' = ScopeStatus /\ RateStatus(wire)' = RateStatus(wire)
        BY <3>1, <3>2 DEF ScopeStatus, RateStatus, Unidentified
      <4> QED
        BY <1>2, <3>1, <3>2, <3>3, <4>1, <4>2 DEF CheckInv, AnswerInv
    <3> QED
      BY <2>1, <2>2, <3>5, <3>6, <3>7 DEF CheckInv
  <2>4. CASE CheckNext /\ ~UNCHANGED checkVars
    <3>1. LeftInv' /\ VerifiedInv' /\ AnswerInv'
      BY <1>2, <2>4, CertificateStep, TokenStep, BindingStep, PolicyStep DEF CheckNext, Answered
    <3> QED
      BY <2>1, <2>2, <3>1 DEF CheckInv
  <2> QED
    BY <1>2, <2>3, <2>4
<1> QED
  BY <1>1, <1>2

\* A call of Check evaluates the policy as it is advised upon, and keeps its own
\* invariant beside.
THEOREM CheckInvariance == CheckSpec => [](CheckInv /\ IInv /\ RequestInv) /\ AdviceSpec
<1>1. AdmissionInit => CheckInv /\ AdviceInit
  BY CheckInductive
<1>2. CheckInv /\ [CheckNext]_checkVars => CheckInv' /\ [AdviceNext]_adviceVars
  BY CheckInductive
<1> QED
  BY <1>1, <1>2, AdviceInvariance, PTL DEF CheckSpec, AdviceSpec

\* Where nothing refused, every test passed.
LEMMA AllPassed ==
    ASSUME CheckInv, told = 200, verified # None
    PROVE  /\ pc \in Ends /\ wire \in Wires /\ Presented(wire) # <<>>
           /\ Bears(Presented(wire)) /\ verified = Presented(wire)[2]
           /\ wire.cert # None => wire.cert \in TrustedCerts
           /\ \A k \in DOMAIN BindingTests(wire, verified) : BindingTests(wire, verified)[k][1]
           /\ \A k \in DOMAIN PossessionTests(wire, verified) :
                PossessionTests(wire, verified)[k][1]
<1>1. /\ Presented(wire) # <<>> /\ Verifies(Presented(wire))
      /\ verified = Presented(wire)[2] /\ wire \in Wires
  BY DEF CheckInv, VerifiedInv, CallInv
<1>2. /\ IsTestList(CertificateTests(wire)) /\ IsTestList(RevocationTests(wire))
      /\ IsTestList(BindingTests(wire, verified)) /\ IsTestList(PossessionTests(wire, verified))
  BY TestLists
<1>3. TokenLeft(wire) = Then(Refusal(BindingTests(wire, verified)),
                             Refusal(PossessionTests(wire, verified)))
  BY <1>1 DEF TokenLeft
<1>4. told # None /\ told \notin {401, 403}
  BY NoneAssumption
<1>5. TokenLeft(wire) = None \/ TokenLeft(wire) \in {401, 403}
  BY <1>2, <1>3, RefusalStatus DEF Then
<1>6. FirstRefusal(wire) = None \/ FirstRefusal(wire) \in {401, 403}
  BY <1>2, <1>5, RefusalStatus DEF FirstRefusal, Then
<1>7. FirstRefusal(wire) = None /\ pc \in Ends
  BY <1>4, <1>6 DEF CheckInv, LeftInv
<1>8. TokenLeft(wire) = None
  BY <1>7 DEF FirstRefusal, Then
<1>9. Refusal(BindingTests(wire, verified)) = None
      /\ Refusal(PossessionTests(wire, verified)) = None
  BY <1>3, <1>8 DEF Then
<1>10. Failing(BindingTests(wire, verified)) = {} /\ Failing(PossessionTests(wire, verified)) = {}
  BY <1>2, <1>9, RefusalStatus
<1>11. Bears(Presented(wire))
  BY <1>1 DEF Verifies
<1>12. wire.cert # None => wire.cert \in TrustedCerts
  <2> SUFFICES ASSUME wire.cert # None
               PROVE  wire.cert \in TrustedCerts
    OBVIOUS
  <2>1. Refusal(CertificateTests(wire)) = None
    BY <1>7 DEF FirstRefusal, Then
  <2>2. Failing(CertificateTests(wire)) = {}
    BY <1>2, <2>1, RefusalStatus
  <2> DEFINE t == CertificateTests(wire)
  <2>3. DOMAIN t = 1..1
    BY DEF CertificateTests
  <2>4. t[1][1] = (wire.cert \in TrustedCerts)
    BY DEF CertificateTests
  <2> HIDE DEF t
  <2>5. t[1][1]
    BY <2>2, <2>3 DEF Failing, t
  <2> QED
    BY <2>4, <2>5
<1>13. \A k \in DOMAIN BindingTests(wire, verified) : BindingTests(wire, verified)[k][1]
  BY <1>10 DEF Failing
<1>14. \A k \in DOMAIN PossessionTests(wire, verified) : PossessionTests(wire, verified)[k][1]
  BY <1>10 DEF Failing
<1> QED
  BY <1>1, <1>7, <1>11, <1>12, <1>13, <1>14

\* The tests that passed show what the token is bound to.
LEMMA BindingShown == CheckInv => BindingProved
<1> SUFFICES ASSUME CheckInv, told = 200, verified # None
             PROVE  /\ verified.x5t # None =>
                         wire.cert = verified.x5t /\ wire.cert \in TrustedCerts
                    /\ verified.jkt # None =>
                         /\ wire.proof.key = verified.jkt /\ wire.proof.fresh
                         /\ wire.proof.htm = "this" /\ wire.proof.htu = "this"
                         /\ wire.scheme # "BEARER" => wire.proof.ath = verified
                    /\ verified.jkt = None /\ verified.jwk # None =>
                         /\ wire.signature.key = verified.jwk
                         /\ wire.signature.covers \cap wire.signature.differs = {}
                         /\ Lines \ wire.signature.differs # {}
  BY DEF BindingProved
<1>1. /\ wire \in Wires /\ Presented(wire) # <<>> /\ verified = Presented(wire)[2]
      /\ wire.cert # None => wire.cert \in TrustedCerts
      /\ Bears(Presented(wire))
      /\ \A k \in DOMAIN BindingTests(wire, verified) : BindingTests(wire, verified)[k][1]
      /\ \A k \in DOMAIN PossessionTests(wire, verified) : PossessionTests(wire, verified)[k][1]
  BY AllPassed
<1>2. wire \in WireType
  BY <1>1, WireAssumption
<1>3. ASSUME verified.x5t # None
      PROVE  wire.cert = verified.x5t /\ wire.cert \in TrustedCerts
  <2>1. BindingTests(wire, verified)[1][1] /\ BindingTests(wire, verified)[2][1]
    BY <1>1 DEF BindingTests
  <2> QED
    BY <1>1, <1>3, <2>1 DEF BindingTests
<1>4. ASSUME verified.jkt # None
      PROVE  /\ wire.proof.key = verified.jkt /\ wire.proof.fresh
             /\ wire.proof.htm = "this" /\ wire.proof.htu = "this"
             /\ wire.scheme # "BEARER" => wire.proof.ath = verified
  <2> DEFINE p == wire.proof
             raw == RawAccessToken(Presented(wire))
  <2>1. wire.scheme # "BEARER" => raw = verified
    <3>1. Presented(wire)[1] \in {"Bearer", "bearer", "BEARER"}
      BY <1>1 DEF Bears, Schemes
    <3>2. wire.scheme # "BEARER" => Presented(wire)[1] # "BEARER"
      <4>1. Presented(wire) = <<wire.scheme, wire.header>>
            \/ Presented(wire) = <<"Bearer", wire.cookie>>
        BY <1>1 DEF Presented
      <4> QED
        BY <4>1
    <3> QED
      BY <1>1, <3>1, <3>2 DEF RawAccessToken
  <2>2. PossessionTests(wire, verified) = ProofTests(p, verified, raw)
    BY <1>4 DEF PossessionTests
  <2>3. \A k \in DOMAIN ProofTests(p, verified, raw) : ProofTests(p, verified, raw)[k][1]
    BY <1>1, <2>2
  <2>4. p.htm \in Targets /\ p.htu \in Targets
    BY <1>2 DEF WireType, ProofType
  <2> HIDE DEF p, raw
  <2>5. /\ p.htm \notin {"none", "other"} /\ p.htu \notin {"none", "other"}
        /\ p.key = verified.jkt /\ p.fresh
        /\ raw # None => p.ath = raw
    <3> DEFINE t == ProofTests(p, verified, raw)
    <3>1. /\ t[2][1] /\ t[3][1] /\ t[4][1] /\ t[5][1]
          /\ t[7][1] /\ t[8][1] /\ t[10][1]
      <4>1. \A k \in 1..10 : k \in DOMAIN t
        BY DEF ProofTests
      <4> HIDE DEF t
      <4> QED
        BY <2>3, <4>1 DEF t
    <3> QED
      BY <3>1 DEF ProofTests
  <2>6. verified # None
    OBVIOUS
  <2>7. p.htm = "this" /\ p.htu = "this" /\ (wire.scheme # "BEARER" => p.ath = verified)
    BY <2>1, <2>4, <2>5, <2>6 DEF Targets
  <2> QED
    BY <2>5, <2>7 DEF p
<1>5. ASSUME verified.jkt = None, verified.jwk # None
      PROVE  /\ wire.signature.key = verified.jwk
             /\ wire.signature.covers \cap wire.signature.differs = {}
             /\ Lines \ wire.signature.differs # {}
  <2> DEFINE s == wire.signature
             lines == IF s.covers = {} THEN {"(request-target)"} ELSE s.covers
  <2>1. PossessionTests(wire, verified) = SignatureTests(s, verified)
    BY <1>5 DEF PossessionTests
  <2>2. \A k \in DOMAIN SignatureTests(s, verified) : SignatureTests(s, verified)[k][1]
    BY <1>1, <2>1
  <2>3. s.covers \subseteq Lines
    BY <1>2 DEF WireType, SignatureType
  <2> HIDE DEF s
  <2>4. s.key = verified.jwk /\ lines \cap s.differs = {}
    <3> DEFINE t == SignatureTests(s, verified)
    <3>1. t[2][1]
      <4>1. 2 \in DOMAIN t
        BY DEF SignatureTests
      <4> HIDE DEF t
      <4> QED
        BY <2>2, <4>1 DEF t
    <3> QED
      BY <3>1 DEF SignatureTests
  <2>5. s.covers \subseteq lines /\ lines \subseteq Lines /\ lines # {}
    BY <2>3 DEF Lines
  <2> HIDE DEF lines
  <2>6. s.covers \cap s.differs = {} /\ Lines \ s.differs # {}
    BY <2>4, <2>5
  <2> QED
    BY <2>4, <2>6 DEF s
<1> QED
  BY <1>3, <1>4, <1>5

\* A proof made as it is asked for passes every test of it, with the raw access
\* token or without.
LEMMA ProofMadePasses ==
    ASSUME NEW p, NEW token, NEW raw \in {token, None}, ProofMade(p, token)
    PROVE  Failing(ProofTests(p, token, raw)) = {}
<1> DEFINE t == ProofTests(p, token, raw)
<1>1. DOMAIN t = 1..10
  BY DEF ProofTests
<1>2. /\ t[1][1] /\ t[2][1] /\ t[3][1] /\ t[4][1] /\ t[5][1]
      /\ t[6][1] /\ t[7][1] /\ t[8][1] /\ t[10][1]
  BY DEF ProofTests, ProofMade
<1>3. raw # None => token # None
  OBVIOUS
<1>4. t[9][1]
  BY <1>3 DEF ProofTests, ProofMade
<1> HIDE DEF t
<1>5. \A k \in 1..10 : t[k][1]
  BY <1>2, <1>4
<1> QED
  BY <1>1, <1>5 DEF Failing, t

\* A signature that covers nothing else than what is there passes.
LEMMA SignatureMadePasses ==
    ASSUME NEW s, NEW token, SignatureMade(s, token)
    PROVE  Failing(SignatureTests(s, token)) = {}
<1> DEFINE t == SignatureTests(s, token)
<1>1. DOMAIN t = 1..2
  BY DEF SignatureTests
<1>2. \A covers : covers \cap s.differs = {}
  BY DEF SignatureMade
<1>3. t[1][1] /\ t[2][1]
  BY <1>2 DEF SignatureTests, SignatureMade
<1> HIDE DEF t
<1>4. \A k \in 1..2 : t[k][1]
  BY <1>3
<1> QED
  BY <1>1, <1>4 DEF Failing, t

\* Nothing refuses a request that is in order before the policy.
LEMMA InOrderPasses ==
    ASSUME NEW w, InOrder(w)
    PROVE  FirstRefusal(w) = None
<1> DEFINE token == Presented(w)[2]
<1>1. Presented(w) # <<>> => TokenRead(w) = token
  BY DEF TokenRead
<1>2. w.cert # None => Refusal(CertificateTests(w)) = None /\ Refusal(RevocationTests(w)) = None
  <2> SUFFICES ASSUME w.cert # None
               PROVE  Failing(CertificateTests(w)) = {} /\ Failing(RevocationTests(w)) = {}
    BY TestLists, RefusalStatus
  <2>1. w.cert \in TrustedCerts /\ w.revoked = "no"
    BY DEF InOrder
  <2>2. Failing(CertificateTests(w)) = {}
    <3> DEFINE t == CertificateTests(w)
    <3>1. DOMAIN t = 1..1
      BY DEF CertificateTests
    <3>2. t[1][1]
      BY <2>1 DEF CertificateTests
    <3> HIDE DEF t
    <3> QED
      BY <3>1, <3>2 DEF Failing, t
  <2>3. Failing(RevocationTests(w)) = {}
    <3> DEFINE t == RevocationTests(w)
    <3>1. DOMAIN t = 1..2
      BY DEF RevocationTests
    <3>2. t[1][1] /\ t[2][1]
      BY <2>1 DEF RevocationTests
    <3> HIDE DEF t
    <3>3. \A k \in 1..2 : t[k][1]
      BY <3>2
    <3> QED
      BY <3>1, <3>3 DEF Failing, t
  <2> QED
    BY <2>2, <2>3
<1>3. ASSUME Presented(w) # <<>>
      PROVE  TokenLeft(w) = None
  <2>1. /\ Bears(Presented(w)) /\ token.good /\ token.x5t \in {None, w.cert}
        /\ token.jkt # None => ProofMade(w.proof, token)
        /\ token.jkt = None /\ token.jwk # None => SignatureMade(w.signature, token)
    BY <1>1, <1>3 DEF InOrder
  <2>2. Verifies(Presented(w))
    BY <2>1 DEF Verifies
  <2>3. Failing(BindingTests(w, token)) = {}
    <3> DEFINE t == BindingTests(w, token)
    <3>1. DOMAIN t = 1..2
      BY DEF BindingTests
    <3>2. t[1][1] /\ t[2][1]
      <4> HIDE DEF token
      <4> QED
        BY <2>1 DEF BindingTests
    <3> HIDE DEF t
    <3>3. \A k \in 1..2 : t[k][1]
      BY <3>2
    <3> QED
      BY <3>1, <3>3 DEF Failing, t
  <2>4. Failing(PossessionTests(w, token)) = {}
    <3>1. CASE token.jkt # None
      <4>1. RawAccessToken(Presented(w)) \in {token, None}
        BY DEF RawAccessToken
      <4> HIDE DEF token
      <4> QED
        BY <2>1, <3>1, <4>1, ProofMadePasses DEF PossessionTests
    <3>2. CASE token.jkt = None /\ token.jwk # None
      BY <2>1, <3>2, SignatureMadePasses DEF PossessionTests
    <3>3. CASE token.jkt = None /\ token.jwk = None
      BY <3>3 DEF PossessionTests, Failing
    <3> QED
      BY <3>1, <3>2, <3>3
  <2>5. Refusal(BindingTests(w, token)) = None /\ Refusal(PossessionTests(w, token)) = None
    BY <2>3, <2>4, TestLists, RefusalStatus
  <2> QED
    BY <1>3, <2>2, <2>5 DEF TokenLeft, Then
<1>4. TokenLeft(w) = None
  BY <1>3 DEF TokenLeft
<1> QED
  BY <1>2, <1>4 DEF FirstRefusal, Then

\* The backend takes the token that was verified.
LEMMA SameTokenStep == CheckInv => SameToken
<1> SUFFICES ASSUME CheckInv, told = 200, verified # None, wire.scheme \in {"Bearer", None}
             PROVE  BackendToken(wire) = verified
  BY DEF SameToken
<1>1. Presented(wire) # <<>> /\ verified = Presented(wire)[2]
  BY DEF CheckInv, VerifiedInv
<1>2. None # "Bearer"
  BY NoneAssumption DEF Schemes
<1> QED
  BY <1>1, <1>2 DEF Presented, BackendToken

\* What a list of one test refuses.
LEMMA OneTest ==
    ASSUME NEW x, x[2] \in Statuses
    PROVE  /\ IsTestList(<<x>>)
           /\ ~x[1] => Refusal(<<x>>) = Status(x[2])
<1> DEFINE X == {x}
           t == <<x>>
<1>1. t \in Seq(X) /\ \A y \in X : y[2] \in Statuses
  OBVIOUS
<1>2. t[1] = x /\ DOMAIN t = {1}
  OBVIOUS
<1> HIDE DEF X, t
<1>3. IsTestList(t)
  BY <1>1 DEF IsTestList
<1>4. ASSUME ~x[1] PROVE Refusal(t) = Status(x[2])
  <2>1. 1 \in Failing(t) /\ \A l \in Failing(t) : 1 <= l
    BY <1>2, <1>4 DEF Failing
  <2> QED
    BY <1>2, <1>3, <2>1, RefusalIs
<1> QED
  BY <1>3, <1>4 DEF t

\* Whoever has a certificate and a token in the header is asked by server.go what
\* Check asks, and whoever has not is refused by it.
LEMMA ServerAsks ==
    ASSUME NEW w \in Wires
    PROVE  /\ w.cert # None /\ w.scheme # None => ServerRefusal(w) = FirstRefusal(w)
           /\ w.cert = None \/ w.scheme = None => ServerRefusal(w) # None
<1> DEFINE auth == <<w.scheme, w.header>>
           C == CertificateTests(w)
           R == RevocationTests(w)
           D == <<<<FALSE, 401>>>>
           B == BindingTests(w, w.header)
           P == PossessionTests(w, w.header)
<1>1. IsTestList(C) /\ IsTestList(R) /\ IsTestList(B) /\ IsTestList(P)
  BY TestLists
<1>2. IsTestList(D) /\ Refusal(D) = 401
  <2> DEFINE x == <<FALSE, 401>>
  <2>1. x[2] = 401 /\ ~x[1] /\ 401 \in Statuses
    BY DEF Statuses
  <2> HIDE DEF x
  <2>2. IsTestList(<<x>>) /\ Refusal(<<x>>) = Status(401)
    BY <2>1, OneTest
  <2> QED
    BY <2>2 DEF x, Status
<1>3. w.cert \notin TrustedCerts => Refusal(C) # None
  <2> DEFINE x == <<w.cert \in TrustedCerts, 401>>
  <2>1. x[2] = 401 /\ (x[1] <=> w.cert \in TrustedCerts) /\ 401 \in Statuses
    BY DEF Statuses
  <2>2. C = <<x>>
    BY DEF CertificateTests
  <2> HIDE DEF x, C
  <2>3. w.cert \notin TrustedCerts => Refusal(<<x>>) = Status(401)
    BY <2>1, OneTest
  <2>4. Status(401) # None
    BY NoneAssumption DEF Status
  <2> QED
    BY <2>2, <2>3, <2>4
<1>4. ServerRefusal(w) = IF w.scheme = None \/ ~Verifies(auth) THEN Refusal(C \o R \o D)
                         ELSE Refusal(C \o R \o B \o P)
  BY DEF ServerRefusal
<1> HIDE DEF C, R, D, B, P
<1>5. /\ IsTestList(C \o R) /\ Refusal(C \o R) = Then(Refusal(C), Refusal(R))
      /\ Refusal(C \o R \o D) = Then(Refusal(C \o R), 401)
  BY <1>1, <1>2, RefusalAppend
<1>6. IsTestList(C \o R \o B) /\ Refusal(C \o R \o B) = Then(Refusal(C \o R), Refusal(B))
  BY <1>1, <1>5, RefusalAppend
<1>7. Refusal(C \o R \o B \o P) = Then(Refusal(C \o R \o B), Refusal(P))
  BY <1>1, <1>6, RefusalAppend
<1>8. None # 401
  BY NoneAssumption
<1>9. ASSUME w.cert # None, w.scheme # None PROVE ServerRefusal(w) = FirstRefusal(w)
  <2>1. Presented(w) = auth /\ auth # <<>> /\ auth[2] = w.header
    BY <1>9 DEF Presented
  <2>2. FirstRefusal(w) = Then(Refusal(C), Then(Refusal(R), TokenLeft(w)))
    BY <1>9 DEF FirstRefusal, C, R
  <2>3. CASE ~Verifies(auth)
    <3>1. TokenLeft(w) = 401
      BY <2>1, <2>3 DEF TokenLeft
    <3> QED
      BY <1>4, <1>5, <1>8, <2>2, <2>3, <3>1 DEF Then
  <2>4. CASE Verifies(auth)
    <3>1. TokenLeft(w) = Then(Refusal(B), Refusal(P))
      BY <2>1, <2>4 DEF TokenLeft, B, P
    <3>2. ServerRefusal(w) = Refusal(C \o R \o B \o P)
      BY <1>4, <1>9, <2>4
    <3> QED
      BY <1>5, <1>6, <1>7, <2>2, <3>1, <3>2 DEF Then
  <2> QED
    BY <2>3, <2>4
<1>10. ASSUME w.scheme = None PROVE ServerRefusal(w) # None
  BY <1>4, <1>5, <1>8, <1>10 DEF Then
<1>11. ASSUME w.cert = None PROVE ServerRefusal(w) # None
  <2>1. w.cert \notin TrustedCerts
    BY <1>11, NoneAssumption, CertAssumption
  <2>2. Refusal(C) # None
    BY <1>3, <2>1
  <2> QED
    BY <1>4, <1>5, <1>6, <1>7, <2>2 DEF Then
<1> QED
  BY <1>9, <1>10, <1>11

\* Both programs give one verdict up to the policy.
LEMMA TwinsStep == CheckInv => TwinsAgree
<1> SUFFICES ASSUME CheckInv PROVE TwinsAgree
  OBVIOUS
<1>1. wire \in Wires
  BY DEF CheckInv, CallInv
<1>2. /\ wire.cert # None /\ wire.scheme # None => ServerRefusal(wire) = FirstRefusal(wire)
      /\ wire.cert = None \/ wire.scheme = None => ServerRefusal(wire) # None
  BY <1>1, ServerAsks
<1>3. LeftInv
  BY DEF CheckInv
<1> QED
  BY <1>2, <1>3 DEF LeftInv, TwinsAgree

\* Who sends no token is told to log in.
LEMMA LogInStep == CheckInv /\ IInv /\ RequestInv => ToldToLogIn
<1> SUFFICES ASSUME CheckInv, IInv, RequestInv,
                    told = 403, Presented(wire) = <<>>, pc \in Ends, Deployed
             PROVE  /\ pc = "refused by policy"
                    /\ \A k \in Matching :
                         (\A l \in Matching : l <= k)
                           => conditions[k] # NoCondition /\ ~AsksClaimFirst(conditions[k])
  BY DEF ToldToLogIn
<1>1. scopes = {} /\ request.claims = Anonymous
  BY DEF CheckInv, CallInv, TokenRead, ClaimsOf, ScopesOfToken
<1>2. told = CASE pc = "allow" -> 200
               [] pc = "refused by policy" ->
                    IF Presented(wire) = <<>> /\ TokenRequired THEN 401 ELSE 403
               [] pc = "refused by scopes" -> ScopeStatus
               [] pc = "refused by rate" -> RateStatus(wire)
  <2>1. stage = "answered"
    BY NoneAssumption DEF CheckInv, LeftInv
  <2> QED
    BY <2>1 DEF CheckInv, AnswerInv
<1>3. pc = "refused by policy" /\ ~TokenRequired
  <2>1. ASSUME pc = "allow" PROVE FALSE
    <3>1. told = 200
      BY <1>2, <2>1, Zenon
    <3> QED
      BY <3>1
  <2>2. ASSUME pc = "refused by scopes" PROVE FALSE
    <3>1. told = ScopeStatus
      BY <1>2, <2>2, Zenon
    <3> QED
      BY <1>1, <3>1 DEF ScopeStatus
  <2>3. ASSUME pc = "refused by rate" PROVE FALSE
    <3>1. told = RateStatus(wire)
      BY <1>2, <2>3, Zenon
    <3> QED
      BY <3>1 DEF RateStatus
  <2>4. pc = "refused by policy"
    BY <2>1, <2>2, <2>3 DEF Ends
  <2>5. ASSUME TokenRequired PROVE FALSE
    <3>1. told = 401
      BY <1>2, <2>4, <2>5, Zenon
    <3> QED
      BY <3>1
  <2> QED
    BY <2>4, <2>5
<1>4. policy.rules \in Seq(RuleSet) /\ policy.global = NoRule /\ ~WalkPermits
  BY <1>3 DEF IInv, TypeOK, RefusedRightly, Deployed
<1>5. Deciding = {}
  <2>1. Deciding \in SUBSET Nat
    BY <1>4 DEF Deciding, Matching
  <2>2. ASSUME NEW k \in Deciding PROVE ActionOf(policy.rules[k]) # "deny"
    BY DEF Deciding, Matching, Deployed, ActionOf
  <2>3. ASSUME Deciding # {} PROVE FALSE
    <3>1. PICK k \in Deciding : First(k)
      BY <2>1, <2>3, LeastExists DEF First
    <3> QED
      BY <1>4, <2>2, <3>1 DEF WalkPermits, GlobalHolds
  <2> QED
    BY <2>3
<1>6. ASSUME NEW k \in Matching, \A l \in Matching : l <= k
      PROVE  conditions[k] # NoCondition /\ ~AsksClaimFirst(conditions[k])
  <2>1. k \in DOMAIN policy.rules
    BY DEF Matching
  <2>2. ~ReasonIsClaim(k)
    BY <1>3, <1>5, <1>6 DEF TokenRequired
  <2>3. policy.rules[k].constraint = "miss"
    BY <1>5, <2>1 DEF Deciding, Satisfied, Deployed
  <2>4. conditions[k] # NoCondition
    BY <2>1, <2>3 DEF Deployed
  <2>5. conditions[k] \in Conditions
    BY <2>1, <2>4, ConstraintAssumption DEF RequestInv
  <2>6. ~LacksClaim(conditions[k], request)
    BY <2>1, <2>2, <2>4 DEF ReasonIsClaim, Deployed
  <2> QED
    BY <1>1, <2>4, <2>5, <2>6, AskedIsLacked
<1> QED
  BY <1>3, <1>6

-----------------------------------------------------------------------------
\* A bound token goes through where its binding points and nowhere else, for all
\* certificates, keys, tokens and requests, copied ones among them.
THEOREM BindingIsProved == CheckSpec => []BindingProved
<1>1. CheckInv /\ IInv /\ RequestInv => BindingProved
  BY BindingShown
<1> QED
  BY <1>1, CheckInvariance, PTL

\* No check before the policy turns away the owner of what the request shows, for
\* all certificates, keys, tokens and requests.
THEOREM OwnersAreAdmitted == CheckSpec => []OwnerAdmitted
<1>1. CheckInv /\ IInv /\ RequestInv => OwnerAdmitted
  <2> SUFFICES ASSUME CheckInv, InOrder(wire), stage = "answered", pc \notin Ends
               PROVE  FALSE
    BY DEF OwnerAdmitted
  <2>1. told = FirstRefusal(wire) /\ told # None
    BY DEF CheckInv, LeftInv
  <2> QED
    BY <2>1, InOrderPasses
<1> QED
  BY <1>1, CheckInvariance, PTL

\* The handler behind the proxy acts for the token that was verified.
THEOREM TokensAreTheSame == CheckSpec => []SameToken
<1>1. CheckInv /\ IInv /\ RequestInv => SameToken
  BY SameTokenStep
<1> QED
  BY <1>1, CheckInvariance, PTL

\* The program that is tested gives the verdict of the one that is deployed.
THEOREM TwinsGiveOneVerdict == CheckSpec => []TwinsAgree
<1>1. CheckInv /\ IInv /\ RequestInv => TwinsAgree
  BY TwinsStep
<1> QED
  BY <1>1, CheckInvariance, PTL

\* Who sends no token is told to log in, under every policy of the deployed shape.
THEOREM StrangersAreToldToLogIn == CheckSpec => []ToldToLogIn
  BY LogInStep, CheckInvariance, PTL
=============================================================================
