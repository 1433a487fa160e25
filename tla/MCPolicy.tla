------------------------------ MODULE MCPolicy ------------------------------
(* Policies of up to three rules, made of rules that do not match, that     *)
(* match and hold, and that match and fail, under each action; and policies *)
(* of up to two rules of the deployed shape, with constraints like those of *)
(* config/authz-policy.yaml and requests that satisfy them or not.  Those   *)
(* are asked apart; whole calls of Check are asked under one rule for every *)
(* request of MCWires, and under up to two rules for the ordinary ones.     *)
EXTENDS Admission

Plain0 == [path |-> "absent", prefix |-> "hit", methods |-> "absent",
           subject |-> "absent", cert |-> "absent", claims |-> "absent",
           constraint |-> "absent", action |-> "", scopes |-> {}, limit |-> NoBlock]

MCRules ==
    {[Plain0 EXCEPT !.constraint = c, !.action = a] : c \in {"hit", "miss"}, a \in Actions}
    \cup {[Plain0 EXCEPT !.constraint = c, !.action = "allow", !.scopes = {"read"}] : c \in Parts}
    \cup {[Plain0 EXCEPT !.prefix = "miss", !.action = "allow"],
          [Plain0 EXCEPT !.path = "hit", !.prefix = "miss", !.action = "allow"],
          [Plain0 EXCEPT !.subject = "miss", !.constraint = "hit", !.scopes = {"write"}],
          [Plain0 EXCEPT !.limit = "per rule", !.action = "allow"],
          [Plain0 EXCEPT !.limit = NoLimit, !.methods = "hit"]}

MCGlobals ==
    {NoRule,
     [Plain0 EXCEPT !.prefix = "absent", !.scopes = {"read"}],
     [Plain0 EXCEPT !.prefix = "absent", !.limit = "global", !.constraint = "hit"],
     [Plain0 EXCEPT !.prefix = "absent", !.cert = "miss"]}

\* Rules for whole calls.
Admitting == [Plain0 EXCEPT !.action = "allow"]
LimitedRules == {[Admitting EXCEPT !.limit = l] : l \in {NoBlock, "per rule"}}
AskedRules ==
    {[Admitting EXCEPT !.constraint = c, !.scopes = s, !.prefix = p] :
        c \in Parts, s \in {{}, {"read"}}, p \in {"hit", "miss"}}
MCAllRules == MCRules \cup LimitedRules \cup AskedRules

MCScopes == {"base", "read", "write"}
MCBase == {"base"}
MCLimits == {"per rule", "global"}

MCClaims == {"sub", "roles", "email"}
MCLower == [w \in {Blank, "user", "director", "id"} |-> w]
MCPartOf == {<<w, w>> : w \in DOMAIN MCLower \ {Blank}}

Of(words) == [given |-> words # {}, words |-> words]
Asked(roles, mail, time) ==
    [claims |-> [c \in MCClaims |-> CASE c = "sub" -> Of({"id"})
                                      [] c = "roles" -> Of(roles)
                                      [] c = "email" -> Of(mail)],
     cert |-> Blank, method |-> Blank, time |-> time]

\* Hours of the week in UTC: Monday at 5 and at 1, which is Monday at 12 and
\* at 8 in UTC+7; Monday at 20, which is Tuesday at 3; Sunday at 20, which is
\* Monday at 3; and Friday at 19, which is Saturday at 2.
MCRequests ==
    {Asked(roles, mail, time) :
        roles \in {{}, {"user"}, {"director"}, {"user", "director"}}, mail \in {{}, {"id"}},
        time \in {24 + 5, 24 + 20, 24 + 1, 20, 6 * 24 - 5}}

Leaf(fact, op, value) == [op |-> op, fact |-> fact, value |-> value, of |-> <<>>]
Node(op, of) == [op |-> op, fact |-> Blank, value |-> <<>>, of |-> of]

HasRole(r) == Leaf("roles", "contains", <<Word(r)>>)
WeekEnd == Leaf("request.time.day_of_week", "in", <<Number(0), Number(6)>>)
WorkingHours == Leaf("request.time.hour", "between", <<Number(7), Number(22)>>)
HasEmail == Leaf("email", "exists", <<>>)

MCConditions ==
    {Leaf("sub", "exists", <<>>),
     Node("all", <<HasRole("user"), Node("not", <<WeekEnd>>)>>),
     Node("all", <<HasRole("director"), WorkingHours, HasEmail>>),
     Node("any", <<Leaf("roles", "in", <<Word("director")>>), Node("not", <<HasEmail>>)>>),
     Node("not", <<Leaf("email", "neq", <<Word("id")>>)>>)}

\* Fails before it asks for a claim.
HoursFirst == Node("all", <<WorkingHours, HasRole("user")>>)
AskedCalls == {HoursFirst, HasRole("user"), HasEmail}
MCConstraints == MCConditions \cup AskedCalls

PartsOf(S) == UNION {ToSet(c.of) : c \in S}
MCDepth ==
    LET parts == PartsOf(MCConstraints)
    IN  [c \in MCConstraints \cup parts \cup PartsOf(parts) |->
           IF c.of = <<>> THEN 0 ELSE IF \A d \in ToSet(c.of) : d.of = <<>> THEN 1 ELSE 2]

-----------------------------------------------------------------------------
(* Credentials.                                                            *)

MCCerts == {"mine", "theirs", "forged"}
MCTrusted == {"mine", "theirs"}
MCKeys == {"key", "other key"}

Plain1 == [good |-> TRUE, x5t |-> None, jkt |-> None, jwk |-> None,
           scopes |-> {"base", "read"}, claims |-> Asked({"user"}, {}, 20).claims]
Cookie == [Plain1 EXCEPT !.claims = Asked({"director"}, {"id"}, 20).claims]
MyProof == [Plain1 EXCEPT !.jkt = "key"]
MySignature == [Plain1 EXCEPT !.jwk = "key"]
Bound ==
    {[Plain1 EXCEPT !.x5t = "mine"], [Plain1 EXCEPT !.x5t = "theirs"],
     [Cookie EXCEPT !.x5t = "theirs", !.jkt = "key"], [MyProof EXCEPT !.jwk = "other key"]}
MCTokens ==
    {Plain1, Cookie, MyProof, MySignature, [Plain1 EXCEPT !.good = FALSE],
     [Plain1 EXCEPT !.scopes = {}]} \cup Bound

NoProof == [given |-> FALSE, signed |-> FALSE, key |-> None, htm |-> "none", htu |-> "none",
            jti |-> FALSE, fresh |-> FALSE, ath |-> None]
NoSignature == [given |-> FALSE, suited |-> FALSE, key |-> None, covers |-> {}, differs |-> {}]

Wire0 == [cert |-> "mine", revoked |-> "no", scheme |-> "Bearer", header |-> Plain1,
          cookie |-> None, session |-> None, proof |-> NoProof, signature |-> NoSignature]
NoHeader == [Wire0 EXCEPT !.scheme = None, !.header = None]
Bare == [NoHeader EXCEPT !.cert = None]

\* Every certificate, and every way to send a token.
SentWires ==
    {[Wire0 EXCEPT !.cert = c, !.revoked = r, !.scheme = s, !.header = t, !.cookie = k,
                   !.session = l] :
        c \in {None, "mine", "forged"}, r \in {"no", "yes", "unknown"},
        s \in Schemes, t \in {None} \cup MCTokens, k \in {None, Cookie}, l \in {None, Plain1}}
    \cup {[NoHeader EXCEPT !.cert = c, !.cookie = k, !.session = l] :
            c \in {None, "mine"}, k \in {None} \cup MCTokens, l \in {None, Plain1}}

\* Every proof for a token bound to a key, in a header or a cookie.
Proofs ==
    {[given |-> TRUE, signed |-> TRUE, key |-> y, htm |-> m, htu |-> u, jti |-> j,
      fresh |-> f, ath |-> a] :
        y \in MCKeys, m \in Targets, u \in Targets, j \in BOOLEAN, f \in BOOLEAN,
        a \in {None, MyProof, Plain1}}
    \cup {[NoProof EXCEPT !.given = TRUE], NoProof}
ProofWires ==
    {[w EXCEPT !.header = t, !.proof = p] :
        w \in {Wire0, [Wire0 EXCEPT !.scheme = "bearer"], [Wire0 EXCEPT !.scheme = "BEARER"],
               [Wire0 EXCEPT !.cert = None]},
        t \in {MyProof, [MyProof EXCEPT !.jwk = "other key"]}, p \in Proofs}
    \cup {[NoHeader EXCEPT !.cookie = MyProof, !.proof = p] : p \in Proofs}

\* Every signature over some of the lines, made here or copied from elsewhere.
Signatures ==
    {[given |-> TRUE, suited |-> u, key |-> y, covers |-> c, differs |-> d] :
        u \in BOOLEAN, y \in MCKeys, c \in SUBSET Lines, d \in SUBSET Lines}
SignatureWires ==
    {[Wire0 EXCEPT !.header = MySignature, !.signature = s] : s \in Signatures \cup {NoSignature}}

AllWires == SentWires \cup ProofWires \cup SignatureWires
MCWires == AllWires
Ordinary == {Wire0, Bare, [Bare EXCEPT !.cert = "mine"]}

MCAllRequests ==
    MCRequests
      \cup {[claims |-> claims, cert |-> Blank, method |-> Blank, time |-> time] :
              claims \in {Anonymous} \cup {t.claims : t \in MCTokens}, time \in {20, 24 + 5}}

-----------------------------------------------------------------------------
\* The policy apart: either only the verdicts of constraints are known, or the
\* policy is of the deployed shape and every constraint is given.
PolicyInit ==
    /\ policy \in [default : Defaults, global : MCGlobals, rules : BoundedSeq(MCRules, MaxRules)]
    /\ Init
    /\ \/ /\ conditions = [k \in DOMAIN policy.rules |-> NoCondition]
          /\ request = Asked({}, {}, 20)
       \/ /\ policy.global = NoRule /\ Len(policy.rules) <= 2
          /\ \A k \in DOMAIN policy.rules :
                policy.rules[k].action = "allow" /\ policy.rules[k].path = "absent"
          /\ request \in MCRequests
          /\ conditions \in [DOMAIN policy.rules -> MCConditions \cup {NoCondition}]
          /\ \A k \in DOMAIN policy.rules :
                conditions[k] = NoCondition => policy.rules[k].constraint = "absent"
    /\ RequestInit
    /\ wire = Bare /\ stage = None /\ verified = None /\ told = None

Policies(rules, n) ==
    [default : {"deny"}, global : {NoRule}, rules : BoundedSeq(rules, n)]

\* Whole calls.
CallInit ==
    \/ /\ wire \in MCWires
       /\ scopes = ScopesOfToken(TokenRead(wire))
       /\ request = [claims |-> ClaimsOf(TokenRead(wire)), cert |-> Blank, method |-> Blank,
                     time |-> 20]
       /\ policy \in Policies(LimitedRules, 1)
       /\ conditions = [k \in DOMAIN policy.rules |-> NoCondition]
       /\ AdmissionInit
    \/ /\ wire \in Ordinary
       /\ scopes = ScopesOfToken(TokenRead(wire))
       /\ request \in [claims : {ClaimsOf(TokenRead(wire))}, cert : {Blank}, method : {Blank},
                       time : {20, 24 + 5}]
       /\ policy \in Policies(AskedRules, 2)
       /\ conditions \in [DOMAIN policy.rules -> {NoCondition} \cup AskedCalls]
       /\ AdmissionInit

MCInit == PolicyInit \/ CallInit
MCNext == CheckNext \/ (stage = None /\ AdviceNext /\ UNCHANGED credentials)
MCSpec == MCInit /\ [][MCNext]_checkVars
=============================================================================
