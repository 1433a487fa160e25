------------------------------ MODULE Admission ------------------------------
(***************************************************************************)
(* One call of authzServer.Check of the deployed program                   *)
(* (cmd/server/main.go) from the request to the status it answers: the     *)
(* certificate and its revocation, the token, the keys the token is bound  *)
(* to, and then the policy (PolicyEval) on the claims of that token.       *)
(* Beside it: the verdict of ext_authz/server.go, which the tests exercise,*)
(* and the token the backend takes from the same request                   *)
(* (backend/routes/api.py).                                                *)
(*                                                                         *)
(* A signature, a thumbprint or a hash is what it was made with and over.  *)
(* Nonces, and what is remembered of earlier requests, are in AuthzCheck.  *)
(***************************************************************************)
EXTENDS PolicyAdvice

CONSTANTS
    Certs,          \* client certificates
    TrustedCerts,   \* those that parse and have a chain to CLIENT_CA_BUNDLE
    Keys,           \* keys a token may be bound to
    Tokens,         \* access tokens
    Wires,          \* the requests that may arrive
    None            \* no certificate, token, header, key or claim

TokenType ==
    [good : BOOLEAN,                    \* signature, issuer, audience, time, sub
     x5t : Certs \cup {None}, jkt : Keys \cup {None}, jwk : Keys \cup {None},
     scopes : SUBSET Scopes, claims : [Claims -> [given : BOOLEAN, words : SUBSET Words]]]

\* A DPoP proof: whether it is there and verifies under the key it carries, and
\* the request and the token it was made for.
Targets == {"this", "other", "none"}
ProofType ==
    [given : BOOLEAN, signed : BOOLEAN, key : Keys \cup {None}, htm : Targets, htu : Targets,
     jti : BOOLEAN, fresh : BOOLEAN, ath : Tokens \cup {None}]

\* A Signature header: whether it parses and names an algorithm for its key, the
\* lines it covers, and those of them that are missing here or were different.
Lines == {"(request-target)", "host", "digest"}
SignatureType ==
    [given : BOOLEAN, suited : BOOLEAN, key : Keys \cup {None},
     covers : SUBSET Lines, differs : SUBSET Lines]

\* The word in front of the token of an Authorization header.
Schemes == {"Bearer", "bearer", "BEARER", "Basic"}

WireType ==
    [cert : Certs \cup {None}, revoked : {"no", "yes", "unknown"},
     scheme : Schemes \cup {None}, header : Tokens \cup {None},
     cookie : Tokens \cup {None}, session : Tokens \cup {None},
     proof : ProofType, signature : SignatureType]

ASSUME CertAssumption == TrustedCerts \subseteq Certs
ASSUME TokenAssumption == Tokens \subseteq TokenType
ASSUME NoneAssumption ==
    /\ None \notin Certs /\ None \notin Tokens
    /\ None \notin Schemes /\ None \notin {200, 401, 403, 429}
ASSUME WireAssumption == Wires \subseteq WireType

VARIABLES
    wire,       \* the request
    stage,      \* the check that is next
    verified,   \* the token that was verified, or None
    told        \* the status of the answer, or None

credentials == <<wire, stage, verified, told>>
checkVars == <<adviceVars, credentials>>

-----------------------------------------------------------------------------
(* What is read off the request.                                           *)

\* Mutant of Presented: the cookie comes before the header.
PresentedCookieFirst(w) ==
    IF w.cookie # None THEN <<"Bearer", w.cookie>>
    ELSE IF w.scheme # None THEN <<w.scheme, w.header>> ELSE <<>>

\* authorizationFromHeaders: the header, or the cookie, as a scheme and a token.
Presented(w) ==
    IF w.scheme # None THEN <<w.scheme, w.header>>
    ELSE IF w.cookie # None THEN <<"Bearer", w.cookie>> ELSE <<>>

\* extractBearerToken: the scheme in any spelling, and some token.
Bears(auth) == auth[1] \in Schemes \ {"Basic"} /\ auth[2] # None

\* VerifyAuthorizationHeader
Verifies(auth) == Bears(auth) /\ auth[2].good

\* stripBearerPrefix knows two spellings.
RawAccessToken(auth) == IF auth[1] \in {"Bearer", "bearer"} THEN auth[2] ELSE None

\* Mutant of BackendToken: the cookie comes before the header.
BackendTokenCookieFirst(w) ==
    IF w.cookie # None THEN w.cookie
    ELSE IF w.scheme = "Bearer" THEN w.header ELSE w.session

\* _extract_token, behind the proxy: one spelling, then the cookie, then the
\* session.
BackendToken(w) ==
    IF w.scheme = "Bearer" THEN w.header
    ELSE IF w.cookie # None THEN w.cookie ELSE w.session

-----------------------------------------------------------------------------
(* The checks.  Each is a list of tests in their order, with the status    *)
(* that is answered when a test is the first to fail.                      *)

\* deny: a status that is neither 403 nor 429 becomes 401.
Status(n) == IF n \in {403, 429} THEN n ELSE 401

Refusal(tests) ==
    LET k == SelectInSeq(tests, LAMBDA test : ~test[1])
    IN  IF k = 0 THEN None ELSE Status(tests[k][2])

CertificateTests(w) == <<<<w.cert \in TrustedCerts, 401>>>>

RevocationTests(w) == <<<<w.revoked # "unknown", 500>>, <<w.revoked = "no", 403>>>>

\* ValidateTokenCertBinding
BindingTests(w, token) ==
    <<<<token.x5t # None => w.cert # None, 401>>,
      <<token.x5t # None => token.x5t = w.cert, 403>>>>

\* Mutant of ProofTests: the hash of the access token is not compared.
ProofTestsAnyToken(p, token, raw) ==
    <<<<p.given /\ p.signed, 401>>,
      <<p.htm # "none", 401>>, <<p.htm # "other", 403>>,
      <<p.htu # "none", 401>>, <<p.htu # "other", 403>>,
      <<p.jti, 401>>,
      <<p.key = token.jkt, 403>>,
      <<p.fresh, 401>>,
      <<raw # None => p.ath # None, 401>>>>

\* Mutant of ProofTests: ath is compared where no raw access token was found.
ProofTestsAlwaysAth(p, token, raw) ==
    <<<<p.given /\ p.signed, 401>>,
      <<p.htm # "none", 401>>, <<p.htm # "other", 403>>,
      <<p.htu # "none", 401>>, <<p.htu # "other", 403>>,
      <<p.jti, 401>>,
      <<p.key = token.jkt, 403>>,
      <<p.fresh, 401>>,
      <<p.ath # None, 401>>, <<p.ath = raw, 403>>>>

\* ValidateDPoPBinding; without a raw access token ath is not looked at.
ProofTests(p, token, raw) ==
    <<<<p.given /\ p.signed, 401>>,
      <<p.htm # "none", 401>>, <<p.htm # "other", 403>>,
      <<p.htu # "none", 401>>, <<p.htu # "other", 403>>,
      <<p.jti, 401>>,
      <<p.key = token.jkt, 403>>,
      <<p.fresh, 401>>,
      <<raw # None => p.ath # None, 401>>, <<raw # None => p.ath = raw, 403>>>>

\* ValidateHoKBinding; a header that names no lines covers the first one.
SignatureTests(s, token) ==
    LET covers == IF s.covers = {} THEN {"(request-target)"} ELSE s.covers
    IN  <<<<s.given /\ s.suited, 401>>,
          <<s.key = token.jwk /\ covers \cap s.differs = {}, 401>>>>

\* A token with a jkt needs a proof, and one with a jwk alone a signature.
PossessionTests(w, token) ==
    IF token.jkt # None THEN ProofTests(w.proof, token, RawAccessToken(Presented(w)))
    ELSE IF token.jwk # None THEN SignatureTests(w.signature, token) ELSE <<>>

-----------------------------------------------------------------------------
(* The policy's reasons.                                                   *)

\* evaluateCondition failed for want of a claim: the first part that fails of a
\* list, never a part of any or not.
LacksClaim(c, q) ==
    LET lacks[d \in Conditions] ==
            \/ /\ d.op = "all"
               /\ \E k \in DOMAIN d.of :
                     /\ ~Holds(d.of[k], q, Zone) /\ lacks[d.of[k]]
                     /\ \A l \in 1..(k - 1) : Holds(d.of[l], q, Zone)
            \/ d.op \notin Combined /\ d.fact \in Claims /\ Resolve(d.fact, q, Zone) = {}
    IN  lacks[c]

\* policyRuleSatisfied names the first condition that fails.
ReasonIsClaim(k) ==
    LET r == policy.rules[k]
    IN  /\ r.subject # "miss" /\ r.cert # "miss"
        /\ r.claims = "miss" \/ (conditions[k] # NoCondition /\ LacksClaim(conditions[k], request))

\* Mutant of TokenRequired: the first rule that failed gives the reason, and a
\* rule that denies has none.
TokenRequiredByFirst ==
    /\ Deciding = {}
    /\ \E k \in Matching : ReasonIsClaim(k) /\ \A l \in Matching : k <= l

\* tokenRequiredPolicyReason of a refusal: the reason is that of the rule that
\* denied, or of the last one that failed.
TokenRequired ==
    \/ \E k \in Deciding : First(k) /\ ~Satisfied(policy.rules[k]) /\ ReasonIsClaim(k)
    \/ /\ Deciding = {}
       /\ \E k \in Matching : ReasonIsClaim(k) /\ \A l \in Matching : l <= k

\* ValidateScopes
ScopeStatus == IF scopes = {} THEN 401 ELSE 403

\* enforceRateLimit: nobody to count is no identity.
Unidentified(w) == verified = None /\ w.cert = None
RateStatus(w) == IF Unidentified(w) THEN 401 ELSE 429

-----------------------------------------------------------------------------
(* Check.                                                                  *)

Anonymous == [c \in Claims |-> [given |-> FALSE, words |-> {}]]
ClaimsOf(token) == IF token = None THEN Anonymous ELSE token.claims
ScopesOfToken(token) == IF token = None THEN {} ELSE token.scopes
TokenRead(w) == IF Presented(w) = <<>> THEN None ELSE Presented(w)[2]

\* The policy, as deployed without a global rule, will see the claims and scopes
\* of the token that is read.
AdmissionInit ==
    /\ AdviceInit
    /\ policy.global = NoRule
    /\ \A k \in DOMAIN policy.rules :
          conditions[k] = NoCondition => policy.rules[k].constraint = "absent"
    /\ wire \in Wires
    /\ request.claims = ClaimsOf(TokenRead(wire))
    /\ wire.cert = None => request.cert = Blank
    /\ scopes = ScopesOfToken(TokenRead(wire))
    /\ stage = "certificate" /\ verified = None /\ told = None

Answer(status) == stage' = "answered" /\ told' = status
Proceed(to) == stage' = to /\ told' = told
Test(tests, to) == IF Refusal(tests) = None THEN Proceed(to) ELSE Answer(Refusal(tests))

\* A request without a certificate has an empty identity, and no serial number
\* to look up.
CheckCertificate ==
    /\ stage = "certificate"
    /\ IF wire.cert = None THEN Proceed("token")
       ELSE Test(CertificateTests(wire), "revocation")
    /\ UNCHANGED <<adviceVars, wire, verified>>

CheckRevocation ==
    /\ stage = "revocation"
    /\ Test(RevocationTests(wire), "token")
    /\ UNCHANGED <<adviceVars, wire, verified>>

NoTokenGiven ==
    /\ stage = "token" /\ Presented(wire) = <<>>
    /\ Proceed("policy")
    /\ UNCHANGED <<adviceVars, wire, verified>>

VerifyToken ==
    /\ stage = "token" /\ Presented(wire) # <<>>
    /\ IF Verifies(Presented(wire))
         THEN Proceed("binding") /\ verified' = Presented(wire)[2]
         ELSE Answer(401) /\ UNCHANGED verified
    /\ UNCHANGED <<adviceVars, wire>>

CheckBinding ==
    /\ stage = "binding"
    /\ Test(BindingTests(wire, verified), "possession")
    /\ UNCHANGED <<adviceVars, wire, verified>>

CheckPossession ==
    /\ stage = "possession"
    /\ Test(PossessionTests(wire, verified), "policy")
    /\ UNCHANGED <<adviceVars, wire, verified>>

\* Evaluate, the scopes and the rate limit; whoever cannot be counted is refused.
CheckPolicy ==
    /\ stage = "policy" /\ pc \notin Ends
    /\ AdviceNext
    /\ pc = "rate" /\ decision.limit # NoLimit /\ Unidentified(wire) => pc' # "allow"
    /\ UNCHANGED credentials

\* The end of Check; a caller without a token is told to log in where a token
\* might help.
Respond ==
    /\ stage = "policy" /\ pc \in Ends
    /\ Answer(CASE pc = "allow" -> 200
                [] pc = "refused by policy" ->
                     IF Presented(wire) = <<>> /\ TokenRequired THEN 401 ELSE 403
                [] pc = "refused by scopes" -> ScopeStatus
                [] pc = "refused by rate" -> RateStatus(wire))
    /\ UNCHANGED <<adviceVars, wire, verified>>

Answered == stage = "answered" /\ UNCHANGED checkVars

CheckNext ==
    \/ CheckCertificate \/ CheckRevocation \/ NoTokenGiven \/ VerifyToken
    \/ CheckBinding \/ CheckPossession \/ CheckPolicy \/ Respond \/ Answered

CheckSpec == AdmissionInit /\ [][CheckNext]_checkVars

-----------------------------------------------------------------------------
\* ext_authz/server.go up to the policy: certificate and token must be there,
\* and only the header is read.
ServerRefusal(w) ==
    LET auth == <<w.scheme, w.header>>
    IN  IF w.scheme = None \/ ~Verifies(auth)
          THEN Refusal(CertificateTests(w) \o RevocationTests(w) \o <<<<FALSE, 401>>>>)
          ELSE Refusal(CertificateTests(w) \o RevocationTests(w) \o BindingTests(w, w.header)
                         \o PossessionTests(w, w.header))

-----------------------------------------------------------------------------
(* What Check promises.                                                    *)

\* A token that is bound goes through where its binding points, and nowhere else:
\* on the connection of its certificate, which the client CA signed; with a proof
\* its key made lately for this method and URL, and for this token wherever the
\* header spells its scheme the way stripBearerPrefix knows; or with a signature
\* of its key over lines that are here as they were signed, one at least.  Who
\* sends the proof or the signature is not asked: a copy is as good (Check,
\* ValidateTokenCertBinding, ValidateDPoPBinding, ValidateHoKBinding).
BindingProved ==
    told = 200 /\ verified # None =>
        /\ verified.x5t # None => wire.cert = verified.x5t /\ wire.cert \in TrustedCerts
        /\ verified.jkt # None =>
             /\ wire.proof.key = verified.jkt /\ wire.proof.fresh
             /\ wire.proof.htm = "this" /\ wire.proof.htu = "this"
             /\ wire.scheme # "BEARER" => wire.proof.ath = verified
        /\ verified.jkt = None /\ verified.jwk # None =>
             /\ wire.signature.key = verified.jwk
             /\ wire.signature.covers \cap wire.signature.differs = {}
             /\ Lines \ wire.signature.differs # {}

\* A proof or a signature made as they ask, by the owner of the key.
ProofMade(p, token) ==
    /\ p.given /\ p.signed /\ p.key = token.jkt
    /\ p.htm = "this" /\ p.htu = "this" /\ p.jti /\ p.fresh /\ p.ath = token
SignatureMade(s, token) == s.given /\ s.suited /\ s.key = token.jwk /\ s.differs = {}

\* A request of someone who owns what it shows.
InOrder(w) ==
    LET token == TokenRead(w)
    IN  /\ w.cert # None => w.cert \in TrustedCerts /\ w.revoked = "no"
        /\ Presented(w) # <<>> =>
             /\ Bears(Presented(w)) /\ token.good /\ token.x5t \in {None, w.cert}
             /\ token.jkt # None => ProofMade(w.proof, token)
             /\ token.jkt = None /\ token.jwk # None => SignatureMade(w.signature, token)

\* The owner of a good token is never turned away for want of a key: whose
\* certificate is in order, and who proves possession the way the binding asks,
\* however the header spells its scheme and whatever lines a signature covers,
\* is answered by the policy, the scopes or the rate limit (Check,
\* ValidateDPoPBinding, ValidateHoKBinding).
OwnerAdmitted == InOrder(wire) /\ stage = "answered" => pc \in Ends

\* The handler behind the proxy acts for the token that Check verified, wherever
\* the client put it, if it spells the header the way both read it
\* (authorizationFromHeaders, _extract_token).
SameToken ==
    told = 200 /\ verified # None /\ wire.scheme \in {"Bearer", None}
      => BackendToken(wire) = verified

\* The program that is deployed gives the verdict of the one that is tested: on a
\* request with a certificate and a token in its header both refuse alike before
\* the policy, and what server.go lets through to it so does cmd/server/main.go.
TwinsAgree ==
    /\ stage = "policy" /\ wire.cert # None /\ wire.scheme # None => ServerRefusal(wire) = None
    /\ ServerRefusal(wire) = None /\ stage = "answered" => pc \in Ends
    /\ stage = "answered" /\ pc \notin Ends /\ wire.cert # None /\ wire.scheme # None
         => told = ServerRefusal(wire)

\* The first thing a constraint asks is a claim of the token.
AsksClaimFirst(c) ==
    LET asks[d \in Conditions] ==
            \/ d.op = "all" /\ d.of # <<>> /\ asks[d.of[1]]
            \/ d.op \notin Combined /\ d.fact \in Claims
    IN  asks[c]

\* Who sends no token is told to log in, not that access is forbidden, wherever
\* the last rule for the request starts with a claim, as those of the deployed
\* policy do, or asks for scopes (tokenRequiredPolicyReason, Evaluate).
ToldToLogIn ==
    told = 403 /\ Presented(wire) = <<>> /\ pc \in Ends /\ Deployed =>
        /\ pc = "refused by policy"
        /\ \A k \in Matching :
             (\A l \in Matching : l <= k)
               => conditions[k] # NoCondition /\ ~AsksClaimFirst(conditions[k])
=============================================================================
