---------------------------- MODULE BackendKeys ----------------------------
(***************************************************************************)
(* JWKSValidator (backend/services/jwt_validator.py): the second reader of *)
(* the IdP's keys.  It keeps the discovery document and the key set for a  *)
(* fixed time each and fetches them inside the request that finds them     *)
(* old: nothing refreshes them for an unknown kid, and nothing falls back  *)
(* on old keys when a fetch fails.  A worker of the backend serves one     *)
(* request at a time, and its validators share nothing with those of other *)
(* workers, so this is one of them.                                        *)
(***************************************************************************)
EXTENDS KeyServer

CONSTANTS
    CacheTTL,       \* JWKS_CACHE_TTL and OIDC_DISCOVERY_CACHE_TTL
    RequestTimeout, \* longest GET (timeout=10)
    IssuerKnown     \* JWT_ISSUER is configured

ASSUME ValidatorAssumption ==
    /\ CacheTTL \in Nat \ {0} /\ RequestTimeout \in Nat /\ IssuerKnown \in BOOLEAN

Larger(a, b) == IF a > b THEN a ELSE b

\* How old the set of keys that decides about a token may be.
Window == Larger(CacheTTL - 1, RequestTimeout)

ASSUME WindowAssumption == Horizon > Window + RequestTimeout

VARIABLES
    docAge,     \* ticks since _oidc_fetched_at; an absent document is an old one
    jwks,       \* _jwks_cache
    jwksAge,    \* ticks since _jwks_fetched_at, likewise
    call,       \* the request: where it is, the kid of its token, the IdP's answer
    held,       \* ticks since fetch_jwks read the clock
    waited      \* ticks since the GET under way left

validator == <<docAge, jwks, jwksAge, call, held, waited>>
backendVars == <<idp, validator>>

NoCall == [at |-> "idle", kid |-> "none", answer |-> {}]
Waiting == {"discovery", "keys", "answered", "issuer"}

ValidatorTypeOK ==
    /\ {docAge, jwksAge} \subseteq 0..CacheTTL
    /\ jwks \subseteq Kids /\ call.answer \subseteq Kids
    /\ call.at \in {"idle", "checking"} \cup Waiting /\ call.kid \in Kids \cup {"none"}
    /\ held \in 0..2 * RequestTimeout /\ waited \in 0..RequestTimeout

ValidatorInit ==
    /\ docAge = CacheTTL /\ jwks = {} /\ jwksAge = CacheTTL
    /\ call = NoCall /\ held = 0 /\ waited = 0

AtStage(stage) == call.at = stage
Fresh(age) == age < CacheTTL
AgeAt(ticks) == IF ticks < CacheTTL THEN ticks ELSE CacheTTL

\* A GET leaves.
Get(stage) == call' = [call EXCEPT !.at = stage] /\ waited' = 0

\* The request is answered, with 200 or 401.
Reply == call' = NoCall /\ held' = 0 /\ waited' = 0

\* Mutant of Receive: the set is still used when its time has come.
ReceiveLate(k) ==
    /\ AtStage("idle")
    /\ call' = [NoCall EXCEPT !.kid = k,
                              !.at = IF jwks # {} /\ jwksAge <= CacheTTL THEN "checking"
                                     ELSE IF Fresh(docAge) THEN "keys" ELSE "discovery"]
    /\ UNCHANGED <<idp, docAge, jwks, jwksAge, held, waited>>

\* fetch_jwks: the cached set decides, or else it is fetched from the uri that
\* the discovery document gives, fetched first if it is old.
Receive(k) ==
    /\ AtStage("idle")
    /\ call' = [NoCall EXCEPT !.kid = k,
                              !.at = IF Fresh(jwksAge) THEN "checking"
                                     ELSE IF Fresh(docAge) THEN "keys" ELSE "discovery"]
    /\ UNCHANGED <<idp, docAge, jwks, jwksAge, held, waited>>

\* _fetch_discovery_document: the document is as old as the GET took.
Discover ==
    /\ AtStage("discovery") /\ up
    /\ docAge' = AgeAt(waited)
    /\ Get("keys")
    /\ UNCHANGED <<idp, jwks, jwksAge, held>>

\* The IdP answers the GET of the keys.
AnswerKeys ==
    /\ AtStage("keys") /\ up
    /\ call' = [call EXCEPT !.at = "answered", !.answer = published]
    /\ UNCHANGED <<idp, docAge, jwks, jwksAge, held, waited>>

\* Mutant of Keep: the set's age is counted from its arrival.
KeepAsOfArrival ==
    /\ AtStage("answered")
    /\ jwks' = call.answer /\ jwksAge' = 0
    /\ call' = [call EXCEPT !.at = "checking"]
    /\ UNCHANGED <<idp, docAge, held, waited>>

\* The set arrives; its age is counted from before the GETs it took.
Keep ==
    /\ AtStage("answered")
    /\ jwks' = call.answer /\ jwksAge' = AgeAt(held)
    /\ call' = [call EXCEPT !.at = "checking"]
    /\ UNCHANGED <<idp, docAge, held, waited>>

\* raise_for_status, or the timeout: the request is refused whatever is cached.
GetFails ==
    /\ \E stage \in {"discovery", "keys", "issuer"} : AtStage(stage)
    /\ ~up
    /\ Reply
    /\ UNCHANGED <<idp, docAge, jwks, jwksAge>>

\* The key is looked up in the set.
RefuseKid ==
    /\ AtStage("checking") /\ call.kid \notin jwks
    /\ Reply
    /\ UNCHANGED <<idp, docAge, jwks, jwksAge>>

AcceptKid ==
    /\ AtStage("checking") /\ call.kid \in jwks
    /\ IssuerKnown \/ Fresh(docAge)
    /\ Reply
    /\ UNCHANGED <<idp, docAge, jwks, jwksAge>>

\* _expected_issuer: after the key is checked the document may be needed again.
AskIssuer ==
    /\ AtStage("checking") /\ call.kid \in jwks
    /\ ~IssuerKnown /\ ~Fresh(docAge)
    /\ Get("issuer")
    /\ UNCHANGED <<idp, docAge, jwks, jwksAge, held>>

AcceptIssuer ==
    /\ AtStage("issuer") /\ up
    /\ docAge' = AgeAt(waited)
    /\ Reply
    /\ UNCHANGED <<idp, jwks, jwksAge>>

\* A GET ends within its timeout; what waits for nothing is done first.
ValidatorTick ==
    /\ AtStage("idle") \/ (call.at \in Waiting /\ waited < RequestTimeout)
    /\ Age
    /\ docAge' = AgeAt(docAge + 1) /\ jwksAge' = AgeAt(jwksAge + 1)
    /\ waited' = IF AtStage("idle") THEN 0 ELSE waited + 1
    /\ held' = IF call.at \in {"discovery", "keys", "answered"} THEN held + 1 ELSE held
    /\ UNCHANGED <<jwks, call>>

IdPStep == (Rotate \/ Fail \/ Recover) /\ UNCHANGED validator

ValidatorNext ==
    \/ IdPStep \/ ValidatorTick
    \/ \E k \in Kids : Receive(k)
    \/ Discover \/ AnswerKeys \/ Keep \/ GetFails
    \/ RefuseKid \/ AcceptKid \/ AskIssuer \/ AcceptIssuer

ValidatorSpec == KeyServerInit /\ ValidatorInit /\ [][ValidatorNext]_backendVars

-----------------------------------------------------------------------------
\* A token is not accepted under a key withdrawn for longer than the caches
\* keep it, however slow the GETs were and even while the IdP is down; a late
\* look at the issuer adds the time of that GET (fetch_jwks, _expected_issuer).
RetiredKeyRefused ==
    [][LET k == call.kid
       IN  k \notin published =>
             /\ AcceptKid => since[k] <= Window
             /\ AcceptIssuer => since[k] <= Window + RequestTimeout]_backendVars

\* A token is refused for its kid only if the IdP changed that key within the
\* time a set is kept: the backend catches up with a new key, which ext_authz
\* accepts at once, without a restart and after any outage (verify_token).
SettledKeyAccepted ==
    [][LET k == call.kid
       IN  RefuseKid => k \notin published \/ since[k] <= Window]_backendVars
=============================================================================
