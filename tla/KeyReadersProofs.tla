-------------------------- MODULE KeyReadersProofs --------------------------
(***************************************************************************)
(* How old the keys are that the readers of the IdP's keys decide by, for  *)
(* any keys, lifetimes and timeouts: a set of keys can differ from what    *)
(* the IdP publishes only in keys that changed since the IdP gave it, and  *)
(* each reader bounds how long ago that was.  The two readers share the    *)
(* lemmas about the IdP.                                                   *)
(***************************************************************************)
EXTENDS JWKSCache, BackendKeys, FiniteSetTheorems, TLAPS

\* The keys that one set has and the other has not.
Differences(S, T) == (S \ T) \cup (T \ S)

\* What S lacks or has too much changed at most n ticks ago.
OldAtMost(S, n) == \A k \in Differences(S, published) : since[k] <= n

\* That, after the step, of a set that the step need not change.
OldThen(S, n) == \A k \in Differences(S, published') : since'[k] <= n

IdPTyped == published \in SUBSET Kids /\ since \in [Kids -> Nat]

-----------------------------------------------------------------------------
(* Sets of keys and the IdP.                                               *)

\* A rotation leaves a set as old as it was: a key that changes has changed now.
LEMMA RotateAges ==
    ASSUME IdPTyped, Rotate, NEW S \in SUBSET Kids, NEW n \in Nat, OldAtMost(S, n)
    PROVE  OldThen(S, n)
<1>1. /\ since' = [k \in Kids |-> IF (k \in published') = (k \in published) THEN since[k] ELSE 0]
      /\ published' \subseteq Kids
  BY DEF Rotate
<1>2. SUFFICES ASSUME NEW k \in Differences(S, published') PROVE since'[k] <= n
  BY DEF OldThen
<1>3. k \in Kids BY <1>1, <1>2 DEF Differences
<1>4. CASE (k \in published') = (k \in published)
  <2>1. k \in Differences(S, published) BY <1>2, <1>4 DEF Differences
  <2> QED BY <1>1, <1>3, <1>4, <2>1 DEF OldAtMost
<1>5. CASE (k \in published') # (k \in published)
  BY <1>1, <1>3, <1>5
<1> QED BY <1>4, <1>5

\* A tick makes it one older at most.
LEMMA AgeAges ==
    ASSUME IdPTyped, Age, NEW S \in SUBSET Kids, NEW n \in Nat, OldAtMost(S, n)
    PROVE  OldThen(S, n + 1)
<1>1. since' = [k \in Kids |-> Older(since[k])] /\ published' = published
  BY DEF Age
<1>2. \A k \in Kids : since'[k] <= since[k] + 1
  BY <1>1 DEF Older, IdPTyped
<1>3. SUFFICES ASSUME NEW k \in Differences(S, published) PROVE since'[k] <= n + 1
  BY <1>1 DEF OldThen
<1>4. k \in Kids /\ since[k] <= n
  BY <1>3 DEF OldAtMost, Differences, IdPTyped
<1> QED BY <1>1, <1>2, <1>4 DEF IdPTyped, Older

\* The IdP stays within its types, whichever reader it serves.
LEMMA KeyServerKeepsTypes ==
    ASSUME KeyServerTypeOK, Rotate \/ Fail \/ Recover \/ Age \/ UNCHANGED idp
    PROVE  KeyServerTypeOK'
<1> USE BoundAssumption DEF KeyServerTypeOK, Ages
<1>1. CASE Rotate
  <2>1. published' \subseteq Kids /\ since' \in [Kids -> 0..Horizon]
    BY <1>1 DEF Rotate
  <2>2. changes' \in 0..MaxChanges /\ UNCHANGED <<up, outages, upFor>>
    BY <1>1 DEF Rotate
  <2> QED BY <2>1, <2>2
<1>2. CASE Fail
  <2>1. outages' \in 0..MaxOutages /\ upFor' \in 0..Horizon
    BY <1>2 DEF Fail
  <2> QED BY <1>2, <2>1 DEF Fail
<1>3. CASE Recover
  BY <1>3 DEF Recover
<1>4. CASE Age
  <2>1. since' \in [Kids -> 0..Horizon] /\ upFor' \in 0..Horizon
    BY <1>4 DEF Age, Older
  <2> QED BY <1>4, <2>1 DEF Age
<1>5. CASE UNCHANGED idp
  BY <1>5 DEF idp
<1> QED BY <1>1, <1>2, <1>3, <1>4, <1>5

LEMMA KeyServerInitTypes == KeyServerInit => KeyServerTypeOK
  BY BoundAssumption, KidAssumption DEF KeyServerInit, KeyServerTypeOK, Ages

-----------------------------------------------------------------------------
(* The backend (BackendKeys).                                              *)

ValidatorTyped ==
    /\ IdPTyped
    /\ jwks \in SUBSET Kids /\ jwksAge \in Nat
    /\ call \in [at : {"idle", "checking"} \cup Waiting, kid : Kids \cup {"none"},
                 answer : SUBSET Kids]
    /\ held \in Nat /\ waited \in 0..RequestTimeout

\* A GET is part of the call that fetch_jwks read the clock for.
ValidatorClocks ==
    /\ call.at = "idle" => waited = 0 /\ held = 0
    /\ call.at \in {"discovery", "keys", "answered"} => waited <= held
    /\ call.at # "idle" => call.kid \in Kids

\* The cached set, while it is in use, changed no longer ago than its age.
CacheAge == Fresh(jwksAge) => OldAtMost(jwks, jwksAge)

\* So did the set on its way, the set that decides, and the key that passed.
AnswerAge == call.at = "answered" => OldAtMost(call.answer, waited)
CheckedAge == call.at = "checking" => OldAtMost(jwks, Window)
PassedAge ==
    call.at = "issuer" /\ call.kid \notin published => since[call.kid] <= Window + waited

BackendInv ==
    ValidatorTyped /\ ValidatorClocks /\ CacheAge /\ AnswerAge /\ CheckedAge /\ PassedAge

\* The window is no shorter than the life of a cache in use, or a GET.
LEMMA WindowBounds ==
    /\ Window \in Nat /\ CacheTTL - 1 <= Window /\ RequestTimeout <= Window
  BY ValidatorAssumption DEF Window, Larger

\* The types are kept.
LEMMA ValidatorKeepsTypes == BackendInv /\ [ValidatorNext]_backendVars => ValidatorTyped'
<1> SUFFICES ASSUME BackendInv, [ValidatorNext]_backendVars PROVE ValidatorTyped'
  OBVIOUS
<1> USE ValidatorAssumption, BoundAssumption
<1> USE DEF BackendInv, ValidatorTyped, IdPTyped, Waiting
<1>1. CASE IdPStep
  <2>1. UNCHANGED <<jwks, jwksAge, call, held, waited>>
    BY <1>1 DEF IdPStep, validator
  <2>2. CASE Rotate
    <3>1. published' \in SUBSET Kids BY <2>2 DEF Rotate
    <3>2. since' \in [Kids -> Nat] BY <2>2 DEF Rotate
    <3> QED BY <2>1, <3>1, <3>2
  <2>3. CASE Fail \/ Recover
    BY <2>1, <2>3 DEF Fail, Recover
  <2> QED BY <1>1, <2>2, <2>3 DEF IdPStep
<1>2. CASE ValidatorTick
  <2>1. published' = published /\ since' \in [Kids -> Nat]
    BY <1>2 DEF ValidatorTick, Age, Older
  <2>2. jwksAge' \in Nat BY <1>2 DEF ValidatorTick, AgeAt
  <2>3. held' \in Nat /\ waited' \in 0..RequestTimeout
    BY <1>2 DEF ValidatorTick, AtStage
  <2> QED BY <1>2, <2>1, <2>2, <2>3 DEF ValidatorTick
<1>3. ASSUME NEW k \in Kids, Receive(k) PROVE ValidatorTyped'
  <2>1. call' \in [at : {"idle", "checking"} \cup Waiting, kid : Kids \cup {"none"},
                   answer : SUBSET Kids]
    BY <1>3 DEF Receive, NoCall
  <2> QED BY <1>3, <2>1 DEF Receive, idp
<1>4. CASE Discover
  BY <1>4 DEF Discover, Get, idp
<1>5. CASE AnswerKeys
  BY <1>5 DEF AnswerKeys, idp
<1>6. CASE Keep
  BY <1>6 DEF Keep, AgeAt, idp
<1>7. CASE GetFails \/ RefuseKid \/ AcceptKid \/ AcceptIssuer
  BY <1>7 DEF GetFails, RefuseKid, AcceptKid, AcceptIssuer, Reply, NoCall, idp
<1>8. CASE AskIssuer
  BY <1>8 DEF AskIssuer, Get, idp
<1>9. CASE UNCHANGED backendVars
  BY <1>9 DEF backendVars, validator, idp
<1> QED
  BY <1>1, <1>2, <1>3, <1>4, <1>5, <1>6, <1>7, <1>8, <1>9 DEF ValidatorNext

\* So is the order of the two clocks.
LEMMA ValidatorKeepsClocks == BackendInv /\ [ValidatorNext]_backendVars => ValidatorClocks'
<1> SUFFICES ASSUME BackendInv, [ValidatorNext]_backendVars PROVE ValidatorClocks'
  OBVIOUS
<1> USE ValidatorAssumption
<1> USE DEF BackendInv, ValidatorTyped, IdPTyped, ValidatorClocks, Waiting, AtStage
<1>1. CASE IdPStep
  BY <1>1 DEF IdPStep, validator
<1>2. CASE ValidatorTick
  BY <1>2 DEF ValidatorTick
<1>3. ASSUME NEW k \in Kids, Receive(k) PROVE ValidatorClocks'
  <2> DEFINE stage == IF Fresh(jwksAge) THEN "checking"
                      ELSE IF Fresh(docAge) THEN "keys" ELSE "discovery"
  <2>1. NoCall \in [at : {"idle"}, kid : {"none"}, answer : {{}}]
    BY DEF NoCall
  <2>2. call' = [NoCall EXCEPT !.kid = k, !.at = stage]
    BY <1>3 DEF Receive
  <2>3. call'.kid = k /\ call'.at = stage
    BY <2>1, <2>2
  <2>4. waited = 0 /\ held = 0 /\ waited' = 0 /\ held' = 0
    BY <1>3 DEF Receive
  <2> QED BY <2>3, <2>4
<1>4. CASE Discover \/ AnswerKeys \/ Keep \/ AskIssuer
  <2>1. CASE Discover BY <2>1 DEF Discover, Get
  <2>2. CASE AnswerKeys BY <2>2 DEF AnswerKeys
  <2>3. CASE Keep BY <2>3 DEF Keep
  <2>4. CASE AskIssuer BY <2>4 DEF AskIssuer, Get
  <2> QED BY <1>4, <2>1, <2>2, <2>3, <2>4
<1>5. CASE GetFails \/ RefuseKid \/ AcceptKid \/ AcceptIssuer
  <2>1. NoCall.at = "idle"
    BY DEF NoCall
  <2>2. call' = NoCall /\ held' = 0 /\ waited' = 0
    BY <1>5 DEF GetFails, RefuseKid, AcceptKid, AcceptIssuer, Reply
  <2> QED BY <2>1, <2>2
<1>6. CASE UNCHANGED backendVars
  BY <1>6 DEF backendVars, validator
<1> QED BY <1>1, <1>2, <1>3, <1>4, <1>5, <1>6 DEF ValidatorNext

\* No step of the IdP makes a set older than its bound.
LEMMA IdPAges == BackendInv /\ IdPStep => CacheAge' /\ AnswerAge' /\ CheckedAge' /\ PassedAge'
<1> SUFFICES ASSUME BackendInv, IdPStep PROVE CacheAge' /\ AnswerAge' /\ CheckedAge' /\ PassedAge'
  OBVIOUS
<1>1. UNCHANGED <<jwks, jwksAge, call, waited>>
  BY DEF IdPStep, validator
<1>2. \A S \in SUBSET Kids, n \in Nat : OldAtMost(S, n) => OldThen(S, n)
  <2>1. CASE Rotate
    BY <2>1, RotateAges DEF BackendInv, ValidatorTyped
  <2>2. CASE Fail \/ Recover
    BY <2>2 DEF Fail, Recover, OldAtMost, OldThen
  <2> QED BY <2>1, <2>2 DEF IdPStep
<1>3. CacheAge'
  BY <1>1, <1>2 DEF BackendInv, ValidatorTyped, CacheAge, Fresh, OldAtMost, OldThen
<1>4. AnswerAge'
  BY <1>1, <1>2, ValidatorAssumption DEF BackendInv, ValidatorTyped, AnswerAge, OldAtMost, OldThen
<1>5. CheckedAge'
  BY <1>1, <1>2, WindowBounds DEF BackendInv, ValidatorTyped, CheckedAge, OldAtMost, OldThen
<1>6. PassedAge'
  <2>1. SUFFICES ASSUME call.at = "issuer", call.kid \notin published'
                 PROVE  since'[call.kid] <= Window + waited
    BY <1>1 DEF PassedAge
  <2>2. call.kid \in Kids /\ waited \in Nat
    BY <2>1, ValidatorAssumption DEF BackendInv, ValidatorClocks, ValidatorTyped, IdPTyped
  <2>3. CASE Rotate
    <3>1. since'[call.kid] =
            IF (call.kid \in published') = (call.kid \in published) THEN since[call.kid] ELSE 0
      BY <2>2, <2>3 DEF Rotate
    <3>2. CASE call.kid \in published
      BY <2>1, <2>2, <3>1, <3>2, WindowBounds
    <3>3. CASE call.kid \notin published
      BY <2>1, <2>2, <3>1, <3>3 DEF BackendInv, PassedAge
    <3> QED BY <3>2, <3>3
  <2>4. CASE Fail \/ Recover
    BY <2>1, <2>4 DEF Fail, Recover, BackendInv, PassedAge
  <2> QED BY <2>3, <2>4 DEF IdPStep
<1> QED BY <1>3, <1>4, <1>5, <1>6

\* Time passes for the sets and for their bounds alike.
LEMMA TickAges ==
    BackendInv /\ ValidatorTick => CacheAge' /\ AnswerAge' /\ CheckedAge' /\ PassedAge'
<1> SUFFICES ASSUME BackendInv, ValidatorTick
             PROVE  CacheAge' /\ AnswerAge' /\ CheckedAge' /\ PassedAge'
  OBVIOUS
<1> USE ValidatorAssumption
<1>1. /\ Age /\ UNCHANGED <<jwks, call>> /\ jwksAge' = AgeAt(jwksAge + 1)
      /\ call.at # "checking"
      /\ call.at # "idle" => waited' = waited + 1
      /\ waited \in Nat
    BY DEF ValidatorTick, AtStage, Waiting, BackendInv, ValidatorTyped, IdPTyped
<1>2. \A S \in SUBSET Kids, n \in Nat : OldAtMost(S, n) => OldThen(S, n + 1)
  BY <1>1, AgeAges DEF BackendInv, ValidatorTyped
<1>3. CacheAge'
  <2>1. CASE Fresh(jwksAge')
    <3>1. jwksAge' = jwksAge + 1 /\ Fresh(jwksAge)
      BY <1>1, <2>1 DEF Fresh, AgeAt, BackendInv, ValidatorTyped, IdPTyped
    <3>2. OldThen(jwks, jwksAge + 1)
      BY <1>2, <3>1 DEF BackendInv, ValidatorTyped, IdPTyped, CacheAge
    <3> QED BY <1>1, <3>1, <3>2 DEF CacheAge, OldAtMost, OldThen
  <2>2. CASE ~Fresh(jwksAge')
    BY <2>2 DEF CacheAge, Fresh
  <2> QED BY <2>1, <2>2
<1>4. AnswerAge'
  BY <1>1, <1>2 DEF BackendInv, ValidatorTyped, IdPTyped, AnswerAge, OldAtMost, OldThen
<1>5. CheckedAge' BY <1>1 DEF CheckedAge
<1>6. PassedAge'
  <2>1. SUFFICES ASSUME call.at = "issuer", call.kid \notin published
                 PROVE  since'[call.kid] <= Window + (waited + 1)
    BY <1>1 DEF PassedAge, Age
  <2>2. call.kid \in Kids /\ since[call.kid] \in Nat /\ since[call.kid] <= Window + waited
    BY <2>1 DEF BackendInv, ValidatorClocks, ValidatorTyped, IdPTyped, PassedAge
  <2>3. since'[call.kid] = Older(since[call.kid])
    BY <1>1, <2>2 DEF Age
  <2> QED BY <1>1, <2>2, <2>3, WindowBounds DEF Older
<1> QED BY <1>3, <1>4, <1>5, <1>6

\* The steps of a request: a set is as new as its GET when it is cached, as its
\* age while it is, and decides at once.
LEMMA RequestAges ==
    ASSUME BackendInv, [ValidatorNext]_backendVars, ~IdPStep, ~ValidatorTick
    PROVE  CacheAge' /\ AnswerAge' /\ CheckedAge' /\ PassedAge'
<1> USE ValidatorAssumption
<1>1. UNCHANGED <<published, since>> /\ \A S, n : OldAtMost(S, n) => OldThen(S, n)
  BY DEF ValidatorNext, Receive, Discover, AnswerKeys, Keep, GetFails, RefuseKid, AcceptKid,
         AskIssuer, AcceptIssuer, idp, backendVars, OldAtMost, OldThen
<1>2. ASSUME NEW k \in Kids, Receive(k)
      PROVE  CacheAge' /\ AnswerAge' /\ CheckedAge' /\ PassedAge'
  <2> DEFINE stage == IF Fresh(jwksAge) THEN "checking"
                      ELSE IF Fresh(docAge) THEN "keys" ELSE "discovery"
  <2>1. NoCall \in [at : {"idle"}, kid : {"none"}, answer : {{}}]
    BY DEF NoCall
  <2>2. call' = [NoCall EXCEPT !.kid = k, !.at = stage] /\ UNCHANGED <<jwks, jwksAge>>
    BY <1>2 DEF Receive
  <2>3. call'.at = stage
    BY <2>1, <2>2
  <2>4. CheckedAge'
    <3>1. SUFFICES ASSUME Fresh(jwksAge) PROVE OldAtMost(jwks, Window)
      BY <1>1, <2>2, <2>3, WindowBounds DEF CheckedAge, OldAtMost, OldThen
    <3>2. jwksAge <= Window
      BY <3>1, WindowBounds DEF Fresh, BackendInv, ValidatorTyped, IdPTyped
    <3> QED BY <3>1, <3>2, WindowBounds
            DEF BackendInv, ValidatorTyped, IdPTyped, CacheAge, OldAtMost, Differences
  <2> QED BY <1>1, <2>2, <2>3, <2>4
          DEF BackendInv, CacheAge, AnswerAge, PassedAge, Fresh, OldAtMost, OldThen
<1>3. CASE Discover
  <2>1. call'.at = "keys" /\ UNCHANGED <<jwks, jwksAge>>
    BY <1>3 DEF Discover, Get, BackendInv, ValidatorTyped, IdPTyped
  <2> QED BY <1>1, <2>1 DEF BackendInv, CacheAge, AnswerAge, CheckedAge, PassedAge,
                                OldAtMost, OldThen, Fresh
<1>4. CASE AnswerKeys
  <2>1. call'.at = "answered" /\ call'.answer = published /\ UNCHANGED <<jwks, jwksAge>>
    BY <1>4 DEF AnswerKeys, BackendInv, ValidatorTyped, IdPTyped
  <2>2. AnswerAge' BY <1>1, <2>1 DEF AnswerAge, OldAtMost, Differences
  <2> QED BY <1>1, <2>1, <2>2
          DEF BackendInv, CacheAge, CheckedAge, PassedAge, OldAtMost, OldThen, Fresh
<1>5. CASE Keep
  <2>1. /\ call.at = "answered" /\ call'.at = "checking"
        /\ jwks' = call.answer /\ jwksAge' = AgeAt(held)
    BY <1>5 DEF Keep, AtStage, BackendInv, ValidatorTyped, IdPTyped
  <2>2. OldAtMost(call.answer, waited) /\ waited <= held /\ waited <= Window
        /\ waited \in Nat /\ held \in Nat /\ call.answer \in SUBSET Kids
    BY <2>1, WindowBounds DEF BackendInv, ValidatorTyped, IdPTyped, ValidatorClocks, AnswerAge
  <2>3. CacheAge'
    <3>1. Fresh(jwksAge') => jwksAge' = held
      BY <2>1, <2>2 DEF Fresh, AgeAt
    <3> QED BY <1>1, <2>1, <2>2, <3>1
            DEF CacheAge, Fresh, OldAtMost, Differences, BackendInv, ValidatorTyped, IdPTyped
  <2>4. CheckedAge'
    BY <1>1, <2>1, <2>2, WindowBounds
    DEF CheckedAge, OldAtMost, Differences, BackendInv, ValidatorTyped, IdPTyped
  <2> QED BY <2>1, <2>3, <2>4 DEF AnswerAge, PassedAge
<1>6. CASE GetFails \/ RefuseKid \/ AcceptKid \/ AcceptIssuer
  <2>1. call'.at = "idle" /\ UNCHANGED <<jwks, jwksAge>>
    BY <1>6 DEF GetFails, RefuseKid, AcceptKid, AcceptIssuer, Reply, NoCall
  <2> QED BY <1>1, <2>1 DEF BackendInv, CacheAge, AnswerAge, CheckedAge, PassedAge,
                                OldAtMost, OldThen, Fresh
<1>7. CASE AskIssuer
  <2>1. /\ call.at = "checking" /\ call.kid \in jwks
        /\ call'.at = "issuer" /\ call'.kid = call.kid /\ waited' = 0
        /\ UNCHANGED <<jwks, jwksAge>>
    BY <1>7 DEF AskIssuer, Get, AtStage, BackendInv, ValidatorTyped, IdPTyped
  <2>2. call.kid \notin published => since[call.kid] <= Window
    BY <2>1 DEF BackendInv, CheckedAge, OldAtMost, Differences
  <2>3. PassedAge' BY <1>1, <2>1, <2>2, WindowBounds DEF PassedAge
  <2> QED BY <1>1, <2>1, <2>3
          DEF BackendInv, CacheAge, AnswerAge, CheckedAge, OldAtMost, OldThen, Fresh
<1>8. CASE UNCHANGED backendVars
  BY <1>8 DEF backendVars, validator, idp, BackendInv, CacheAge, AnswerAge, CheckedAge, PassedAge,
              OldAtMost, Fresh
<1> QED
  BY <1>2, <1>3, <1>4, <1>5, <1>6, <1>7, <1>8 DEF ValidatorNext

\* The invariant holds throughout.
THEOREM BackendInvAlways == ValidatorSpec => []BackendInv
<1>1. KeyServerInit /\ ValidatorInit => BackendInv
  BY ValidatorAssumption, BoundAssumption, KidAssumption
  DEF KeyServerInit, ValidatorInit, BackendInv, ValidatorTyped, IdPTyped, ValidatorClocks,
      CacheAge, AnswerAge, CheckedAge,
      PassedAge, NoCall, Fresh, Waiting
<1>2. BackendInv /\ [ValidatorNext]_backendVars => BackendInv'
  BY ValidatorKeepsTypes, ValidatorKeepsClocks, IdPAges, TickAges, RequestAges DEF BackendInv
<1> QED BY <1>1, <1>2, PTL DEF ValidatorSpec

\* What fetch_jwks has taken so far is the GET of the document and that of the
\* keys, each within its timeout.
HeldBounded ==
    /\ call.at \in {"idle", "discovery"} => held <= waited
    /\ call.at \in {"keys", "answered"} => held <= RequestTimeout + waited
    /\ held <= 2 * RequestTimeout

ValidatorBounded == KeyServerTypeOK /\ ValidatorTypeOK /\ HeldBounded

LEMMA ValidatorKeepsBounds ==
    BackendInv /\ ValidatorBounded /\ [ValidatorNext]_backendVars => ValidatorBounded'
<1> SUFFICES ASSUME BackendInv, ValidatorBounded, [ValidatorNext]_backendVars
             PROVE  ValidatorBounded'
  OBVIOUS
<1>1. ValidatorTyped' /\ ValidatorClocks'
  BY ValidatorKeepsTypes, ValidatorKeepsClocks
<1>2. KeyServerTypeOK'
  <2>1. Rotate \/ Fail \/ Recover \/ Age \/ UNCHANGED idp
    BY DEF ValidatorNext, IdPStep, ValidatorTick, Receive, Discover, AnswerKeys, Keep, GetFails,
           RefuseKid, AcceptKid, AskIssuer, AcceptIssuer, backendVars
  <2> QED BY <2>1, KeyServerKeepsTypes DEF ValidatorBounded
<1> USE ValidatorAssumption
<1> USE DEF BackendInv, ValidatorTyped, ValidatorClocks, ValidatorBounded, HeldBounded, AtStage
<1>3. docAge' \in 0..CacheTTL /\ jwksAge' \in 0..CacheTTL
  <2>1. docAge \in 0..CacheTTL /\ jwksAge \in 0..CacheTTL
    BY DEF ValidatorTypeOK
  <2>2. \A n \in Nat : AgeAt(n) \in 0..CacheTTL
    BY DEF AgeAt
  <2>3. waited \in Nat /\ held \in Nat /\ docAge + 1 \in Nat /\ jwksAge + 1 \in Nat
    BY <2>1
  <2> QED
    BY <2>1, <2>2, <2>3
    DEF ValidatorNext, IdPStep, ValidatorTick, Receive, Discover, AnswerKeys, Keep, GetFails,
        RefuseKid, AcceptKid, AskIssuer, AcceptIssuer, backendVars, validator
<1>4. HeldBounded'
  <2>1. CASE IdPStep \/ UNCHANGED backendVars
    BY <2>1 DEF IdPStep, backendVars, validator
  <2>2. CASE ValidatorTick
    BY <2>2, <1>1 DEF ValidatorTick, Waiting
  <2>3. ASSUME NEW k \in Kids, Receive(k) PROVE HeldBounded'
    BY <2>3 DEF Receive
  <2>4. CASE Discover \/ AskIssuer
    <3>1. held' = held /\ waited' = 0 /\ call'.at \in {"keys", "issuer"}
      BY <2>4 DEF Discover, AskIssuer, Get
    <3>2. held <= RequestTimeout \/ call'.at = "issuer"
      BY <2>4 DEF Discover, AskIssuer, Get
    <3> QED BY <3>1, <3>2
  <2>5. CASE AnswerKeys \/ Keep
    <3>1. /\ held' = held /\ waited' = waited /\ call'.at \in {"answered", "checking"}
          /\ call.at \in {"keys", "answered"}
      BY <2>5 DEF AnswerKeys, Keep
    <3> QED BY <3>1
  <2>6. CASE GetFails \/ RefuseKid \/ AcceptKid \/ AcceptIssuer
    <3>1. held' = 0 /\ waited' = 0
      BY <2>6 DEF GetFails, RefuseKid, AcceptKid, AcceptIssuer, Reply
    <3> QED BY <3>1
  <2> QED BY <2>1, <2>2, <2>3, <2>4, <2>5, <2>6 DEF ValidatorNext
<1>5. ValidatorTypeOK'
  BY <1>1, <1>3, <1>4 DEF ValidatorTypeOK, IdPTyped
<1> QED BY <1>2, <1>4, <1>5

\* Type correctness of the backend's validator: what it believes its key set's
\* age to be is never off by more than the two GETs that fetched it.
THEOREM ValidatorTypeCorrect == ValidatorSpec => []ValidatorTypeOK
<1>1. KeyServerInit /\ ValidatorInit => ValidatorBounded
  BY KeyServerInitTypes, KidAssumption, ValidatorAssumption
  DEF ValidatorInit, ValidatorBounded, ValidatorTypeOK, HeldBounded, NoCall
<1>2. BackendInv /\ ValidatorBounded /\ [ValidatorNext]_backendVars => ValidatorBounded'
  BY ValidatorKeepsBounds
<1>3. ValidatorBounded => ValidatorTypeOK
  BY DEF ValidatorBounded
<1> QED BY <1>1, <1>2, <1>3, BackendInvAlways, PTL DEF ValidatorSpec

\* A key that was withdrawn long ago is not accepted (fetch_jwks,
\* _expected_issuer).
THEOREM RetiredKeysRefused == ValidatorSpec => RetiredKeyRefused
<1>1. BackendInv =>
        /\ AcceptKid /\ call.kid \notin published => since[call.kid] <= Window
        /\ AcceptIssuer /\ call.kid \notin published
             => since[call.kid] <= Window + RequestTimeout
  <2> SUFFICES ASSUME BackendInv, call.kid \notin published
               PROVE  /\ AcceptKid => since[call.kid] <= Window
                      /\ AcceptIssuer => since[call.kid] <= Window + RequestTimeout
    OBVIOUS
  <2>1. AcceptKid => since[call.kid] <= Window
    BY DEF AcceptKid, AtStage, BackendInv, CheckedAge, OldAtMost, Differences
  <2>2. ASSUME AcceptIssuer PROVE since[call.kid] <= Window + RequestTimeout
    <3>1. call.at = "issuer" /\ call.kid \in Kids
      BY <2>2 DEF AcceptIssuer, AtStage, BackendInv, ValidatorClocks
    <3>2. /\ since[call.kid] \in Nat /\ waited \in 0..RequestTimeout
          /\ since[call.kid] <= Window + waited
      BY <3>1 DEF BackendInv, ValidatorTyped, IdPTyped, PassedAge
    <3> QED BY <3>2, WindowBounds, ValidatorAssumption
  <2> QED BY <2>1, <2>2
<1>2. BackendInv =>
        [LET k == call.kid
         IN  k \notin published =>
               /\ AcceptKid => since[k] <= Window
               /\ AcceptIssuer => since[k] <= Window + RequestTimeout]_backendVars
  BY <1>1
<1> QED BY <1>2, BackendInvAlways, PTL DEF RetiredKeyRefused

\* A key that was published long ago is not refused (verify_token).
THEOREM SettledKeysAccepted == ValidatorSpec => SettledKeyAccepted
<1>1. BackendInv /\ RefuseKid => call.kid \notin published \/ since[call.kid] <= Window
  BY DEF RefuseKid, AtStage, BackendInv, CheckedAge, OldAtMost, Differences
<1>2. BackendInv =>
        [LET k == call.kid
         IN  RefuseKid => k \notin published \/ since[k] <= Window]_backendVars
  BY <1>1
<1> QED BY <1>2, BackendInvAlways, PTL DEF SettledKeyAccepted

-----------------------------------------------------------------------------
(* ext_authz (JWKSCache).                                                  *)

CacheTyped ==
    /\ IdPTyped /\ published # {} /\ upFor \in Nat /\ (~up => upFor = 0)
    /\ keys \in SUBSET Kids
    /\ next \in 0..LongestSleep \cup {Unset}
    /\ client \in [Clients -> [at : Stages, kid : Kids \cup {NoKid}, answer : SUBSET Kids]]
    /\ left \in [Clients -> Nat]

\* A refresh is given no more time than its timeout, and a Lookup no timer.
RefreshTimes ==
    /\ \A c \in Clients : client[c].at \in {"asked", "answered"} => left[c] <= MaxFetch
    /\ client[Loop].at \in {"asked", "answered", "timer", "asleep"}
    /\ client[Loop].at = "asleep" => left[Loop] <= LongestSleep
    /\ \A t \in Threads : client[t].at \in {"idle", "asked", "answered", "again"}

\* What the IdP answered changed since then; it fails to for want of being up.
AnswersRecent ==
    \A c \in Clients : client[c].at = "answered" =>
        IF client[c].answer = {} THEN upFor <= MaxFetch - left[c]
        ELSE OldAtMost(client[c].answer, MaxFetch - left[c])

\* A Lookup that has fetched keys looks at keys as recent, its own or later ones.
LookupsRecent ==
    \A t \in Threads :
        client[t].at = "again" /\ client[t].answer # {} => OldAtMost(keys, MaxFetch)

\* How long it is until the loop has refreshed the keys.
UntilRefreshed ==
    CASE client[Loop].at \in {"asked", "answered"} -> left[Loop]
      [] client[Loop].at = "asleep" -> left[Loop] + MaxFetch
      [] OTHER -> LongestSleep + MaxFetch

\* A key that is trusted still was withdrawn, or the IdP failed, so recently that
\* the loop refreshes the keys in time.
KeysRecent ==
    \A k \in keys \ published :
        \/ since[k] <= Staleness - UntilRefreshed
        \/ upFor <= Staleness - UntilRefreshed

CacheInv ==
    /\ CacheTyped /\ RefreshTimes /\ AnswersRecent /\ LookupsRecent /\ KeysRecent

\* A finite set of numbers has a largest one: what lies above it shrinks as it grows.
LEMMA LargestExists ==
    ASSUME NEW S \in SUBSET Nat, S # {}, IsFiniteSet(S)
    PROVE  \E s \in S : \A u \in S : u <= s
<1> DEFINE Above(s) == {u \in S : u >= s}
           Tails == {T \in SUBSET S : \E s \in S : T = Above(s)}
<1>1. IsWellFoundedOn(StrictSubsetOrdering(S), SUBSET S)
  BY FS_StrictSubsetOrderingWellFounded, FS_FiniteSubsetsOfFinite
<1>2. Tails # {} /\ Tails \subseteq SUBSET S
  OBVIOUS
<1>3. PICK T \in Tails : \A U \in Tails : ~ (<<U, T>> \in StrictSubsetOrdering(S))
  <2> HIDE DEF Tails
  <2> QED BY <1>1, <1>2, WFMin
<1>4. PICK s \in S : T = Above(s)
  BY <1>3
<1>5. \A u \in S : u <= s
  <2>1. SUFFICES ASSUME NEW u \in S, ~(u <= s) PROVE FALSE
    OBVIOUS
  <2>2. /\ \A v \in Above(u) : v \in Above(s)
        /\ s \in Above(s) /\ s \notin Above(u)
    <3>1. \A v \in S : v \in Nat
      OBVIOUS
    <3> QED BY <2>1, <3>1
  <2>3. Above(u) \in Tails
    OBVIOUS
  <2>4. <<Above(u), Above(s)>> \in StrictSubsetOrdering(S)
    BY <2>2 DEF StrictSubsetOrdering
  <2> QED BY <1>3, <1>4, <2>3, <2>4
<1> QED BY <1>5

\* The loop sleeps no shorter than any response lives.
LEMMA Sleeps ==
    /\ LongestSleep \in Nat /\ MinTTL <= LongestSleep
    /\ \A ttl \in TTLs : ttl \in Nat /\ ttl <= LongestSleep
    /\ Staleness = LongestSleep + 2 * MaxFetch /\ MaxFetch \in Nat /\ MinTTL \in Nat
<1> DEFINE Times == TTLs \cup {MinTTL}
<1>1. IsFiniteSet(Times) /\ Times # {} /\ Times \in SUBSET Nat
  BY TimeAssumption, FS_AddElement
<1>2. \E s \in Times : \A u \in Times : u <= s
  BY <1>1, LargestExists
<1>3. LongestSleep \in Times /\ \A u \in Times : u <= LongestSleep
  BY <1>2 DEF LongestSleep
<1> QED BY <1>1, <1>3, TimeAssumption DEF Staleness

\* The invariant holds at the start.
LEMMA InitCacheInv == Init => CacheInv
  BY Sleeps, LoopAssumption, KidAssumption, BoundAssumption
  DEF Init, KeyServerInit, ReaderInit, CacheInv, CacheTyped, IdPTyped, RefreshTimes,
      AnswersRecent, LookupsRecent, KeysRecent, Clients, Stages, Unset, NoKid

\* The types are kept.
LEMMA CacheKeepsTypes == CacheInv /\ [Next]_vars => CacheTyped'
<1> SUFFICES ASSUME CacheInv, [Next]_vars PROVE CacheTyped'
  OBVIOUS
<1> USE Sleeps, BoundAssumption DEF CacheInv, CacheTyped, IdPTyped, Clients, Stages
<1>1. CASE KeyServerStep
  <2>1. UNCHANGED <<keys, next, client, left>>
    BY <1>1 DEF KeyServerStep, reader, cache
  <2>2. CASE Rotate
    <3>1. published' \in SUBSET Kids /\ published' # {} BY <2>2 DEF Rotate
    <3>2. since' \in [Kids -> Nat] /\ UNCHANGED <<up, upFor>> BY <2>2 DEF Rotate
    <3> QED BY <2>1, <3>1, <3>2
  <2>3. CASE Fail \/ Recover
    BY <2>1, <2>3 DEF Fail, Recover
  <2> QED BY <1>1, <2>2, <2>3 DEF KeyServerStep
<1>2. CASE Tick
  <2>1. /\ UNCHANGED <<published, keys, client, up>>
        /\ since' \in [Kids -> Nat] /\ upFor' \in Nat /\ (~up => upFor' = 0)
    BY <1>2 DEF Tick, Age, Older
  <2>2. left' \in [Clients -> Nat]
    BY <1>2 DEF Tick
  <2>3. next' \in 0..LongestSleep \cup {Unset}
    BY <1>2 DEF Tick, Unset
  <2> QED BY <2>1, <2>2, <2>3
<1>3. ASSUME NEW c \in Clients, Answer(c) PROVE CacheTyped'
  BY <1>3 DEF Answer, idp, cache
<1>4. ASSUME NEW c \in Clients, Install(c) \/ SetError(c) PROVE CacheTyped'
  BY <1>4 DEF Install, SetError, AfterRefresh, Goto, idp
<1>5. CASE SetTimer \/ Wake
  BY <1>5 DEF SetTimer, Wake, Goto, idp, cache, Bigger, Unset
<1>6. ASSUME NEW t \in Threads, NEW k \in Kids, Miss(t, k) PROVE CacheTyped'
  BY <1>6 DEF Miss, idp, cache
<1>7. ASSUME NEW t \in Threads, Found(t) \/ NotFound(t) PROVE CacheTyped'
  BY <1>7 DEF Found, NotFound, Return, idp, cache
<1>8. CASE UNCHANGED vars
  BY <1>8 DEF vars, reader, cache, idp
<1> QED BY <1>1, <1>2, <1>3, <1>4, <1>5, <1>6, <1>7, <1>8 DEF Next

\* So is what each client may be doing, and for how long.
LEMMA CacheKeepsTimes == CacheInv /\ [Next]_vars => RefreshTimes'
<1> SUFFICES ASSUME CacheInv, [Next]_vars PROVE RefreshTimes'
  OBVIOUS
<1> USE Sleeps, LoopAssumption DEF CacheInv, CacheTyped, RefreshTimes, Clients, At
<1>1. CASE KeyServerStep
  BY <1>1 DEF KeyServerStep, reader
<1>2. CASE Tick
  BY <1>2 DEF Tick
<1>3. ASSUME NEW c \in Clients, Answer(c) PROVE RefreshTimes'
  BY <1>3 DEF Answer
<1>4. ASSUME NEW c \in Clients, Install(c) \/ SetError(c) PROVE RefreshTimes'
  BY <1>4 DEF Install, SetError, AfterRefresh, Goto
<1>5. CASE SetTimer \/ Wake
  BY <1>5 DEF SetTimer, Wake, Goto, Bigger, Unset
<1>6. ASSUME NEW t \in Threads, NEW k \in Kids, Miss(t, k) PROVE RefreshTimes'
  BY <1>6 DEF Miss
<1>7. ASSUME NEW t \in Threads, Found(t) \/ NotFound(t) PROVE RefreshTimes'
  BY <1>7 DEF Found, NotFound, Return
<1>8. CASE UNCHANGED vars
  BY <1>8 DEF vars, reader
<1> QED BY <1>1, <1>2, <1>3, <1>4, <1>5, <1>6, <1>7, <1>8 DEF Next

\* The keys that are gone, and how long they may be trusted still.
LEMMA TimeToRefresh ==
    CacheInv => /\ UntilRefreshed \in Nat
                /\ UntilRefreshed <= LongestSleep + MaxFetch
                /\ Staleness - UntilRefreshed \in Nat
                /\ MaxFetch <= Staleness - UntilRefreshed
<1> SUFFICES ASSUME CacheInv
             PROVE  UntilRefreshed \in Nat /\ UntilRefreshed <= LongestSleep + MaxFetch
  BY Sleeps
<1> QED BY Sleeps DEF CacheInv, CacheTyped, RefreshTimes, UntilRefreshed, Clients

\* What the IdP does makes nothing older.
LEMMA KeyServerKeepsAges ==
    CacheInv /\ KeyServerStep => AnswersRecent' /\ LookupsRecent' /\ KeysRecent'
<1> SUFFICES ASSUME CacheInv, KeyServerStep PROVE AnswersRecent' /\ LookupsRecent' /\ KeysRecent'
  OBVIOUS
<1>1. UNCHANGED <<keys, client, left>> /\ UntilRefreshed' = UntilRefreshed
  BY DEF KeyServerStep, reader, cache, UntilRefreshed
<1>2. \A S \in SUBSET Kids, n \in Nat : OldAtMost(S, n) => OldThen(S, n)
  <2>1. CASE Rotate
    BY <2>1, RotateAges DEF CacheInv, CacheTyped
  <2>2. CASE Fail \/ Recover
    BY <2>2 DEF Fail, Recover, OldAtMost, OldThen
  <2> QED BY <2>1, <2>2 DEF KeyServerStep
<1>3. \A n \in Nat : upFor <= n => upFor' <= n
  BY DEF KeyServerStep, Rotate, Fail, Recover
<1>4. \A c \in Clients : client[c].at = "answered" =>
         MaxFetch - left[c] \in Nat /\ client[c].answer \in SUBSET Kids
  BY Sleeps DEF CacheInv, CacheTyped, RefreshTimes
<1>5. AnswersRecent'
  BY <1>1, <1>2, <1>3, <1>4 DEF AnswersRecent, CacheInv, OldAtMost, OldThen
<1>6. LookupsRecent'
  BY <1>1, <1>2, Sleeps DEF LookupsRecent, CacheInv, CacheTyped, OldAtMost, OldThen
<1>7. KeysRecent'
  <2>1. SUFFICES ASSUME NEW k \in keys, k \notin published'
                 PROVE  \/ since'[k] <= Staleness - UntilRefreshed
                        \/ upFor' <= Staleness - UntilRefreshed
    BY <1>1 DEF KeysRecent
  <2>2. CASE k \in published
    <3>1. Rotate BY <2>1, <2>2 DEF KeyServerStep, Fail, Recover
    <3>2. since'[k] = 0 BY <2>1, <2>2, <3>1 DEF Rotate, CacheInv, CacheTyped
    <3> QED BY <3>2, TimeToRefresh
  <2>3. CASE k \notin published
    <3>1. since'[k] = since[k]
      BY <2>1, <2>3 DEF KeyServerStep, Rotate, Fail, Recover, CacheInv, CacheTyped
    <3> QED BY <1>3, <2>3, <3>1, TimeToRefresh DEF CacheInv, KeysRecent
  <2> QED BY <2>2, <2>3
<1> QED BY <1>5, <1>6, <1>7

\* Time passes for what is known and for its bounds alike.
LEMMA TickKeepsAges == CacheInv /\ Tick => AnswersRecent' /\ LookupsRecent' /\ KeysRecent'
<1> SUFFICES ASSUME CacheInv, Tick PROVE AnswersRecent' /\ LookupsRecent' /\ KeysRecent'
  OBVIOUS
<1>1. /\ Age /\ UNCHANGED <<published, keys, client>>
      /\ \A c \in Clients :
           /\ client[c].at \in {"asked", "answered", "asleep"}
                => left[c] > 0 /\ left'[c] = left[c] - 1
           /\ client[c].at \notin {"again", "timer"}
  BY DEF Tick, Age, CacheInv, CacheTyped
<1>2. \A S \in SUBSET Kids, n \in Nat : OldAtMost(S, n) => OldThen(S, n + 1)
  BY <1>1, AgeAges DEF CacheInv, CacheTyped
<1>3. upFor' \in Nat /\ upFor' <= upFor + 1 /\ \A k \in Kids : since'[k] <= since[k] + 1
  BY <1>1 DEF Age, Older, CacheInv, CacheTyped, IdPTyped
<1>4. AnswersRecent'
  <2>1. SUFFICES ASSUME NEW c \in Clients, client[c].at = "answered"
                 PROVE  IF client[c].answer = {} THEN upFor' <= MaxFetch - left'[c]
                        ELSE OldThen(client[c].answer, MaxFetch - left'[c])
    BY <1>1 DEF AnswersRecent, OldAtMost, OldThen
  <2>2. /\ MaxFetch - left[c] \in Nat /\ MaxFetch - left'[c] = (MaxFetch - left[c]) + 1
        /\ client[c].answer \in SUBSET Kids
    BY <1>1, <2>1, Sleeps DEF CacheInv, CacheTyped, RefreshTimes
  <2>3. CASE client[c].answer = {}
    BY <1>3, <2>1, <2>2, <2>3 DEF CacheInv, CacheTyped, AnswersRecent
  <2>4. CASE client[c].answer # {}
    BY <1>2, <2>1, <2>2, <2>4 DEF CacheInv, AnswersRecent
  <2> QED BY <2>3, <2>4
<1>5. LookupsRecent'
  BY <1>1 DEF LookupsRecent, Clients
<1>6. KeysRecent'
  <2>1. UntilRefreshed' = UntilRefreshed - 1
    BY <1>1, Sleeps DEF CacheInv, CacheTyped, RefreshTimes, UntilRefreshed, Clients
  <2>2. SUFFICES ASSUME NEW k \in keys \ published
                 PROVE  \/ since'[k] <= Staleness - UntilRefreshed'
                        \/ upFor' <= Staleness - UntilRefreshed'
    BY <1>1 DEF KeysRecent
  <2>3. since[k] \in Nat /\ since'[k] \in Nat /\ upFor' \in Nat /\ since'[k] <= since[k] + 1
    BY <1>1, <1>3 DEF Age, Older, CacheInv, CacheTyped, IdPTyped
  <2> QED BY <1>3, <2>1, <2>2, <2>3, TimeToRefresh, Sleeps DEF CacheInv, CacheTyped, KeysRecent
<1> QED BY <1>4, <1>5, <1>6

\* What a refresh installs is as recent as the refresh is long.
LEMMA RefreshKeepsAges ==
    ASSUME CacheInv, NEW c \in Clients, Answer(c) \/ Install(c) \/ SetError(c)
    PROVE  AnswersRecent' /\ LookupsRecent' /\ KeysRecent'
<1>1. UNCHANGED <<published, since, up, upFor, left>>
  BY DEF Answer, Install, SetError, idp
<1>2. \A S, n : OldAtMost(S, n) => OldThen(S, n)
  BY <1>1 DEF OldAtMost, OldThen
<1>3. CASE Answer(c)
  <2>1. /\ keys' = keys /\ client[c].at = "asked" /\ client'[c].at = "answered"
        /\ client'[c].answer = IF up THEN published ELSE {}
        /\ \A d \in Clients \ {c} : client'[d] = client[d]
    BY <1>3 DEF Answer, At, cache, CacheInv, CacheTyped
  <2>2. MaxFetch - left[c] \in Nat
    BY <2>1, Sleeps DEF CacheInv, CacheTyped, RefreshTimes
  <2>3. AnswersRecent'
    <3>1. IF client'[c].answer = {} THEN upFor' <= MaxFetch - left'[c]
          ELSE OldThen(client'[c].answer, MaxFetch - left'[c])
      BY <1>1, <2>1, <2>2 DEF CacheInv, CacheTyped, OldThen, Differences
    <3> QED BY <1>1, <1>2, <2>1, <3>1 DEF CacheInv, AnswersRecent, OldAtMost, OldThen
  <2>4. LookupsRecent'
    BY <1>1, <1>2, <2>1 DEF CacheInv, LookupsRecent, OldAtMost, OldThen, Clients
  <2>5. KeysRecent'
    <3>1. UntilRefreshed' = UntilRefreshed
      BY <1>1, <2>1, LoopAssumption DEF UntilRefreshed, Clients
    <3> QED BY <1>1, <2>1, <3>1 DEF CacheInv, KeysRecent
  <2> QED BY <2>3, <2>4, <2>5
<1>4. CASE Install(c) \/ SetError(c)
  <2>1. /\ client[c].at = "answered" /\ client'[c].answer = client[c].answer
        /\ client'[c].at = IF c = Loop THEN "timer" ELSE "again"
        /\ \A d \in Clients \ {c} : client'[d] = client[d]
    BY <1>4 DEF Install, SetError, AfterRefresh, Goto, At, CacheInv, CacheTyped
  <2>2. MaxFetch - left[c] \in Nat /\ MaxFetch - left[c] <= MaxFetch
    BY <2>1, Sleeps DEF CacheInv, CacheTyped, RefreshTimes
  <2>3. AnswersRecent'
    BY <1>1, <2>1 DEF CacheInv, AnswersRecent, OldAtMost
  <2>4. CASE Install(c)
    <3>1. keys' = client[c].answer /\ client[c].answer # {}
      BY <2>4 DEF Install
    <3>2. OldThen(keys', MaxFetch - left[c])
      BY <1>2, <2>1, <3>1 DEF CacheInv, AnswersRecent
    <3>3. \A k \in Differences(keys', published') : since'[k] <= MaxFetch - left[c]
      BY <3>2 DEF OldThen
    <3>4. \A k \in Differences(keys', published') : since'[k] \in Nat
      BY <1>1, <3>1 DEF CacheInv, CacheTyped, IdPTyped, Differences
    <3>5. \A k \in Differences(keys', published') : since'[k] <= MaxFetch
      BY <2>2, <3>3, <3>4, Sleeps
    <3>6. LookupsRecent'
      BY <3>5 DEF LookupsRecent, OldAtMost
    <3>7. KeysRecent'
      <4>1. UntilRefreshed' \in Nat /\ UntilRefreshed' <= LongestSleep + MaxFetch
        <5>1. CASE c = Loop
          BY <2>1, <5>1, Sleeps DEF UntilRefreshed
        <5>2. CASE c # Loop
          BY <1>1, <2>1, <5>2, TimeToRefresh DEF UntilRefreshed, Clients
        <5> QED BY <5>1, <5>2
      <4> QED BY <3>4, <3>5, <4>1, Sleeps DEF KeysRecent, Differences
    <3> QED BY <2>3, <3>6, <3>7
  <2>5. CASE SetError(c)
    <3>1. keys' = keys /\ client[c].answer = {}
      BY <2>5 DEF SetError
    <3>2. LookupsRecent'
      BY <1>1, <2>1, <3>1 DEF CacheInv, LookupsRecent, OldAtMost, Clients
    <3>3. KeysRecent'
      <4>1. CASE c = Loop
        <5>1. upFor <= MaxFetch
          BY <2>1, <2>2, <3>1, Sleeps DEF CacheInv, CacheTyped, AnswersRecent
        <5>2. UntilRefreshed' = LongestSleep + MaxFetch
          BY <2>1, <4>1 DEF UntilRefreshed
        <5> QED BY <1>1, <5>1, <5>2, Sleeps DEF KeysRecent
      <4>2. CASE c # Loop
        <5>1. UntilRefreshed' = UntilRefreshed
          BY <1>1, <2>1, <4>2 DEF UntilRefreshed, Clients
        <5> QED BY <1>1, <3>1, <5>1 DEF CacheInv, KeysRecent
      <4> QED BY <4>1, <4>2
    <3> QED BY <2>3, <3>2, <3>3
  <2> QED BY <1>4, <2>4, <2>5
<1> QED BY <1>3, <1>4

\* The loop's other steps make the next refresh no later, and a Lookup's no
\* difference.
LEMMA OthersKeepAges ==
    ASSUME CacheInv,
           \/ SetTimer \/ Wake
           \/ \E t \in Threads, k \in Kids : Miss(t, k)
           \/ \E t \in Threads : Found(t) \/ NotFound(t)
           \/ UNCHANGED vars
    PROVE  AnswersRecent' /\ LookupsRecent' /\ KeysRecent'
<1>1. UNCHANGED <<published, since, upFor, keys>>
  BY DEF SetTimer, Wake, Miss, Found, NotFound, Return, vars, reader, cache, idp
<1>2. CASE SetTimer \/ Wake
  <2>1. /\ client'[Loop].at \in {"asleep", "asked"}
        /\ \A t \in Threads : client'[t] = client[t] /\ left'[t] = left[t]
    BY <1>2, LoopAssumption DEF SetTimer, Wake, Goto, CacheInv, CacheTyped, Clients
  <2>2. UntilRefreshed' \in Nat /\ UntilRefreshed' <= UntilRefreshed
    <3>1. CASE SetTimer
      <4>1. UntilRefreshed = LongestSleep + MaxFetch
        BY <3>1 DEF SetTimer, At, UntilRefreshed
      <4>2. left'[Loop] \in Nat /\ left'[Loop] <= LongestSleep /\ client'[Loop].at = "asleep"
        BY <3>1, Sleeps DEF SetTimer, Goto, Bigger, CacheInv, CacheTyped, Clients, Unset
      <4> QED BY <4>1, <4>2, Sleeps DEF UntilRefreshed
    <3>2. CASE Wake
      <4>1. UntilRefreshed = MaxFetch
        BY <3>2, Sleeps DEF Wake, At, UntilRefreshed
      <4>2. left'[Loop] = MaxFetch /\ client'[Loop].at = "asked"
        BY <3>2 DEF Wake, Goto, CacheInv, CacheTyped, Clients
      <4> QED BY <4>1, <4>2, Sleeps DEF UntilRefreshed
    <3> QED BY <1>2, <3>1, <3>2
  <2>3. KeysRecent'
    <3>1. SUFFICES ASSUME NEW k \in keys \ published
                   PROVE  \/ since[k] <= Staleness - UntilRefreshed'
                          \/ upFor <= Staleness - UntilRefreshed'
      BY <1>1 DEF KeysRecent
    <3>2. since[k] \in Nat /\ upFor \in Nat
      BY DEF CacheInv, CacheTyped, IdPTyped
    <3>3. \/ since[k] <= Staleness - UntilRefreshed
          \/ upFor <= Staleness - UntilRefreshed
      BY DEF CacheInv, KeysRecent
    <3>4. \A n, u, v \in Nat : v <= u /\ n <= Staleness - u => n <= Staleness - v
      BY Sleeps
    <3>5. UntilRefreshed \in Nat
      BY TimeToRefresh
    <3> QED BY <2>2, <3>2, <3>3, <3>4, <3>5, Zenon
  <2> QED BY <1>1, <2>1, <2>3 DEF CacheInv, AnswersRecent, LookupsRecent, OldAtMost, Clients
<1>3. ASSUME NEW t \in Threads, \/ \E k \in Kids : Miss(t, k)
                                \/ Found(t) \/ NotFound(t)
      PROVE  AnswersRecent' /\ LookupsRecent' /\ KeysRecent'
  <2>1. /\ client'[t].at \in {"asked", "idle"}
        /\ \A d \in Clients \ {t} : client'[d] = client[d] /\ left'[d] = left[d]
    BY <1>3 DEF Miss, Found, NotFound, Return, CacheInv, CacheTyped, Clients
  <2>2. UntilRefreshed' = UntilRefreshed
    BY <2>1, LoopAssumption DEF UntilRefreshed, Clients
  <2> QED BY <1>1, <2>1, <2>2
          DEF CacheInv, AnswersRecent, LookupsRecent, KeysRecent, OldAtMost, Clients
<1>4. CASE UNCHANGED vars
  BY <1>4 DEF vars, reader, cache, idp, CacheInv, AnswersRecent, LookupsRecent, KeysRecent,
              UntilRefreshed, OldAtMost
<1> QED BY <1>2, <1>3, <1>4

\* The invariant holds throughout.
THEOREM CacheInvAlways == Spec => []CacheInv
<1>1. CacheInv /\ [Next]_vars => CacheInv'
  BY CacheKeepsTypes, CacheKeepsTimes, KeyServerKeepsAges, TickKeepsAges, RefreshKeepsAges,
     OthersKeepAges DEF CacheInv, Next
<1> QED BY <1>1, InitCacheInv, PTL DEF Spec

LEMMA ReaderKeepsTypes == CacheInv /\ TypeOK /\ [Next]_vars => TypeOK'
<1> SUFFICES ASSUME CacheInv, TypeOK, [Next]_vars PROVE TypeOK'
  OBVIOUS
<1>1. CacheTyped'
  BY CacheKeepsTypes
<1>2. KeyServerTypeOK'
  <2>1. Rotate \/ Fail \/ Recover \/ Age \/ UNCHANGED idp
    BY DEF Next, KeyServerStep, Tick, Answer, Install, SetError, SetTimer, Wake, Miss, Found,
           NotFound, Return, vars
  <2> QED BY <2>1, KeyServerKeepsTypes DEF TypeOK
<1>3. failed' \in BOOLEAN
  BY DEF Next, KeyServerStep, Tick, Answer, Install, SetError, SetTimer, Wake, Miss, Found,
         NotFound, Return, vars, reader, cache, TypeOK
<1> DEFINE Most == Bigger(LongestSleep, MaxFetch)
<1>4. left' \in [Clients -> 0..Most]
  <2>1. /\ left \in [Clients -> 0..Most] /\ Most \in Nat
        /\ MaxFetch \in 0..Most /\ 0 \in 0..Most
    BY Sleeps DEF Bigger, TypeOK
  <2>2. Bigger(next, MinTTL) \in 0..Most
    BY Sleeps DEF Bigger, CacheInv, CacheTyped, Unset
  <2> HIDE DEF Most
  <2>3. CASE Tick
    BY <2>1, <2>3 DEF Tick
  <2>4. CASE SetTimer \/ Wake
    BY <2>1, <2>2, <2>4 DEF SetTimer, Wake
  <2>5. ASSUME NEW t \in Threads, NEW k \in Kids, Miss(t, k) PROVE left' \in [Clients -> 0..Most]
    BY <2>1, <2>5 DEF Miss
  <2>6. ASSUME NEW t \in Threads, Found(t) \/ NotFound(t) PROVE left' \in [Clients -> 0..Most]
    BY <2>1, <2>6 DEF Found, NotFound, Return
  <2>7. ASSUME NEW c \in Clients, Answer(c) \/ Install(c) \/ SetError(c)
        PROVE  left' = left
    BY <2>7 DEF Answer, Install, SetError
  <2>8. CASE KeyServerStep \/ UNCHANGED vars
    BY <2>1, <2>8 DEF KeyServerStep, vars, reader
  <2> QED BY <2>1, <2>3, <2>4, <2>5, <2>6, <2>7, <2>8 DEF Next
<1> QED BY <1>1, <1>2, <1>3, <1>4 DEF TypeOK, CacheTyped

\* Type correctness of the cache: no timer of the loop and no refresh is longer
\* than the longest lifetime or the timeout, whatever lifetimes the IdP gives.
THEOREM CacheTypeCorrect == Spec => []TypeOK
<1>1. Init => TypeOK
  <2>1. 0 \in 0..Bigger(LongestSleep, MaxFetch) /\ MaxFetch \in 0..Bigger(LongestSleep, MaxFetch)
    BY Sleeps DEF Bigger
  <2> QED BY <2>1, KeyServerInitTypes, InitCacheInv
          DEF Init, ReaderInit, TypeOK, CacheInv, CacheTyped
<1>2. CacheInv /\ TypeOK /\ [Next]_vars => TypeOK'
  BY ReaderKeepsTypes
<1> QED BY <1>1, <1>2, CacheInvAlways, PTL DEF Spec

\* A withdrawn key is trusted for no longer than the longest sleep of the loop
\* and two refreshes, while the IdP answers (refreshOnce, timeUntilRefresh).
THEOREM StaleKeysDropped == Spec => []StalenessBounded
<1>1. CacheInv => StalenessBounded
  <2> SUFFICES ASSUME CacheInv, NEW k \in keys \ published
               PROVE  since[k] <= Staleness \/ upFor <= Staleness
    BY DEF StalenessBounded
  <2>1. since[k] \in Nat /\ upFor \in Nat
    BY DEF CacheInv, CacheTyped, IdPTyped
  <2> QED BY <2>1, TimeToRefresh, Sleeps DEF CacheInv, KeysRecent
<1> QED BY <1>1, CacheInvAlways, PTL

\* A settled key is never lost (setError, refreshOnce).
THEOREM SettledKeysKept == Spec => SettledKeyKept
<1>1. CacheInv /\ Next => \A k \in keys \ keys' : k \notin published \/ since[k] <= MaxFetch
  <2> SUFFICES ASSUME CacheInv, Next, NEW k \in keys \ keys', k \in published
               PROVE  since[k] <= MaxFetch
    OBVIOUS
  <2>1. PICK c \in Clients : Install(c)
    BY DEF Next, KeyServerStep, Tick, Answer, SetError, SetTimer, Wake, Miss, Found, NotFound,
           Return, reader, cache
  <2>2. client[c].at = "answered" /\ keys' = client[c].answer /\ client[c].answer # {}
    BY <2>1 DEF Install, At
  <2>3. since[k] <= MaxFetch - left[c]
    BY <2>2 DEF CacheInv, AnswersRecent, OldAtMost, Differences
  <2>4. since[k] \in Nat /\ left[c] \in Nat
    BY DEF CacheInv, CacheTyped, IdPTyped
  <2> QED BY <2>3, <2>4, Sleeps
<1>2. CacheInv /\ [Next]_vars
        => [\A k \in keys \ keys' : k \notin published \/ since[k] <= MaxFetch]_vars
  BY <1>1
<1> QED BY <1>2, CacheInvAlways, PTL DEF Spec, SettledKeyKept

\* A Lookup that has refreshed the keys finds a settled one (Lookup).
THEOREM SettledKeysFound == Spec => SettledKeyFound
<1>1. CacheInv => \A t \in Threads : NotFound(t) /\ client[t].answer # {}
        => client[t].kid \notin published \/ since[client[t].kid] <= MaxFetch
  BY DEF CacheInv, LookupsRecent, NotFound, At, OldAtMost, Differences
<1>2. CacheInv =>
        [\A t \in Threads :
            LET k == client[t].kid
            IN  NotFound(t) /\ client[t].answer # {}
                  => k \notin published \/ since[k] <= MaxFetch]_vars
  BY <1>1
<1> QED BY <1>2, CacheInvAlways, PTL DEF SettledKeyFound
=============================================================================
