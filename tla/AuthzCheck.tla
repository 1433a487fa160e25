----------------------------- MODULE AuthzCheck -----------------------------
(***************************************************************************)
(* The ext_authz pipeline: concurrent calls of authzServer.Check, the      *)
(* server-issued DPoP nonce they share, the cache of DPoP proofs, and, in  *)
(* the variant of ext_authz/server.go, the cache of token jtis.            *)
(*                                                                         *)
(* A call is cut where it touches shared state: each access under a mutex, *)
(* and each reading of the clock that is used after another goroutine may  *)
(* have run, is a step.  The pure checks between two of them (XFCC, x5t,   *)
(* HoK, policy, scopes) and the answers of the components that have a      *)
(* module of their own (JWKS, CRL, rate limiter) pass or refuse freely.    *)
(***************************************************************************)
EXTENDS Integers, FiniteSets

CONSTANTS
    Threads,        \* goroutines that serve Check
    Tokens,         \* access tokens, told apart by their jti
    DPoPTokens,     \* those with a cnf.jkt claim
    Proofs,         \* DPoP proofs, told apart by their jti
    NoToken, NoProof, NoCall,
    MarksTokens,    \* TRUE: server.go; FALSE: cmd/server/main.go, which is deployed
    NonceEnabled,   \* DPoP_REQUIRE_NONCE
    NonceTTL,       \* DPoP_NONCE_TTL
    ProofTTL, ProofMax,     \* DPoP_PROOF_TTL, DPoP_PROOF_MAX_ENTRIES
    TokenTTL, TokenMax,     \* REPLAY_TTL, REPLAY_CACHE_MAX_ENTRIES
    MaxAge, Skew,           \* DPoP_MAX_AGE, DPoP_CLOCK_SKEW
    MaxDelay,       \* longest time from the validation of a proof to its marking
    Drift,          \* how far a client's clock is off
    MaxNonces,      \* bound on the nonces generated
    MaxTime         \* bound on the clock

ASSUME ThreadsAssumption == IsFiniteSet(Threads)
ASSUME TokenAssumption ==
    /\ DPoPTokens \subseteq Tokens /\ NoToken \notin Tokens /\ NoProof \notin Proofs
    /\ MarksTokens \in BOOLEAN /\ NonceEnabled \in BOOLEAN
ASSUME TimeAssumption ==
    /\ NonceTTL \in Nat /\ MaxAge \in Nat /\ Skew \in Nat /\ MaxDelay \in Nat
    /\ Drift \in Nat /\ MaxNonces \in Nat /\ MaxTime \in Nat
ASSUME StoreAssumption ==
    {ProofTTL, ProofMax, TokenTTL, TokenMax} \subseteq Nat \ {0}

\* The proof cache outlives every proof: its window covers the age a proof may
\* have, the skew allowed for, and the time a call takes (by default 5 minutes
\* against 2 minutes and 2 seconds).
ASSUME ProofTTLAssumption == ProofTTL >= MaxAge + Skew + MaxDelay

NoNonce == 0

Steps == {"entry", "nonce", "validate", "rotate", "stamp", "mark", "authorize",
          "stampToken", "markToken", "respond"}

Calls ==
    [pc : Steps, token : Tokens \cup {NoToken}, proof : Proofs \cup {NoProof},
     nonce : Nat,       \* the nonce this call requires
     checked : Nat,     \* when it validated the proof
     stamp : Nat]       \* the time MarkIfNew read

SignedProofs == [iat : Nat, nonce : Nat]

ASSUME NoCallAssumption == NoCall \notin Calls /\ NoProof \notin SignedProofs

VARIABLES
    clock,
    call,                   \* call[t]: the Check t runs, or NoCall
    signed,                 \* signed[p]: what the client signed, or NoProof
    nonce, nonceExp,        \* authzServer.dpopNonce, dpopNonceExp
    generated,              \* how many nonces were generated: the last one's number
    disclosed,              \* nonces that left the server
                            \* (in a header for the upstream service)
    proofItems, proofLast,  \* authzServer.dpopProofCache
    tokenItems, tokenLast,  \* authzServer.replayCache
    spentProofs,    \* history: accepted proofs neither evicted nor lost since
    answered,       \* history: tokens allowed since the last restart
    forgotten,      \* history: tokens whose entry was evicted since then
    uses            \* history: uses[n]: validations under nonce n

proofStore == INSTANCE ReplayStore
    WITH Jtis <- Proofs, TTL <- ProofTTL, MaxEntries <- ProofMax,
         items <- proofItems, last <- proofLast
tokenStore == INSTANCE ReplayStore
    WITH Jtis <- Tokens, TTL <- TokenTTL, MaxEntries <- TokenMax,
         items <- tokenItems, last <- tokenLast

nonces == <<nonce, nonceExp, generated>>
proofCache == <<proofItems, proofLast>>
tokenCache == <<tokenItems, tokenLast>>
vars == <<clock, call, signed, nonces, disclosed, proofCache, tokenCache,
          spentProofs, answered, forgotten, uses>>

TypeOK ==
    /\ clock \in Nat
    /\ call \in [Threads -> Calls \cup {NoCall}]
    /\ signed \in [Proofs -> SignedProofs \cup {NoProof}]
    /\ nonce \in 0..MaxNonces /\ nonceExp \in Nat /\ generated \in 0..MaxNonces
    /\ disclosed \subseteq 1..MaxNonces
    /\ proofStore!StoreTypeOK
    /\ tokenStore!StoreTypeOK
    /\ spentProofs \subseteq Proofs
    /\ answered \subseteq Tokens /\ forgotten \subseteq Tokens
    /\ uses \in [1..MaxNonces -> Nat]

Init ==
    /\ clock = 0
    /\ call = [t \in Threads |-> NoCall]
    /\ signed = [p \in Proofs |-> NoProof]
    /\ nonce = NoNonce /\ nonceExp = 0 /\ generated = 0
    /\ disclosed = {}
    /\ proofStore!StoreInit(0)
    /\ tokenStore!StoreInit(0)
    /\ spentProofs = {}
    /\ answered = {} /\ forgotten = {}
    /\ uses = [n \in 1..MaxNonces |-> 0]

-----------------------------------------------------------------------------
(* Clients.                                                                *)

\* A client signs one proof per jti, by its own clock, over a nonce it can have
\* seen (or none).
Sign(p) ==
    /\ signed[p] = NoProof
    /\ \E i \in (clock - Drift)..(clock + Drift), n \in disclosed \cup {NoNonce} :
        /\ i >= 0
        /\ signed' = [signed EXCEPT ![p] = [iat |-> i, nonce |-> n]]
    /\ UNCHANGED <<clock, call, nonces, disclosed, proofCache, tokenCache,
                   spentProofs, answered, forgotten, uses>>

Signed == {p \in Proofs : signed[p] # NoProof}

\* Envoy forwards a request: with or without a token, with any proof on the
\* wire, however often it was sent before.
Arrive(t, k, p) ==
    /\ call[t] = NoCall
    /\ p \in Signed \cup {NoProof}
    /\ call' = [call EXCEPT ![t] =
                  [pc |-> "entry", token |-> k, proof |-> p, nonce |-> NoNonce,
                   checked |-> 0, stamp |-> 0]]
    /\ UNCHANGED <<clock, signed, nonces, disclosed, proofCache, tokenCache,
                   spentProofs, answered, forgotten, uses>>

-----------------------------------------------------------------------------
(* Steps of Check.                                                         *)

At(t, step) == call[t] # NoCall /\ call[t].pc = step
Goto(t, step) == call' = [call EXCEPT ![t].pc = step]
Done(t) == call' = [call EXCEPT ![t] = NoCall]

\* Certificate, CRL, token signature and x5t binding pass.
Enter(t) ==
    /\ At(t, "entry")
    /\ MarksTokens => call[t].token # NoToken
    /\ Goto(t, IF call[t].token \notin DPoPTokens THEN "authorize"
               ELSE IF NonceEnabled THEN "nonce" ELSE "validate")
    /\ UNCHANGED <<clock, signed, nonces, disclosed, proofCache, tokenCache,
                   spentProofs, answered, forgotten, uses>>

\* One of the checks without an effect refuses: entry, proof, HoK, policy,
\* scopes, rate limit.
Refuse(t) ==
    /\ \E step \in {"entry", "validate", "authorize"} : At(t, step)
    /\ Done(t)
    /\ UNCHANGED <<clock, signed, nonces, disclosed, proofCache, tokenCache,
                   spentProofs, answered, forgotten, uses>>

NewNonce ==
    /\ generated < MaxNonces
    /\ generated' = generated + 1
    /\ nonce' = generated'
    /\ nonceExp' = clock + NonceTTL

\* currentDPoPNonce: regenerates a missing or expired nonce.
CurrentNonce ==
    IF nonce = NoNonce \/ clock > nonceExp THEN NewNonce ELSE UNCHANGED nonces

ReadNonce(t) ==
    /\ At(t, "nonce")
    /\ CurrentNonce
    /\ call' = [call EXCEPT ![t].pc = "validate", ![t].nonce = nonce']
    /\ UNCHANGED <<clock, signed, disclosed, proofCache, tokenCache,
                   spentProofs, answered, forgotten, uses>>

\* Mutant of Fresh: the skew also extends the age.
FreshWithLeeway(iat, now) == iat <= now + Skew /\ now - iat <= MaxAge + Skew

\* validateDPoPIAT
Fresh(iat, now) == iat <= now + Skew /\ now - iat <= MaxAge

\* ValidateDPoPBinding accepts.  What it compares of this request alone (the
\* signature, the key, htm, htu, ath) matches or not freely.
Validate(t) ==
    /\ At(t, "validate")
    /\ call[t].proof \in Signed
    /\ LET proof == signed[call[t].proof] IN
        /\ Fresh(proof.iat, clock)
        /\ NonceEnabled => proof.nonce = call[t].nonce
    /\ call' = [call EXCEPT ![t].pc = IF NonceEnabled THEN "rotate" ELSE "stamp",
                            ![t].checked = clock]
    /\ uses' = IF NonceEnabled
                 THEN [uses EXCEPT ![call[t].nonce] = @ + 1] ELSE uses
    /\ UNCHANGED <<clock, signed, nonces, disclosed, proofCache, tokenCache,
                   spentProofs, answered, forgotten>>

\* Mutant of Rotate: the nonce is replaced only once it has expired.
RotateIfExpired(t) ==
    /\ At(t, "rotate")
    /\ CurrentNonce
    /\ Goto(t, "stamp")
    /\ UNCHANGED <<clock, signed, disclosed, proofCache, tokenCache,
                   spentProofs, answered, forgotten, uses>>

\* Mutant of Rotate: the nonce is not replaced.
RotateNothing(t) ==
    /\ At(t, "rotate")
    /\ Goto(t, "stamp")
    /\ UNCHANGED <<clock, signed, nonces, disclosed, proofCache, tokenCache,
                   spentProofs, answered, forgotten, uses>>

\* rotateDPoPNonce: whoever validated replaces the nonce, whatever it is by now.
Rotate(t) ==
    /\ At(t, "rotate")
    /\ NewNonce
    /\ Goto(t, "stamp")
    /\ UNCHANGED <<clock, signed, disclosed, proofCache, tokenCache,
                   spentProofs, answered, forgotten, uses>>

\* MarkIfNew reads the clock before it waits for the mutex.
Stamp(t, from, to) ==
    /\ At(t, from)
    /\ call' = [call EXCEPT ![t].pc = to, ![t].stamp = clock]
    /\ UNCHANGED <<clock, signed, nonces, disclosed, proofCache, tokenCache,
                   spentProofs, answered, forgotten, uses>>

AcceptProof(t) ==
    /\ At(t, "mark")
    /\ proofStore!RecordNew(call[t].proof, call[t].stamp)
    /\ spentProofs' = (spentProofs \ proofStore!Victims(call[t].stamp))
                        \cup {call[t].proof}
    /\ Goto(t, "authorize")
    /\ UNCHANGED <<clock, signed, nonces, disclosed, tokenCache, answered, forgotten, uses>>

RejectProof(t) ==
    /\ At(t, "mark")
    /\ proofStore!RejectReplay(call[t].proof, call[t].stamp)
    /\ Done(t)
    /\ UNCHANGED <<clock, signed, nonces, disclosed, tokenCache,
                   spentProofs, answered, forgotten, uses>>

\* Mutant of Authorize: the token is not recorded.
AuthorizeUnmarked(t) ==
    /\ At(t, "authorize")
    /\ Goto(t, "respond")
    /\ UNCHANGED <<clock, signed, nonces, disclosed, proofCache, tokenCache,
                   spentProofs, answered, forgotten, uses>>

\* HoK, policy, scopes and rate limit pass.
Authorize(t) ==
    /\ At(t, "authorize")
    /\ Goto(t, IF MarksTokens THEN "stampToken" ELSE "respond")
    /\ UNCHANGED <<clock, signed, nonces, disclosed, proofCache, tokenCache,
                   spentProofs, answered, forgotten, uses>>

\* Mutant of AcceptToken: the other checks run after the token is recorded.
AcceptTokenFirst(t) ==
    /\ At(t, "markToken")
    /\ tokenStore!RecordNew(call[t].token, call[t].stamp)
    /\ forgotten' = forgotten \cup tokenStore!Victims(call[t].stamp)
    /\ Goto(t, "authorize")
    /\ UNCHANGED <<clock, signed, nonces, disclosed, proofCache, spentProofs,
                   answered, uses>>

AcceptToken(t) ==
    /\ At(t, "markToken")
    /\ tokenStore!RecordNew(call[t].token, call[t].stamp)
    /\ forgotten' = forgotten \cup tokenStore!Victims(call[t].stamp)
    /\ Goto(t, "respond")
    /\ UNCHANGED <<clock, signed, nonces, disclosed, proofCache, spentProofs, answered, uses>>

RejectToken(t) ==
    /\ At(t, "markToken")
    /\ tokenStore!RejectReplay(call[t].token, call[t].stamp)
    /\ Done(t)
    /\ UNCHANGED <<clock, signed, nonces, disclosed, proofCache,
                   spentProofs, answered, forgotten, uses>>

\* Check answers allow, with the nonce to use next in a header that Envoy adds
\* to the request: the client sees it if the upstream service shows it, as the
\* echo service does.
Respond(t) ==
    /\ At(t, "respond")
    /\ IF NonceEnabled
         THEN CurrentNonce /\ disclosed' = disclosed \cup {nonce'}
         ELSE UNCHANGED <<nonces, disclosed>>
    /\ answered' = answered \cup ({call[t].token} \ {NoToken})
    /\ Done(t)
    /\ UNCHANGED <<clock, signed, proofCache, tokenCache, spentProofs, forgotten, uses>>

-----------------------------------------------------------------------------
\* Time passes, but no call is held up between the validation of its proof and
\* the marking for longer than MaxDelay.
Tick ==
    /\ clock < MaxTime
    /\ \A t \in Threads, step \in {"rotate", "stamp", "mark"} :
          At(t, step) => clock - call[t].checked < MaxDelay
    /\ clock' = clock + 1
    /\ UNCHANGED <<call, signed, nonces, disclosed, proofCache, tokenCache,
                   spentProofs, answered, forgotten, uses>>

\* The process dies and is started again: buildAuthzServer.
Restart ==
    /\ call' = [t \in Threads |-> NoCall]
    /\ nonce' = NoNonce /\ nonceExp' = 0
    /\ proofItems' = [p \in Proofs |-> proofStore!Absent] /\ proofLast' = clock
    /\ tokenItems' = [k \in Tokens |-> tokenStore!Absent] /\ tokenLast' = clock
    /\ spentProofs' = {} /\ answered' = {} /\ forgotten' = {}
    /\ UNCHANGED <<clock, signed, generated, disclosed, uses>>

Next ==
    \/ \E p \in Proofs : Sign(p)
    \/ \E t \in Threads, k \in Tokens \cup {NoToken}, p \in Proofs \cup {NoProof} :
          Arrive(t, k, p)
    \/ \E t \in Threads :
        \/ Enter(t) \/ Refuse(t)
        \/ ReadNonce(t) \/ Validate(t) \/ Rotate(t)
        \/ Stamp(t, "stamp", "mark") \/ AcceptProof(t) \/ RejectProof(t)
        \/ Authorize(t)
        \/ Stamp(t, "stampToken", "markToken") \/ AcceptToken(t) \/ RejectToken(t)
        \/ Respond(t)
    \/ Tick
    \/ Restart

Spec == Init /\ [][Next]_vars

-----------------------------------------------------------------------------
\* A DPoP proof gets a request through at most once, from the validation of
\* its age to the expiry of its entry, unless its entry was evicted or lost
\* (Check between ValidateDPoPBinding and dpopProofCache.MarkIfNew).
ProofUsedOnce ==
    [][\A t \in Threads : AcceptProof(t) => call[t].proof \notin spentProofs]_vars

\* Reading the nonce and rotating it are separate critical sections, so one
\* nonce may validate several proofs, but never more than there are calls
\* that run at the same time (currentDPoPNonce, rotateDPoPNonce).
NonceUsesBounded ==
    \A n \in 1..MaxNonces : uses[n] <= Cardinality(Threads)

\* A nonce that validated a proof is current only until the call it validated
\* rotates it, whoever else rotates or regenerates it meanwhile: it never
\* becomes the current one again (rotateDPoPNonce, currentDPoPNonce).
UsedNonceRetired ==
    \A n \in 1..MaxNonces :
        uses[n] > 0 /\ nonce = n => \E t \in Threads : At(t, "rotate")

\* Check records a token only when every other check has passed: a refused
\* request does not use up its token (server.go, where MarkIfNew comes last).
TokenSpentOnlyByAllow ==
    \A k \in tokenStore!Present(tokenItems) :
        k \in answered \/ \E t \in Threads : At(t, "respond") /\ call[t].token = k

\* Check, step 5: "Replay protection (jti tracking) for authenticated tokens":
\* no token is allowed twice within TokenTTL, unless its entry was evicted or
\* lost.
TokenAllowedOnce ==
    [][\A t \in Threads : Respond(t) => call[t].token \notin answered \ forgotten]_vars
=============================================================================
