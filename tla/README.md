# Zero-Trust API mTLS: specifications, model checks and proofs

TLA+ modules of the authorization side of this repository, the TLC
configurations that check them on small instances, and TLAPS proofs of the
results that hold for every size. Source paths below are relative to `src/`;
line numbers are those of the commit the modules were written from.

1. [The system](#1-the-system)
2. [How the modules are put together](#2-how-the-modules-are-put-together)
3. [The modules and the code](#3-the-modules-and-the-code)
4. [What the runs check](#4-what-the-runs-check)
5. [Where code and documents differ](#5-where-code-and-documents-differ)
6. [Fairness](#6-fairness)
7. [What is proved](#7-what-is-proved)
8. [What is not modelled, and the order of the work ahead](#8-what-is-not-modelled-and-the-order-of-the-work-ahead)

Running it: `tlc -workers 2 -config MCReplayCache.cfg MCReplayCache` for a run
(its module and cfg are in the table of section 4), `tlapm AuthzCheckProofs.tla`
for the proofs of a module.

## 1. The system

Every request for the API goes to Envoy, which terminates mTLS and asks an
external authorization server, `ext_authz`, over gRPC: `Check` answers allow or
refuse. `ext_authz` verifies the client certificate against the CA's revocation
list, the bearer token against the keys of Keycloak, the bindings of the token
to the certificate and to a DPoP key, the policy, the scopes and the rate
limit. Behind it a Python backend verifies the token again and applies the same
policy file to some handlers. Clients get DPoP-bound tokens from Keycloak
through a small proxy.

```
 browser / API client --mTLS--> Envoy --Check (0.5 s)--> ext_authz --+--> Keycloak JWKS
        |                         |                                  +--> CA's CRL
        |                         +--request, if allowed--> backend  +--> Redis (replay)
        +--token request--> dpop-token-proxy --> Keycloak <----------+  (keys, users)
```

Two programs implement `Check`: `ext_authz/cmd/server/main.go`, which the
Dockerfile builds, and `ext_authz/server.go`, an older twin that the unit tests
exercise and that no image contains. They differ in one stage that keeps state:
only `server.go` records the jti of the *token*. `AuthzCheck` models both.

### Inventory

| component | source | state | operations | what makes it hard |
|---|---|---|---|---|
| authorization pipeline | `ext_authz/cmd/server/main.go`, `ext_authz/server.go` | current DPoP nonce and its expiry; it owns the caches below | `Check`, `currentDPoPNonce`, `rotateDPoPNonce`, `enforceRateLimit` | every call is a goroutine; time, nonce and caches are read and written in separate critical sections |
| in-memory replay store | `internal/cache/replay.go` | map jti -> time seen, time of the last purge | `MarkIfNew` (purge, reject or evict and record) | the time is read before the mutex; purges are rare; the capacity evicts live entries; a restart loses all |
| Redis replay store | `internal/cache/replay_redis.go` | a key per jti with an expiry, a sorted set of jtis by time | `markIfNew`: SET NX PX, ZADD, ZCARD, ZRANGE, then DEL and ZREM per victim | six commands of each of several calls interleave; each may fail, executed or not; fallback to the in-memory store |
| rate limiter | `internal/cache/rate.go` | bucket (start, count) per limit, identity and window | `Allow` | the time is read before the mutex; fixed windows |
| JWKS cache | `internal/auth/jwks.go` | keys by kid, last error, time of the next refresh | `refreshLoop`, `refreshOnce`, `Lookup` | overlapping refreshes are installed in any order; rotations and outages of the IdP |
| CRL checker | `internal/auth/crl.go` | the list and when it was fetched | `IsRevoked`, `getCRL` | the mutex is held over a fetch of up to 10 s; stale list as fallback; restart during an outage |
| policy evaluation | `internal/auth/policy.go` | none (the policy is loaded once) | `LoadPolicy`, `Evaluate`, the condition engine | first match with fall-through, a deny that does not fall through, scopes and limits merged from two rules |
| DPoP validation | `internal/auth/dpop.go` | none | `ValidateDPoPBinding`, `validateDPoPIAT` | freshness against the lifetime of the proof cache; clock drift |
| JWT verification | `internal/auth/jwt.go`, `errors.go`, `pem.go` | none | `VerifyAuthorizationHeader`, `ValidateScopes` | three readers of one header, and the cookie, spell it differently |
| certificate identity, token binding | `internal/auth/mtls.go`, `binding.go`, `hok.go` | none | parsing XFCC, x5t#S256, holder-of-key | which check applies depends on the token; each is skipped when its claim is absent |
| backend ABAC | `backend/routes/abac.py` | the policy file, read once | `/api/abac/evaluate`, `abac_enforce` | a second implementation of the policy |
| backend token validation | `backend/services/jwt_validator.py` | discovery document and key set, each kept 300 s, per worker process | `fetch_jwks`, `verify_token`, `require_jwt` | both are fetched inside the request that finds them old; no refresh for an unknown kid, no fallback on old keys |
| Keycloak administration and login | `backend/services/keycloak.py`, `backend/routes/auth.py` | Keycloak's users and their roles; the browser's session | `create_user`, `assign_role`, `register`, login, logout | five requests in a row, of which each may fail, time out and be executed later; gunicorn kills a worker that is at it for too long |
| DPoP token proxy | `scripts/dpop-token-proxy/app.py` | a claim mapper in Keycloak, shared by all callers | `token` | writes the caller's key into the shared mapper, then asks for the token |
| backend API routes | `backend/routes/api.py`, `backend/app/` | none | handlers | - |
| Envoy | `envoy/*.yaml` | - | asks `Check`, waits 0.5 s, fails closed | an abandoned `Check` goes on |
| frontend | `frontend/src`, `frontend/legacy-flask` | session of one browser | pages | - |
| PKI scripts | `vault/scripts`, `infrastructure/docker/images/vault-init` | certificates on disk, a mapper in Keycloak | one-shot scripts | - |
| legacy upstreams | `backend/legacy-services` | none | echo | - |
| deployment, benchmarks | `infrastructure`, `docker-compose.yml`, `benchmarks` | - | - | settings: see below |

What each part must guarantee:

- *pipeline*: a DPoP proof gets one request through; a nonce that was used is
  not current again; in `server.go`, a token is allowed once and is not used up
  by a refusal;
- *replay stores*: no jti twice within the window, no refusal long after it,
  bounded size, and what an eviction or a failure may cost;
- *rate limiter*: nobody refused without a used quota, nobody far above it;
- *token binding*: a bound token goes through only on the connection of its
  certificate, or with a proof or signature of its key made for this request, and the
  handler behind acts for the token that was checked;
- *JWKS cache* and *backend token validation*: withdrawn keys are forgotten, settled
  keys are kept and found, outages do no harm, everything heals in the end;
- *CRL checker*: a revocation takes effect in bounded time and for good, and a
  slow CA delays calls without losing any;
- *policy*: the walk over the rules decides what the rules mean, and asks for
  exactly the scopes and the limit of the rules that count;
- *backend*: agrees with `ext_authz` on the policies that are deployed;
- *registration*: who is told that the account exists is the one who made it, and an
  account without its role is the trace of a failure.

Settings that matter: `docker-compose.service.yml` sets `REPLAY_TTL` to `0s`,
which means the default of ten minutes, and `REPLAY_REDIS_URL` without
`REPLAY_BACKEND`, which leaves the in-memory store in use; `docker-compose.yml`
selects Redis. What that Redis store keeps for *tokens* is reached from `server.go`
alone, since `main.go` records no token's jti; its proof cache is in memory.
No deployment turns server nonces on, and none sets `CRL_DISTRIBUTION_URL`: there
`IsRevoked` answers that no certificate is revoked (`crl.go:47`), as
`docs/security-analysis.md:247` says, and what `CRLChecker` shows begins once a
URL is set. The deployed policy
(`ext_authz/internal/config/authz-policy.yaml`, the same file as
`backend/config/authz-policy.yaml`) denies by default and has path-prefix rules
that allow under a constraint, no global rule and no denying rule.

The hazards, each at its line with the properties that watch over it, are listed
under `hazards` in `PROJECT.json`.

## 2. How the modules are put together

```
 OneTimeLedger <----INSTANCE---\-------\   (and from AuthzCheckProofs, once per cache)
 ReplayStore ----EXTENDS----> ReplayCache \---> ReplayCacheProofs
      |  \-------EXTENDS-------------> RedisReplay ----> RedisReplayProofs
      +--INSTANCE twice-----> AuthzCheck -----> AuthzCheckProofs
           (proofs, tokens)
 PolicyConditions --EXTENDS--\
 PolicyEval ------EXTENDS--> PolicyAdvice --> Admission --+--> MCPolicy
                                                          \--> PolicyProofs
 KeyServer --EXTENDS--> JWKSCache   --\
      \-----EXTENDS--> BackendKeys --+--> MCJWKSCache
                                      \--> KeyReadersProofs
 TokenProxy   --\
 Registration --+--> MCTokenProxy
                 \-> KeycloakProofs
 RateLimiter --> RateLimiterProofs     CRLChecker --> CRLCheckerProofs
```

`ReplayStore` is the critical section of the in-memory store, as actions over
two variables. Who calls it, and with which time, is the business of the module
that uses it: `ReplayCache` lets goroutines call it with times they read
earlier, `AuthzCheck` instantiates it for the cache of proofs and once more for
the cache of tokens, and `RedisReplay` runs it when Redis fails.

`AuthzCheck` composes the stages of `Check` that share state between calls. The
JWKS cache, the CRL checker, the policy and the rate limiter appear in it only
as a stage that passes or refuses: no answer of theirs depends on the nonce or
on the replay caches, and nothing the pipeline does before them changes what
they hold, so they are checked apart, each under every sequence of calls the
pipeline can make. `PolicyEval` goes on after `Evaluate` into the scope and rate
stages of `Check`, because what they ask for is computed there. It takes the
verdict on a rule's constraint as given; `PolicyConditions` computes that
verdict, as each of the two programs does, and `PolicyAdvice` puts the two
together. The conditions are trees, and what is computed over one is a recursive
function on the set of them (section 7 says what that is for). `Admission` goes the other way: it takes one request
through every stage of `Check`, from the certificate to the status, with the
policy evaluated on the claims of the token that was verified; what is remembered
of earlier requests is the business of `AuthzCheck`.

`OneTimeLedger` is the abstract specification of a replay cache: what it promises
to callers, without calls, clock readings and purges. `ReplayCache` implements it,
and so do each of the two caches inside `AuthzCheck` and the fallback of `RedisReplay`.

`KeyServer` is the IdP as the readers of its keys see it: rotations, outages, and
how long ago each key changed. Both readers extend it. They share nothing else,
so a behaviour of `MCJWKSCache` has one of them, which the variable `readerIs`
says, and so it is with the two programs that write to Keycloak in
`MCTokenProxy` (`writerIs`): the proxy writes a mapper of a client, the backend
users, and neither reads what the other writes. `MCAuthzPrograms` (`programIs`) does
the same for the two programs that implement `Check`. `TokenProxy` and `Registration`
run before any request exists.

The `MC*` modules only add what TLC needs: symmetry sets, the choice of one program
per behaviour and, for policies, the set of rules. No cfg replaces a definition.

## 3. The modules and the code

Conventions: time is counted in ticks; an operation under a mutex is one action;
a reading of the clock that is used later is an action of its own and its value
is part of the call (`stamp`, `checked`, `time`). A restart of the process is an
action, and calls in flight die with it. Variables that exist only to state a
property are marked *history*. Operators marked *Mutant of* are faulty variants
of the definition after them; no specification uses them. They document what
each property would notice: replacing the definition by its mutant makes TLC
report that property, under the same cfg (the pairs are in `PROJECT.json`).

**ReplayStore, ReplayCache** (`internal/cache/replay.go`). `items` and `last` are
the fields of the same names. `Purged` is `purgeExpired`: a scan at most once per
`TTL`, dropping what is *older* than the window. `RecordNew` and `RejectReplay`
are the two outcomes of `markIfNewInMemory`, each with the purge it makes; when
the store is full `RecordNew` evicts one of the oldest entries, whichever the
iteration over the map meets. `Enter` reads `time.Now()`; `Accept` and `Reject`
take the mutex. `grantedAt`, `grantedStamp`, `evicted` and `lost` are history.
The comment in `replay.go` at line 116 speaks of the window as if entries expired
exactly after it; because purges are rare a jti is refused for up to twice the
window, which `BoundedRejection` states and the proof confirms.

**OneTimeLedger** (what `MarkIfNew` promises). An identifier that is held is
refused, any other is entered under a time that may be past; entries go when
their window has passed, one of the oldest when there is no room, all in a crash.
`ReplayCache!Ledger` maps `items` to the ledger and the clock to its time;
`ImplementsLedger` is the refinement. `Enter` stutters, `Accept` is a `Grant`,
`Reject` a `Refuse`.

**AuthzCheck** (`Check` in both programs, the nonce functions, `dpop.go`'s
freshness). `call[t].pc` is where goroutine `t` is:

| action | code in `cmd/server/main.go` (`server.go`) |
|---|---|
| `Sign`, `Arrive` | the client signs a proof by its own clock, at most `Drift` off; Envoy forwards a request with any token and any proof ever signed |
| `Enter`, `Refuse` | XFCC, CRL, JWT, x5t pass, or any stage without an effect refuses; `server.go` also refuses a request without a token |
| `ReadNonce` | `currentDPoPNonce` (152-154): generates one when there is none or it has expired |
| `Validate` | `ValidateDPoPBinding` (157-168): `iat` within `Skew` of the future and `MaxAge` of the past, and the nonce that was read before |
| `Rotate` | `rotateDPoPNonce` (169-171) |
| `Stamp`, `AcceptProof`, `RejectProof` | `dpopProofCache.MarkIfNew` (172-177) |
| `Authorize` | HoK, policy, scopes, rate limit pass (180-213) |
| `Stamp`, `AcceptToken`, `RejectToken` | `replayCache.MarkIfNew`, in `server.go` only |
| `Respond` | the allow response, with the nonce to use next in a header that Envoy adds to the request upstream (215-219) |

`MarksTokens` tells the two programs apart. A proof's signature, key, htm, htu
and ath depend on the request alone; that they fail is one of the refusals, and
`Admission` says when they do. `docs/submission-evidence-matrix.md:47-49` speaks of
server-issued nonces; no deployment turns them on.

**RateLimiter** (`internal/cache/rate.go`, `enforceRateLimit`). `OpenWindow`,
`Count` and `Refuse` are the branches of `Allow` under the mutex; a bucket is
`[startAt, count]`. A late caller may open a window that starts in the past, or
count in one that starts after the time it read: both happen in the runs.
`granted` is history: the times at which requests of a key were allowed, in the
order of the mutex.

**KeyServer** (Keycloak, external). `published` is what `jwks_uri` serves, never
empty; `Rotate` replaces it, `Fail` and `Recover` bound an outage, `Age` is a tick.
`since` and `upFor` are history, up to a horizon above every bound a property
names.

**JWKSCache** (`internal/auth/jwks.go`). A refresh is `Answer` (discovery and
fetch, at the moment the IdP decides what to answer), then `Install` or
`SetError` under the write lock. The loop then sets its timer (`SetTimer`,
`timeUntilRefresh`) and sleeps until `Wake`; a `Lookup` that misses (`Miss`)
refreshes by itself and looks again (`Found`, `NotFound`). The deadlines `next`
and `left` are ticks that remain, so the model needs no clock and its runs no
bound on time.

**BackendKeys** (`backend/services/jwt_validator.py`). A request is `Receive`, then,
if the key set is old, `Discover` (if the document is old too), `AnswerKeys` and
`Keep`, then `RefuseKid` or `AcceptKid`; without a configured issuer the document
may be needed once more (`AskIssuer`, `AcceptIssuer`), after the key was checked.
`GetFails` is any of the three GETs. `fetch_jwks` reads the clock before its
GETs and stores that time with the set, so `held` counts from there and `waited`
from the GET under way. Each worker process has its own validator and serves one
request at a time, so one validator is enough.

**CRLChecker** (`internal/auth/crl.go`). `Lock`, then `UseCached` or `StartFetch`,
`Serve`, and `Keep` or `FetchFailed`, all while holding `mu`; the comparison
with the serial runs after the unlock. Lists only grow: certificates are not
reinstated.

**PolicyEval** (`Evaluate`, `applyPolicyRule`, `policyRuleMatches`,
`policyRuleSatisfied`, and the scope and rate stages of `Check`). A rule is what
the walk sees of it for the request at hand: each part of its match and of its
conditions is `absent`, a `hit` or a `miss`. Policies are chosen in `Init`. Two
behaviours are worth knowing: under `default_action: deny` a global rule refuses
every request (`GlobalRefuses`), since its own action is the default; and a
denying rule ends the walk even when its conditions are not met (`Denies`,
`Deciding`), although the comment at `policy.go:235` describes falling through to
later rules. What a policy *means* (`Permits`, `Demands`) is stated by that comment:
the first rule whose conditions hold decides (`Holding`, `FirstHolding`). Where the
walk departs from it is the run `policy_deny` of section 5.
`Refused` abstracts from a refusal's other fields, which nobody reads.

**PolicyConditions** (the condition engines of `policy.go` and of
`backend/routes/abac.py`). `Holds` is `evaluateCondition` with `Resolve`,
`Compare` and `Ordered`; `BackendHolds` is `_evaluate_constraint_detailed` with
`Known`, `BackendResolve` and `BackendCompare`. They differ in many places, each
visible as a line that one has and the other has not: `ext_authz` looks a claim
up under its name in lower case, passes an empty request (`policy.go:402`), so
that `request.method` is blank, compares without regard to case, drops blank
values and takes the hour in its own time zone; the backend does none of this,
takes an operator it does not know for satisfied (the numeric comparisons but
`between`), and takes `not_exists` of a missing fact for satisfied, where
`ext_authz` fails it because the fact cannot be resolved. `Portable` and
`Plain` say which conditions and which requests stay clear of all that; those of
the deployed policy do. `Conditions`, the domain of the constant `Depth`, is every
condition of a policy and every part of one; `DepthAssumption` says that a part is
less deep than the whole, that a `not` has a part and that a comparison has a
value. Of a `not` without a part and a leaf without a value, which a
policy file could contain and the deployed one does not, nothing is said.

**PolicyAdvice** (`backend/routes/abac.py`). `MatchRule`, `Advice` and `Enforce`
read the same policy as the backend does: scopes are a condition, the global
rule is not looked at, a rule about certificates fails. `Deployed` is the shape
of the policy that is shipped. The verdict on a constraint that `PolicyEval` is
given is the one `Holds` computes (`RequestInit`).

**Admission** (`Check` of `cmd/server/main.go`, with `mtls.go`, `jwt.go`, `binding.go`,
`dpop.go` and `hok.go`; beside it `server.go` and the backend's `_extract_token`). A
request is a `wire`: a certificate and whether it is revoked, a header, a cookie
and a session that carry tokens, a proof and a signature. Signatures, thumbprints and
hashes are what they were made with and over. Nothing is assumed about who sends
them: a proof or a signature may be a copy of one that its owner made, for this
request or another. Of a signature nothing is remembered, and it names no time
or jti (`hok.go`, `main.go:180-191`), so a copy over the same lines is answered like
the original; `docs/security-evaluation.md` counts replayed requests among what an
attacker can do. What stands against it in the documents is the jti of the token
(`authz_token_replay`, section 5). A copied DPoP proof is the business of
`AuthzCheck` (`ProofUsedOnce`). Each stage is an action; a check is a list
of tests in the order of the code with the status of the first that fails
(`ProofTests`, `SignatureTests`, ...), and `Status` is what `deny` makes of it. The
stages after the token are those of `PolicyEval`. `TokenRequired` is the reason
for which a caller without a token is told to log in. `ServerRefusal` is the
verdict of the program the tests exercise.

Three readings of one `Authorization` header are worth knowing: the scheme counts
in any spelling for `extractBearerToken`, in two for `stripBearerPrefix`, whose
empty result leaves the proof's `ath` unchecked, and in one for the backend, which
then takes the cookie. The properties name the spellings they speak of.

**TokenProxy** (`scripts/dpop-token-proxy/app.py`). A call is `Send` (by a client
that has no token bound to its key), `Validate`, `Read` (the admin's token, the
client, the mapper), `Put`, `Issue` (Keycloak reads the mapper) and `Answer`.
Every request to Keycloak can fail or be given up after its timeout; a PUT that
was given up may have been executed, may never be, or may be later (`LatePut`).
`overlap` is history.

**Registration** (`backend/routes/auth.py`, `backend/services/keycloak.py`). A worker
serves one registration: `Token`, `Created` or `NameTaken` or `CreateFails`, `Roles`,
`Assign` or `AssignFails`, `Reply`. A request that writes and fails or is given up
may have been executed, may never be, or may be later (`Unheard`, `Late`); a
worker may be killed with one on its way (`Killed`), as gunicorn does after its default of 30 s
although five requests of 10 s each fit into a registration. `made`, `gaveUp` and
`hurt` are history.

**RedisReplay** (`internal/cache/replay_redis.go`, `MarkIfNew`). One action per
command; each has a branch in which the command fails, before or after Redis
executed it. `left[j]` is the remaining life of the key of `j`, `index[j]` its
score. Keys expire by themselves, entries of the index do not. `PickVictims` is the
ZRANGE, whose answer the call keeps as the list it then deletes one by one. Of the
history, `unanswered` are the jtis whose SET was executed for a call that was told it
had failed; such a call goes on to the fallback (`Keep`, `RefuseKept`), which is the
store of `ReplayStore`. `Fallback` maps it to `OneTimeLedger`.

## 4. What the runs check

States are distinct states; times are for two workers.

| run | module, cfg | instance | states | time |
|---|---|---|---|---|
| `replay_cache` | `MCReplayCache` | 2 goroutines, 3 jtis, TTL 2, 2 entries, clock to 5 | 1.14 M | 1 min |
| `authz_check` | `MCAuthzPrograms` | 2 goroutines, 2 proofs, a DPoP and a plain token; `server.go` with one entry per cache, drift, skew and delay 1, clock to 3; or `main.go` with 3 nonces that expire after their tick, without the plain token | 5.87 M | 2 min |
| `rate_limiter` | `MCRateLimiter` | 3 goroutines, 1 identity, quota 2, window 4, delay up to 2, clock to 9 | 122 k | 10 s |
| `jwks_cache` | `MCJWKSCache` | 2 keys, 2 rotations, 1 outage; the loop and 1 lookup, lifetime 2, fetches up to 2; or the backend, caches 3, GETs up to 1, issuer not configured | 1.47 M | 80 s |
| `crl_checker` | `MCCRLChecker` | 2 goroutines, 1 serial, lifetime 2, fetches up to 2, 2 outages, 1 restart | 43 k | 10 s |
| `policy` | `MCPolicy` | all policies of up to 3 rules out of 14, 4 global rules, all scope sets; policies of up to 2 deployed rules with 5 constraints, 40 requests; whole calls with every certificate, token, proof and signature | 1.24 M | 1 min |
| `token_proxy` | `MCTokenProxy` | 3 threads, 2 clients, 2 failing requests; or 3 workers, 2 users, 2 accidents | 603 k | 80 s |
| `redis_replay` | `MCRedisReplay` | 2 goroutines, 2 jtis, 1 entry, TTL 2, 2 failing commands, 1 restart, clock to 3 | 4.10 M | 2 min |
| `authz_token_replay`, `policy_hours`, `policy_deny`, `redis_race` | `MCAuthzReplay.cfg`, `MCPolicyHours.cfg`, `MCPolicyDeny.cfg`, `MCRedisRace.cfg` | section 5 | | under 1 min |

What each shows, and why its bounds let the interesting cases happen:

- **replay_cache**: `ReplayWindow` - no jti is accepted within `TTL` of the time
  its last acceptance read, unless its entry was evicted or lost in a restart;
  `BoundedRejection` - nobody is refused 2 x `TTL` or more after the acceptance;
  `EvictionNeedsFlood` - a live entry is given up only after `MaxEntries` other
  jtis were accepted since; `ImplementsLedger` - to its callers the cache is the
  ledger, whose step says what a purge and an eviction may take, so the capacity
  and the order of eviction are in it. Three jtis against two entries
  force evictions; a clock of 5 with `TTL` 2 allows two purges and an entry that
  survives the first; two goroutines give a late caller and a prompt one.
- **authz_check**, of `server.go`: `ProofUsedOnce` - a proof gets one request through although
  its validation and its recording are separate, with `MaxAge`, `Skew` and the
  delay adding up to exactly `ProofTTL`, so that the boundary is reached;
  `TokenAllowedOnce` and `TokenSpentOnlyByAllow` for the token cache of
  `server.go`. One entry per cache forces evictions of both kinds. Of `main.go`:
  `NonceUsesBounded` - one nonce validates no more proofs than
  there are concurrent calls; `UsedNonceRetired` - a nonce that validated a
  proof is current only until that call rotates it. Two goroutines are enough
  for the race between reading and rotating; `NonceTTL` 0 makes a nonce expire
  with the one tick of its behaviours, and of three nonces one is replaced in use and
  one runs out. A plain token takes the steps of no token there (`BoundOrNone`),
  and calls without one are kept, since their answers disclose nonces too.
- **rate_limiter**: `RefusalJustified` - a refused caller's key had its full
  quota granted within one window before the time it read; `BurstBounded` - no
  span shorter than a window by the longest wait holds more than twice the quota. The clock runs over more
  than two windows, and three goroutines over a quota of two fill it and are
  refused. Keys are independent (the map is indexed by key), so one is enough.
- **jwks_cache**: `StalenessBounded` - a withdrawn key is trusted at most for the
  loop's longest sleep and two fetches while the IdP answers; `SettledKeyKept`
  and `SettledKeyFound` - a key that has been published for longer than a fetch
  is neither dropped nor reported unknown; `CacheConverges` - once rotations
  and outages are over the cache holds what is published, for good. Of the backend:
  `RetiredKeyRefused` - no token passes under a key withdrawn longer ago than the
  caches live, or than a GET more where the issuer is looked up late, however the
  GETs and an outage fall; `SettledKeyAccepted` - a kid is refused only if its key
  changed within that time, so the backend catches up with a rotation that
  `ext_authz` follows at once. `CacheTTL` 3 exceeds two GETs, so a set can be kept,
  used, and grow old. Two rotations
  let a key go and come back while an answer is under way. One lookup beside the
  loop gives two overlapping refreshes, which is what a reordering takes.
- **crl_checker**: `RevocationEffective` - after a revocation a certificate passes
  only within the list's lifetime plus one fetch, or while the distribution
  point fails and one fetch after; `RefusedForGood` - what a call refused, no
  later call passes, through outages and a restart; `EveryoneAnswered`. Two
  outages surround a recovery; the restart falls into either.
- **policy**: `EvaluateCorrect` - stated without the walk: it lets nobody through whom
  the first rule that holds does not, and refuses nobody whom that rule lets through
  unless some rule denies on conditions that fail; `AllowedHoldsScopes`, `ScopesAskedAreDemanded`,
  `GlobalLimitKept` - the decision asks for the scopes and the limit of the rules
  that count and no other; `GrantedAsAdvised`, `GuardsAgree` - on policies of the
  deployed shape, in one time zone, what `ext_authz` allows the backend calls
  allowed, and a guard on the one rule that applies agrees with `ext_authz`, each
  side evaluating the constraint by its own engine. Three rules are a failed
  one, a deciding one and one that must not matter; length is unbounded in the
  proof. The constraints are those of the deployed policy in small (a role, the
  weekend, working hours, an e-mail address) and combinations of `any`, `not`
  and missing claims; the requests lie on both sides of each of them, and of
  midnight in either zone. Of whole calls: `BindingProved` - a bound token
  goes through only where its binding points: the certificate of the connection, a
  fresh proof of its key for this method, URL and token, or a signature of its key over
  lines that are here as they were signed; `OwnerAdmitted` - the other way round,
  whose certificate, proof and signature are in order is refused by the policy, the scopes or
  the rate limit only, however the header is spelled; `SameToken` - the backend acts for
  the token that `Check` verified; `TwinsAgree` - the deployed program and the one
  that is tested refuse alike before the policy; `ToldToLogIn` - who sends no token
  is told to log in where a token might help. The requests are every way to send
  one of ten tokens with every certificate, every proof over every target, key and
  hash, and every signature over every set of lines, with lines that differ or not,
  the copied ones among them; each passes through up to one rule, and the ordinary
  requests through up to two.
- **token_proxy**: `TokenExplained` - a token is bound to the key of a call that ran
  beside the one it answers, or of a PUT left over then, so that a call that runs
  alone gets its own key; `ServedWhenAlone` - a client that is eventually the only
  caller gets a token bound to its key again and again. Three threads let a
  client overtake another twice, or with a second call of its own; two failures
  leave a late PUT and break a later call (`ServedByProxy` is `ServedWhenAlone` in the
  behaviours of the proxy). Of the backend: `AnswersTruthful` - whoever is told the
  account was created created it, and whoever is refused left none behind unless
  the request that creates it was given up; `RolelessExplained` - an account lacks
  its role only by an accident, never by two registrations at once. Three workers
  let two contend for a name while a third finds it taken; two accidents give a
  create that is executed late and a role that is never assigned.
- **redis_replay**: `OncePerStore` - each of the two stores accepts a jti once per
  window unless it evicted it, so a failing Redis costs at most one replay;
  `IndexBounded` - the index outgrows its capacity only by the calls that are on
  their way to cut it and by those that failed or died there; `ReplayNeedsOverflow` -
  Redis accepts a jti again within its window only after it has accepted more jtis
  than the index has room for, counted since its start and not, as `redis_race` shows,
  within the window; `RefusedForCause` - a refused jti was accepted by the store that
  refuses it, or its SET was executed for a call that saw a failure;
  `FallbackIsLedger` - the fallback keeps the promise of a replay cache whatever Redis
  does. One entry for two jtis makes every claim an eviction; two faults give a lost
  SET reply and a failing eviction in one behaviour.

Types are proved for every instance, as theorems or as parts of the inductive
invariants of section 7, so no run repeats them. Deadlock is checked in all of
them: clocks stop at their bound, but calls and restarts go on, and a decided
request of `PolicyEval` stutters (`Terminated`), as does an answered one of
`Admission` (`Answered`).
Goroutines and jtis are symmetric where only safety is checked, except that tokens
bound to a key are permuted apart from those that are not; the runs with
liveness use no symmetry. Bounds on counters (`MaxTime`, `MaxNonces`,
`MaxChanges`, `MaxOutages`, `MaxRestarts`, `MaxFaults`, `MaxAccidents`) are CONSTANTS in the
guards of the actions they limit. `MaxDelay` and `MaxLag` are different: they are
assumptions about the scheduler (how long a goroutine may be held up), and the
properties that depend on them name them.

## 5. Where code and documents differ

Four runs check one sentence of the repository each and TLC refutes it.

- `authz_token_replay` (`TokenAllowedOnce`): the comment at
  `ext_authz/cmd/server/main.go:93` lists replay protection by the token's jti;
  the deployed `Check` never records it (`server.go:154` does). The trace is one
  token sent twice.
- `policy_hours` (`AnnouncedHours`): the dashboard announces environment attributes
  in the time zone Asia/Ho_Chi_Minh (`frontend/src/pages/AbacDashboard.tsx:363`),
  which is how the backend evaluates them. `ext_authz` takes the local time of
  its process: the Kubernetes manifests set `TZ`, the image and docker-compose do
  not, and there it is UTC. A rule on working hours then lets requests through
  at three in the morning. With `TZ` set, the runs of `policy` find the two in
  agreement.
- `policy_deny` (`FailedRulesPassedOver`): the comment at `policy.go:235` says that a
  rule that matches but fails its conditions is passed over. `Evaluate` ends the walk
  at one whose action is `deny` (line 255) and refuses for its conditions. In the
  trace a denying rule that does not hold comes before a rule that holds and
  allows. The deployed policy has no denying rule.
- `redis_race` (`ReplayRejected`): `Zero_Trust_API_Gateway_Project.md:334` says the
  same JWT is rejected on replay. The index keeps the entry of an expired key;
  when its jti is claimed again, a concurrent call can take the old entry for
  the oldest and delete the new key. Redis never failed and the live jtis fit.
  `OncePerStore` says what remains true.

Two differences that were seen and are not claims of a document: `evaluate`
answers with the default action when every matching rule fails, where
`ext_authz` refuses by the recorded failure, and takes required scopes for a
condition (`GrantedAsAdvised` is the direction that holds); and a `Lookup` of an
unknown kid whose own refresh fetched the key can find it gone, when an older
answer is installed over it. The next `Lookup` succeeds.

## 6. Fairness

- `JWKSCache!FairSpec`: weak fairness of the clock, of the IdP's recovery (an
  outage ends), of `Answer` (the HTTP client has a timeout), of the installation
  of an answer, of the loop's timer and of its wake-up (goroutines run, timers
  fire), and of a `Lookup` looking again. None of rotations, failures or new
  lookups. `Tick` waits for steps that take no time and for refreshes that are at
  their timeout, so time never overtakes a deadline.
- `CRLChecker!FairSpec`: weak fairness of each step of a call, and *strong*
  fairness of `Lock`: others can take and release the mutex over and over while
  a call waits. Go's `sync.Mutex` justifies it: a waiter of more than a
  millisecond puts the mutex into starvation mode and is handed it next. With weak fairness
  alone `EveryoneAnswered` would not follow.

- `TokenProxy!FairSpec`: weak fairness of each call (threads run, and every request
  has a timeout) and of `LatePut`; strong fairness of a client asking again with
  a good proof, since Flask gives each call a thread and the model only three.
  Nothing makes two clients that retry at once come to an end, and no property
  says so.

`MCJWKSCache` and `MCTokenProxy` assume the fairness of `JWKSCache` and `TokenProxy` in
the behaviours of these programs alone. The other modules state safety only: the
backend's caches wait for a request, and nothing makes a user register. A blocked Redis command is bounded by the
connection's deadline and becomes a failed one, so no progress is claimed there.

## 7. What is proved

TLAPS checks the eight proof modules completely; the theorems hold for every
value of the constants that satisfies the named assumptions.

**ReplayCacheProofs.** `WindowHolds` (`Spec => ReplayWindow`) and
`RejectionBounded` (`Spec => BoundedRejection`), for any goroutines and jtis, any
positive `TTL` and capacity. Neither is inductive by itself: a jti is refused
because it is in `items`, and whether it is depends on purges made by others
with older and newer times. `IInv` adds that the store holds only stamps of
acceptances (`StoreIsHistory`), that no stamp lies in the future
(`TimesPassed`), that a jti neither evicted nor lost is present under its stamp
or its window has passed (`Remembered`), and that an entry left by a purge was
accepted no earlier than a window before it (`PurgedUpTo`). The first result
follows from `Remembered`, the second from `PurgedUpTo` and the fact that a purge
is due after `TTL`. `CacheIsLedger` (`Spec => ImplementsLedger`) is the refinement:
every `Accept` is a `Grant` and every `Reject` a `Refuse` whose kept entries are those the
purge left (`PurgeKeeps`); that a purge keeps every live entry follows from
`TimesPassed`, since a caller's time is never ahead of the clock. `EvictionsNeedFlood`
(`Spec => []EvictionNeedsFlood`) counts: when the store is full, every entry it keeps was
accepted no earlier than the time under which the victim is entered (`VictimIsOldest`),
and later acceptances only add to them.

**AuthzCheckProofs.** `TypeCorrect`, and first `ProofsUsedOnce`
(`Spec => ProofUsedOnce`) under `ProofTTLAssumption`: `ProofTTL >= MaxAge + Skew +
MaxDelay`. With the defaults this is 5 minutes against 2 minutes, 2 seconds and
whatever a call takes. `MarkingIsTimely` says a call about to record a proof
found it fresh at most `MaxDelay` ago; `SpentRemembered` says a spent proof is
in the cache, with a time no older than `iat - Skew`, until nobody can be about
to record it any more. A purge then cannot remove it too early, which is the
one thing that could go wrong.

Of the nonces, `NonceUsesAreBounded` and `UsedNoncesAreRetired`, for any finite number of
goroutines. Each use of a nonce is charged to a goroutine: those that validated under it
and those that still hold it to do so (`Pending`) are together no more than there are
(`UsesShared`), because a nonce that is replaced is never handed out again
(`NoncesNumbered`); and the uses of the current nonce are no more than the goroutines
about to rotate it (`CurrentUnrotated`), which gives the second result at once.

Of the tokens, `TokensSpentByAllow`, and `TokensAllowedOnce`, which has two hypotheses:
`MarksTokens` (`server.go`; the deployed program violates the property, section 5) and
`MaxTime <= TokenTTL`, which says that the history is one window long, since the property
is about one window. `AllowedRecorded` keeps an allowed token in the cache unless it was evicted;
`AllowedByOne` that two calls with one token are never both about to allow it.

`ProofCacheIsLedger` and `TokenCacheIsLedger` (under `MarksTokens`): both caches
implement `OneTimeLedger` inside the pipeline, as the cache of `ReplayCache` does by
itself. A call marks under a time that has come (`MarkingIsTimely`, `TokensPresent`), and
what neither marks nor restarts leaves the caches alone (`CachesLeftAlone`). That the
pipeline may be read with the ledger in place of the caches rests on these two. They
are stated in the proof module; no run carries them.

**PolicyProofs**, about the four modules from `PolicyEval` to `Admission`.

*The walk.* `EvaluatesCorrectly`, `AllowedHasScopes`, `RefusedLacksScopes` and
`GlobalLimitHolds`: the four properties of the walk, for policies of any length over
any rules, scopes and limits. The invariant `IInv` says what the walk knows: before
rule `i` nothing ended it (`Walked`), the fallback is recorded just when something
matched, the decision is the global rule's alone, and afterwards that it is the first
deciding rule's (`Decided`). `MeaningFixed` (the meaning of a policy depends on the
policy alone) and `WalkedFirst` carry the steps. Where the walk stops (`WalkPermits`,
from `Deciding`) and what the policy means (`Permits`, from `Holding`) are compared
afterwards: the rule that lets through holds and is the first that does (`FirstHolds`),
and where every rule that denies holds the two are the same (`WalkMeans`).

*The conditions.* `GrantsAreAdvised` and `GuardsDecideAlike`, for policies of the
deployed shape over conditions of any depth. Both rest on `VerdictsAgree`: a portable
condition holds of a plain request in both programs or in neither, in one time zone.
That is an induction over conditions, and the library's induction theorems cannot be
used here; but finite sets are well-founded, which gives `LeastExists` (a set of numbers
has a least element), hence `ShallowestExists`: if the two programs disagreed about some
portable condition, they would about one on whose parts they agree. That a recursive
function on conditions exists at all, which is what lets its definition be unfolded,
is proved the same way: `Settles` says that a set is what holds of all conditions less
deep than n, two such sets are alike (`SettledAlike`), there is one for every n
(`SettledTo`), and the function reads them off (`Founded`, `Recursion`). `HoldsUnfolds`,
`BackendHoldsUnfolds`, `PortableUnfolds` and `LacksUnfolds` are the unfoldings.
`LeavesAgree` compares the engines on a leaf, fact by fact (`ResolvedAlike`) and
operator by operator (`ComparedAlike`). `RulesAgree` then takes a rule of the deployed
shape, whose match and scopes both programs read alike.

*The whole call.* `BindingIsProved`, `OwnersAreAdmitted`, `TokensAreTheSame`,
`TwinsGiveOneVerdict` and `StrangersAreToldToLogIn`, for any certificates, keys, tokens, requests and policies.
None is inductive: an answer is given long after the check that matters for it. `CheckInv`
keeps the checks together. `LeftInv` says that the verdict of the tests of the whole call is
that of the tests still ahead at this stage, so that nothing before it refused;
`VerifiedInv` that past the token what was verified is what the request presents;
`AnswerInv` what the status says of how the walk ended. Every list of tests is read
through two lemmas: the first that fails gives the status (`RefusalIs`), and of two
lists the second is read when the first refuses nothing (`RefusalAppend`).
`BindingIsProved` reads off the tests that passed (`AllPassed`) what they say of the
certificate, the proof and the signature; of requests it assumes their shape alone
(`WireAssumption`). `OwnersAreAdmitted` shows that no test fails of a request that is in order, with the raw
access token or without (`InOrderPasses`), hence that an answer that did not come from
the policy was not given. `TwinsGiveOneVerdict` compares the list of each program
(`ServerAsks`);
`StrangersAreToldToLogIn` needs the walk as well, and that a constraint that asks for
a claim first fails for want of it (`AskedIsLacked`). `CheckInvariance` also states that
a call of `Check` implements `AdviceSpec`: its stages before the policy leave the walk
alone and the rest are steps of it, so what is proved of the walk and of the
conditions holds inside `Check` too. `NoneAssumption` says that the value that stands
for what a request lacks is no certificate, token, scheme or status.

**KeycloakProofs.** Of the proxy: `TokensExplained` (`Spec => TokenExplained`) and its
`TypeCorrect`, for any number of threads, clients and failures. `AllMet` says that a
call has met every call and every leftover PUT beside it, hence everyone who can
still write the mapper; `MapperMet` that once its own PUT is done the mapper
holds the key of one of them. The initial value of the mapper and keys of calls
that ended before are gone by then, which is what the order of PUT and token
request is for. Of the backend: `AnswersAreTrue` and `RolelessByAccident`, for any number
of workers, users and accidents. `MadeInOrder` says that where a registration is tells
whether it has made its account; `DelayedHurts` that an account created late belongs
to a user whose registration met with an accident, which is what keeps
`RolelessExplained` true when the request is executed after everyone has left.

**KeyReadersProofs.** `StaleKeysDropped`, `SettledKeysKept` and `SettledKeysFound` for
`ext_authz`, `RetiredKeysRefused` and `SettledKeysAccepted` for the backend: the five
safety properties of the two readers of keys, for any keys, lifetimes, timeouts
and number of lookups. One notion carries both: a set of keys is `OldAtMost` n if
what it lacks or has too much changed at most n ticks ago. A rotation keeps that
(`RotateAges`), a tick adds one (`AgeAges`), and an answer of the IdP starts at 0. In
`CacheInv` an answer is as old as its refresh has run (`AnswersRecent`), which gives
the two properties of settled keys; for `StaleKeysDropped` the invariant counts
backwards: `UntilRefreshed` is how long it is until the loop has replaced the keys,
and a withdrawn key is no older than `Staleness` less that time (`KeysRecent`),
which an older answer installed over a newer one does not break. `LongestSleep` is
chosen from a finite set; that it exists is `LargestExists`. In `BackendInv` the
cached set is as old as its age, the set that decides at most `Window`, and the key
that passed `Window` and the time its issuer has been waited for. `CacheTypeCorrect` and
`ValidatorTypeCorrect` give the types of both readers. The second is not inductive by
itself: that `fetch_jwks` has taken no longer than its two GETs depends on which of them is
under way (`HeldBounded`).

**CRLCheckerProofs.** `RefusalsLast` (`Spec => RefusedForGood`) and
`RevocationsTakeEffect` (`Spec => RevocationEffective`), for any calls, serials,
lifetimes and timeouts. Lists only grow, but the caches and the answers in
flight hold older ones, so the invariant orders the lists that exist at one
time (`Chain`): what a call compares with, the cached one, the one just fetched,
what the CA serves. A serial that was refused is in all of them from the cached
one on; the mutex that is held over the fetch (`Exclusive`) is what puts a fetched
list after the cached one. `Recent` dates them: what a list lacks was revoked after
it was served, hence no longer ago than its life so far and one fetch, unless the
distribution point was down. `MutexIsReleased` is the other half of `Exclusive`: who
holds the mutex is in `getCRL`, so every way out of it unlocks. With fairness this is
what makes `EveryoneAnswered` true, and it holds for any number of calls.

**RateLimiterProofs.** `BurstsBounded` and `RefusalsJustified`, for any calls, keys,
quotas and windows with `MaxLag < Window`. The requests of a key are numbered in
the order of the mutex; the last `count` of them belong to the bucket. `Follows`
is the heart of the invariant: whatever was allowed before the bucket was allowed
less than `MaxLag` after it starts, and whatever is a whole quota before that, one
window earlier. A span of `Window - MaxLag` that reaches into the bucket therefore
holds at most what the bucket counts and one quota (`Bounded`). A refusal is justified by
the bucket alone, which is full and has not started a window before the time the
refused call read.

**RedisReplayProofs.** `AcceptedOncePerStore` (`Spec => OncePerStore`), `IndexStaysBounded`
(`Spec => []IndexBounded`), `RefusalsHaveCause`, `ReplaysNeedOverflow` and
`FallbackKeepsLedger`, for any jtis, faults and restarts; the second for any finite
number of goroutines. The first rests on `Held`: a jti that a store
accepted within the window and did not give up is in it, in Redis with what is
left of the window as the life of its key. The second is the hard one: each call
evicts the excess that it counted, but calls that count the same excess evict the
same victims, so no call's own eviction bounds the index. The invariant
speaks of groups instead (`EvictionsSuffice`): of any goroutines that are evicting, one
will have left no more than the capacity, an entry for each failure, and one for each
goroutine outside the group that is past its ZADD. The group of all who evict gives
the bound, and an added entry, a count, a removal and a failure each change a group
by one member whose part is paid by the others. `RefusalsHaveCause` is the converse of the
first: a key that lives in Redis was set by a claim within the window, or by a SET
whose reply was lost (`Owed`). For `ReplaysNeedOverflow` the
invariant is a set, `Ever`, of the jtis Redis has accepted: the index is part of it,
and so is what calls are about to add, and it outnumbers `MaxEntries` from the moment
some call has counted an excess, hence before anything is evicted (`Overflow`). That a
replay then needs an eviction is `OncePerStore`. `FallbackKeepsLedger`
(`Spec => FallbackIsLedger`) is a refinement like `CacheIsLedger`, with more steps
that stutter: every step of Redis leaves the fallback alone, `Keep` is a `Grant` and `RefuseKept` a `Refuse`, and the time a call brings from
before its commands is not ahead of the clock.

What is model-checked only, and why:

- Liveness (`Converges`, `EveryoneAnswered`, `ServedWhenAlone`): the prover treats neither
  fairness nor ENABLED. `MutexIsReleased` is what can be proved of the second.

Every safety property of a run that passes is the statement of a theorem.

## 8. What is not modelled, and the order of the work ahead

Not modelled, for good: HTTP, gRPC, YAML, PEM, JSON and Redis wire formats;
cryptography (a signature is right or wrong); regular expressions in conditions;
Envoy itself; the frontend, whose
sessions have no protocol of their own; scripts that an operator runs once;
the legacy echo services; manifests and benchmarks.

Of whole calls, three things are left out: a request whose host is empty, for which
the URL of a proof cannot be told (401, `main.go:267`); the environment, which the two
programs parse each in its own way; and the backend of the proof cache. `TwinsAgree`
compares the two programs on the same settings.

Partly modelled: of `policy.go`, loading and validating a file are left out; of the
backend's guard, regular expressions; of `jwt.go`, `mtls.go` and `hok.go`, parsing,
which is reduced to whether it succeeds; of the login routes, everything but
registration, since login passes on what Keycloak answers and logout clears a
session; of the API, all handlers, which keep nothing.

Next, in this order:

1. *Clients*: one that retries when Envoy gave up on a `Check` that went on, and, should
   a deployment turn nonces on, one that learns them through its upstream.
2. *The backend's policy file*, read once, against a restart of `ext_authz` alone
   with a new one.
