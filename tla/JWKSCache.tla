----------------------------- MODULE JWKSCache -----------------------------
(***************************************************************************)
(* JWKSCache (internal/auth/jwks.go): the verification keys of the IdP,    *)
(* refreshed by a loop and by every Lookup of an unknown kid, with nothing *)
(* that keeps two refreshes from overlapping.  A refresh is three steps:   *)
(* the request leaves, the IdP answers it, the answer is installed; the    *)
(* answers of overlapping refreshes are installed in any order.  Time is   *)
(* counted in ticks and every deadline is the number of ticks that remain. *)
(***************************************************************************)
EXTENDS KeyServer

CONSTANTS
    Threads,        \* goroutines that serve Check
    Loop,           \* the goroutine of refreshLoop
    TTLs,           \* lifetimes a response may be given (max-age, or fallbackTTL)
    MinTTL,         \* minimumJWKSTTL
    MaxFetch        \* longest refresh (defaultJWKSHTTPTimeout)

ASSUME LoopAssumption == Loop \notin Threads
ASSUME TimeAssumption ==
    /\ TTLs \subseteq Nat \ {0} /\ TTLs # {} /\ IsFiniteSet(TTLs)
    /\ MinTTL \in Nat \ {0} /\ MaxFetch \in Nat

Bigger(a, b) == IF a > b THEN a ELSE b

\* The longest sleep of the loop, and how old a key may get from then on: the
\* refresh that replaces it and the one that installed it may both be slow.
LongestSleep == CHOOSE s \in TTLs \cup {MinTTL} : \A u \in TTLs \cup {MinTTL} : u <= s
Staleness == LongestSleep + 2 * MaxFetch

ASSUME HorizonAssumption == Horizon > Staleness

Clients == Threads \cup {Loop}
Unset == -1             \* the zero time.Time
NoKid == "none"

\* Where a client is: a Lookup misses, asks, is answered, and looks again; the
\* loop asks, is answered, sets its timer, and sleeps.
Stages == {"idle", "asked", "answered", "again", "timer", "asleep"}

VARIABLES
    keys,       \* keysByKID
    failed,     \* lastErr # nil
    next,       \* ticks until nextRefreshAt, or Unset
    client,     \* client[c]: where c is, the kid it looks up, the answer it got
    left        \* left[c]: ticks left of c's refresh, or of the loop's sleep

cache == <<keys, failed, next>>
reader == <<cache, client, left>>
vars == <<idp, reader>>

TypeOK ==
    /\ KeyServerTypeOK
    /\ keys \subseteq Kids /\ failed \in BOOLEAN
    /\ next \in 0..LongestSleep \cup {Unset}
    /\ client \in [Clients -> [at : Stages, kid : Kids \cup {NoKid}, answer : SUBSET Kids]]
    /\ left \in [Clients -> 0..Bigger(LongestSleep, MaxFetch)]

ReaderInit ==
    /\ keys = {} /\ failed = FALSE /\ next = Unset
    /\ client = [c \in Clients |-> [at |-> IF c = Loop THEN "asked" ELSE "idle",
                                    kid |-> NoKid, answer |-> {}]]
    /\ left = [c \in Clients |-> IF c = Loop THEN MaxFetch ELSE 0]

Init == KeyServerInit /\ ReaderInit

At(c, stage) == client[c].at = stage
Goto(c, stage) == client' = [client EXCEPT ![c].at = stage]

KeyServerStep == (Rotate \/ Fail \/ Recover) /\ UNCHANGED reader

\* A refresh ends within MaxFetch, and a step that waits for nothing is taken
\* before time passes.
Tick ==
    /\ \A c \in Clients :
        /\ client[c].at \in {"asked", "answered", "asleep"} => left[c] > 0
        /\ client[c].at \notin {"again", "timer"}
    /\ Age
    /\ left' = [c \in Clients |-> IF left[c] > 0 THEN left[c] - 1 ELSE 0]
    /\ next' = IF next > 0 THEN next - 1 ELSE next
    /\ UNCHANGED <<keys, failed, client>>

-----------------------------------------------------------------------------
(* refreshOnce.                                                            *)

\* The endpoint is known or discovered, and the IdP answers or fails to; no
\* answer, and one without a usable key (parseJWKS), is the empty one.
Answer(c) ==
    /\ At(c, "asked")
    /\ client' = [client EXCEPT ![c].at = "answered",
                                ![c].answer = IF up THEN published ELSE {}]
    /\ UNCHANGED <<idp, cache, left>>

AfterRefresh(c) == Goto(c, IF c = Loop THEN "timer" ELSE "again")

\* Mutant of Install: an answer is merged with the keys that are there.
InstallMerged(c) ==
    /\ At(c, "answered") /\ client[c].answer # {}
    /\ keys' = keys \cup client[c].answer
    /\ failed' = FALSE
    /\ next' \in TTLs
    /\ AfterRefresh(c)
    /\ UNCHANGED <<idp, left>>

\* Mutant of Install: the loop only drops the keys that were withdrawn.
InstallPruning(c) ==
    /\ At(c, "answered") /\ client[c].answer # {}
    /\ keys' = IF c = Loop THEN keys \cap client[c].answer ELSE client[c].answer
    /\ failed' = FALSE
    /\ next' \in TTLs
    /\ AfterRefresh(c)
    /\ UNCHANGED <<idp, left>>

Install(c) ==
    /\ At(c, "answered") /\ client[c].answer # {}
    /\ keys' = client[c].answer
    /\ failed' = FALSE
    /\ next' \in TTLs
    /\ AfterRefresh(c)
    /\ UNCHANGED <<idp, left>>

\* Mutant of SetError: a failed refresh empties the cache.
SetErrorDropping(c) ==
    /\ At(c, "answered") /\ client[c].answer = {}
    /\ keys' = {}
    /\ failed' = TRUE
    /\ next' = IF next = Unset THEN MinTTL ELSE next
    /\ AfterRefresh(c)
    /\ UNCHANGED <<idp, left>>

\* setError keeps the keys, and the time of the next refresh if there is one.
SetError(c) ==
    /\ At(c, "answered") /\ client[c].answer = {}
    /\ failed' = TRUE
    /\ next' = IF next = Unset THEN MinTTL ELSE next
    /\ AfterRefresh(c)
    /\ UNCHANGED <<idp, keys, left>>

-----------------------------------------------------------------------------
(* refreshLoop.                                                            *)

\* timeUntilRefresh
SetTimer ==
    /\ At(Loop, "timer")
    /\ left' = [left EXCEPT ![Loop] = Bigger(next, MinTTL)]
    /\ Goto(Loop, "asleep")
    /\ UNCHANGED <<idp, cache>>

Wake ==
    /\ At(Loop, "asleep") /\ left[Loop] = 0
    /\ left' = [left EXCEPT ![Loop] = MaxFetch]
    /\ Goto(Loop, "asked")
    /\ UNCHANGED <<idp, cache>>

-----------------------------------------------------------------------------
(* Lookup.  A kid that is in the cache is answered at once.                *)

Miss(t, k) ==
    /\ At(t, "idle")
    /\ k \notin keys
    /\ client' = [client EXCEPT ![t].at = "asked", ![t].kid = k]
    /\ left' = [left EXCEPT ![t] = MaxFetch]
    /\ UNCHANGED <<idp, cache>>

Return(t) ==
    /\ client' = [client EXCEPT ![t] = [at |-> "idle", kid |-> NoKid, answer |-> {}]]
    /\ left' = [left EXCEPT ![t] = 0]
    /\ UNCHANGED <<idp, cache>>

Found(t) ==
    /\ At(t, "again") /\ client[t].kid \in keys
    /\ Return(t)

\* Mutant of NotFound: the error is looked at before the key.
NotFoundOnError(t) ==
    /\ At(t, "again") /\ (failed \/ client[t].kid \notin keys)
    /\ Return(t)

NotFound(t) ==
    /\ At(t, "again") /\ client[t].kid \notin keys
    /\ Return(t)

Next ==
    \/ KeyServerStep \/ Tick
    \/ \E c \in Clients : Answer(c) \/ Install(c) \/ SetError(c)
    \/ SetTimer \/ Wake
    \/ \E t \in Threads, k \in Kids : Miss(t, k)
    \/ \E t \in Threads : Found(t) \/ NotFound(t)

Spec == Init /\ [][Next]_vars

\* Time passes, goroutines run, requests end (the HTTP client has a timeout),
\* and the IdP comes back.
Fairness ==
    /\ WF_vars(Tick) /\ WF_vars(Recover /\ UNCHANGED reader)
    /\ \A c \in Clients : WF_vars(Answer(c)) /\ WF_vars(Install(c) \/ SetError(c))
    /\ WF_vars(SetTimer) /\ WF_vars(Wake)
    /\ \A t \in Threads : WF_vars(Found(t) \/ NotFound(t))

FairSpec == Spec /\ Fairness

-----------------------------------------------------------------------------
\* A withdrawn key is not trusted for longer than the loop's longest sleep and
\* two refreshes while the IdP answers, even when the answer of an older
\* refresh replaces a newer one (refreshOnce, timeUntilRefresh).
StalenessBounded ==
    \A k \in keys \ published : since[k] <= Staleness \/ upFor <= Staleness

\* A cached key is lost only if the IdP published or withdrew it within the
\* time of one refresh: never by an outage, an unusable answer or the refresh
\* of another kid (setError, parseJWKS).
SettledKeyKept ==
    [][\A k \in keys \ keys' : k \notin published \/ since[k] <= MaxFetch]_vars

\* A Lookup whose refresh succeeded does not refuse a kid that has been
\* published for longer than a refresh takes (Lookup).
SettledKeyFound ==
    [][\A t \in Threads :
          LET k == client[t].kid
          IN  NotFound(t) /\ client[t].answer # {}
                => k \notin published \/ since[k] <= MaxFetch]_vars

\* Once the IdP keeps its keys and stays up, the cache converges to them, and
\* no answer that is still on its way brings the old ones back for good.
Converges == <>[](keys = published)
=============================================================================
