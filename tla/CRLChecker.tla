----------------------------- MODULE CRLChecker -----------------------------
(***************************************************************************)
(* CRLChecker (internal/auth/crl.go): the revocation list of the client    *)
(* CA, cached for TTL.  getCRL holds the mutex while it fetches, so one    *)
(* slow fetch makes every Check with a certificate wait.  The CA only adds *)
(* serials to its list; it fails now and then.  Serials are those of       *)
(* presented certificates: a request without one skips the check.          *)
(***************************************************************************)
EXTENDS Integers, FiniteSets

CONSTANTS
    Threads,        \* goroutines that serve Check
    Serials,        \* serial numbers of client certificates
    TTL,            \* CRL_REFRESH_INTERVAL
    MaxFetch,       \* longest fetch (the HTTP client's timeout)
    NoThread,       \* nobody holds the mutex
    NoSerial,
    MaxOutages,     \* bound on the CA's outages
    MaxRestarts     \* bound on restarts

ASSUME NoneAssumption == NoThread \notin Threads /\ NoSerial \notin Serials
ASSUME TimeAssumption ==
    TTL \in Nat \ {0} /\ MaxFetch \in Nat /\ MaxOutages \in Nat /\ MaxRestarts \in Nat

VARIABLES
    revoked,    \* what the CA's distribution point serves
    up,         \* the distribution point answers
    outages, restarts,
    cachedCRL,
    fresh,      \* ticks for which cachedCRL still counts as fresh
    mu,         \* who holds the mutex
    call,       \* call[t]: where t is in IsRevoked, for which serial, with which
                \* list, and (history) whether the serial was refused before
    left,       \* ticks left of the fetch of the mutex's holder
    refused,    \* history: serials some call found revoked
    since,      \* history: since[s]: ticks since s was revoked
    upFor       \* history: ticks since the distribution point last failed to answer

ca == <<revoked, up, outages>>
cache == <<cachedCRL, fresh>>
history == <<refused, since, upFor>>
vars == <<ca, restarts, cache, mu, call, left, history>>

Stages == {"idle", "wait", "look", "fetch", "fetched", "compare"}
NoCRL == {NoSerial}                 \* no list: nil, or an error
Lists == (SUBSET Serials) \cup {NoCRL}
Idle == [at |-> "idle", serial |-> NoSerial, crl |-> NoCRL, known |-> FALSE]
Ages == 0..(TTL + MaxFetch + 1)     \* ages beyond the bound are not told apart

TypeOK ==
    /\ revoked \subseteq Serials /\ up \in BOOLEAN
    /\ outages \in 0..MaxOutages /\ restarts \in 0..MaxRestarts
    /\ cachedCRL \in Lists /\ fresh \in 0..TTL
    /\ mu \in Threads \cup {NoThread}
    /\ call \in [Threads -> [at : Stages, serial : Serials \cup {NoSerial},
                            crl : Lists, known : BOOLEAN]]
    /\ left \in 0..MaxFetch
    /\ refused \subseteq Serials
    /\ since \in [Serials -> Ages] /\ upFor \in Ages

Init ==
    /\ revoked = {} /\ up = TRUE /\ outages = 0 /\ restarts = 0
    /\ cachedCRL = NoCRL /\ fresh = 0
    /\ mu = NoThread
    /\ call = [t \in Threads |-> Idle]
    /\ left = 0
    /\ refused = {} /\ since = [s \in Serials |-> 0] /\ upFor = TTL + MaxFetch + 1

At(t, stage) == call[t].at = stage
Goto(t, stage) == call' = [call EXCEPT ![t].at = stage]

-----------------------------------------------------------------------------
(* The CA and the clock.                                                   *)

Revoke(s) ==
    /\ s \notin revoked
    /\ revoked' = revoked \cup {s}
    /\ since' = [since EXCEPT ![s] = 0]
    /\ UNCHANGED <<up, outages, restarts, cache, mu, call, left, refused, upFor>>

Fail ==
    /\ up /\ outages < MaxOutages
    /\ up' = FALSE /\ outages' = outages + 1 /\ upFor' = 0
    /\ UNCHANGED <<revoked, restarts, cache, mu, call, left, refused, since>>

Recover ==
    /\ ~up /\ up' = TRUE
    /\ UNCHANGED <<revoked, outages, restarts, cache, mu, call, left, history>>

\* Only a fetch and the wait for the mutex take time.
Tick ==
    /\ \A t \in Threads :
        \/ At(t, "idle")
        \/ At(t, "wait") /\ mu # NoThread
        \/ call[t].at \in {"fetch", "fetched"} /\ left > 0
    /\ left' = IF left > 0 THEN left - 1 ELSE 0
    /\ fresh' = IF fresh > 0 THEN fresh - 1 ELSE 0
    /\ since' = [s \in Serials |-> IF s \in revoked /\ since[s] <= TTL + MaxFetch
                                     THEN since[s] + 1 ELSE since[s]]
    /\ upFor' = IF ~up THEN 0 ELSE IF upFor <= TTL + MaxFetch THEN upFor + 1 ELSE upFor
    /\ UNCHANGED <<ca, restarts, cachedCRL, mu, call, refused>>

-----------------------------------------------------------------------------
(* IsRevoked.                                                              *)

Call(t, s) ==
    /\ At(t, "idle")
    /\ call' = [call EXCEPT ![t] = [at |-> "wait", serial |-> s, crl |-> NoCRL,
                                      known |-> s \in refused]]
    /\ UNCHANGED <<ca, restarts, cache, mu, left, history>>

Lock(t) ==
    /\ At(t, "wait") /\ mu = NoThread
    /\ mu' = t
    /\ Goto(t, "look")
    /\ UNCHANGED <<ca, restarts, cache, left, history>>

\* getCRL: a list younger than TTL is used as it is.
UseCached(t) ==
    /\ At(t, "look")
    /\ cachedCRL # NoCRL /\ fresh > 0
    /\ call' = [call EXCEPT ![t].at = "compare", ![t].crl = cachedCRL]
    /\ mu' = NoThread
    /\ UNCHANGED <<ca, restarts, cache, left, history>>

StartFetch(t) ==
    /\ At(t, "look")
    /\ cachedCRL = NoCRL \/ fresh = 0
    /\ Goto(t, "fetch")
    /\ left' = MaxFetch
    /\ UNCHANGED <<ca, restarts, cache, mu, history>>

\* fetchCRL: the distribution point serves its list, or the fetch fails.
Serve(t) ==
    /\ At(t, "fetch")
    /\ call' = [call EXCEPT ![t].at = "fetched", ![t].crl = IF up THEN revoked ELSE NoCRL]
    /\ UNCHANGED <<ca, restarts, cache, mu, left, history>>

Keep(t) ==
    /\ At(t, "fetched") /\ call[t].crl # NoCRL
    /\ cachedCRL' = call[t].crl
    /\ fresh' = TTL
    /\ left' = 0
    /\ mu' = NoThread
    /\ Goto(t, "compare")
    /\ UNCHANGED <<ca, restarts, history>>

\* Mutant of FetchFailed: a failed fetch renews the old list.
FetchFailedRenewing(t) ==
    /\ At(t, "fetched") /\ call[t].crl = NoCRL
    /\ call' = [call EXCEPT ![t].at = "compare", ![t].crl = cachedCRL]
    /\ fresh' = IF cachedCRL = NoCRL THEN 0 ELSE TTL
    /\ left' = 0
    /\ mu' = NoThread
    /\ UNCHANGED <<ca, restarts, cachedCRL, history>>

\* Mutant of FetchFailed: no list at all counts as an empty one.
FetchFailedOpen(t) ==
    /\ At(t, "fetched") /\ call[t].crl = NoCRL
    /\ call' = [call EXCEPT ![t].at = "compare",
                            ![t].crl = IF cachedCRL = NoCRL THEN {} ELSE cachedCRL]
    /\ left' = 0
    /\ mu' = NoThread
    /\ UNCHANGED <<ca, restarts, cache, history>>

\* Mutant of FetchFailed: the mutex stays locked when there is no list at all.
FetchFailedLocked(t) ==
    /\ At(t, "fetched") /\ call[t].crl = NoCRL
    /\ call' = [call EXCEPT ![t].at = "compare", ![t].crl = cachedCRL]
    /\ left' = 0
    /\ mu' = IF cachedCRL = NoCRL THEN mu ELSE NoThread
    /\ UNCHANGED <<ca, restarts, cache, history>>

\* A failed fetch falls back on the old list, which stays stale, or on none.
FetchFailed(t) ==
    /\ At(t, "fetched") /\ call[t].crl = NoCRL
    /\ call' = [call EXCEPT ![t].at = "compare", ![t].crl = cachedCRL]
    /\ left' = 0
    /\ mu' = NoThread
    /\ UNCHANGED <<ca, restarts, cache, history>>

Return(t) == call' = [call EXCEPT ![t] = Idle]

Refuse(t) ==
    /\ At(t, "compare") /\ call[t].crl # NoCRL /\ call[t].serial \in call[t].crl
    /\ refused' = refused \cup {call[t].serial}
    /\ Return(t)
    /\ UNCHANGED <<ca, restarts, cache, mu, left, since, upFor>>

Clear(t) ==
    /\ At(t, "compare") /\ call[t].crl # NoCRL /\ call[t].serial \notin call[t].crl
    /\ Return(t)
    /\ UNCHANGED <<ca, restarts, cache, mu, left, history>>

\* Without a list the request is refused (Check answers 500).
Error(t) ==
    /\ At(t, "compare") /\ call[t].crl = NoCRL
    /\ Return(t)
    /\ UNCHANGED <<ca, restarts, cache, mu, left, history>>

\* The process dies and is started again: NewCRLChecker.
Restart ==
    /\ restarts < MaxRestarts
    /\ restarts' = restarts + 1
    /\ cachedCRL' = NoCRL /\ fresh' = 0 /\ mu' = NoThread /\ left' = 0
    /\ call' = [t \in Threads |-> Idle]
    /\ UNCHANGED <<ca, history>>

Answer(t) == Refuse(t) \/ Clear(t) \/ Error(t)
Fetched(t) == Keep(t) \/ FetchFailed(t)

Next ==
    \/ \E s \in Serials : Revoke(s)
    \/ Fail \/ Recover \/ Tick \/ Restart
    \/ \E t \in Threads, s \in Serials : Call(t, s)
    \/ \E t \in Threads :
        \/ Lock(t) \/ UseCached(t) \/ StartFetch(t) \/ Serve(t)
        \/ Keep(t) \/ FetchFailed(t)
        \/ Refuse(t) \/ Clear(t) \/ Error(t)

Spec == Init /\ [][Next]_vars

\* Goroutines run, a fetch ends (the HTTP client has a timeout), and the mutex
\* of Go starves nobody: a waiter of one millisecond is next.
Fairness ==
    \A t \in Threads :
        /\ SF_vars(Lock(t))
        /\ WF_vars(UseCached(t) \/ StartFetch(t)) /\ WF_vars(Serve(t))
        /\ WF_vars(Fetched(t)) /\ WF_vars(Answer(t))

FairSpec == Spec /\ Fairness

-----------------------------------------------------------------------------
\* A revoked certificate passes for less than the lifetime of a list and one
\* fetch, or while the distribution point fails and one fetch after that: a
\* failed fetch does not renew the old list (getCRL).
RevocationEffective ==
    [][\A t \in Threads :
          LET s == call[t].serial
          IN  Clear(t) /\ s \in revoked
                => since[s] < TTL + MaxFetch \/ upFor <= MaxFetch]_vars

\* Fetches never overlap and the list only grows, so a certificate that was
\* refused once does not pass in any later call: not through an outage, and not
\* through a restart that loses the list (getCRL under the mutex).
RefusedForGood == [][\A t \in Threads : Clear(t) => ~call[t].known]_vars

\* Who waits for the mutex is answered: a fetch by another call always ends.
EveryoneAnswered == \A t \in Threads : At(t, "wait") ~> At(t, "idle")
=============================================================================
