-------------------------- MODULE CRLCheckerProofs --------------------------
(***************************************************************************)
(* Revocation takes effect and stays in effect, for every number of calls  *)
(* and certificates, every lifetime of a list and every longest fetch.     *)
(* The lists that exist at one time form a chain: those of calls that      *)
(* compare, the cached one, the one just fetched, and what the CA serves.  *)
(* A refused serial is in every list from the cached one on, and a list    *)
(* lacks only serials that were revoked after it was served.               *)
(***************************************************************************)
EXTENDS CRLChecker, TLAPS

\* The stages of a call inside getCRL, under the mutex.
Holding == {"look", "fetch", "fetched"}

\* A list of the CA, as opposed to none.
IsList(list) == list # NoCRL

\* Only the holder of the mutex is in getCRL.
Exclusive == \A t \in Threads : call[t].at \in Holding => mu = t

\* The cached list holds all that was refused, and nothing the CA did not revoke.
CachedInChain ==
    IsList(cachedCRL) => refused \subseteq cachedCRL /\ cachedCRL \subseteq revoked

\* A list just fetched comes after the cached one.
FetchedInChain ==
    \A t \in Threads : At(t, "fetched") /\ IsList(call[t].crl) =>
        /\ refused \subseteq call[t].crl /\ call[t].crl \subseteq revoked
        /\ IsList(cachedCRL) => cachedCRL \subseteq call[t].crl

\* The list a call compares with comes before the cached one.
ComparedInChain ==
    \A t \in Threads : At(t, "compare") /\ IsList(call[t].crl) =>
        IsList(cachedCRL) /\ call[t].crl \subseteq cachedCRL

\* A call whose serial was refused before it began compares with a list that
\* has the serial.
KnownListed ==
    \A t \in Threads : call[t].known =>
        /\ call[t].serial \in refused
        /\ At(t, "compare") /\ IsList(call[t].crl) => call[t].serial \in call[t].crl

Chain ==
    /\ refused \subseteq revoked
    /\ Exclusive /\ CachedInChain /\ FetchedInChain /\ ComparedInChain /\ KnownListed

\* What a fresh cached list lacks was revoked after it was served, which is no
\* longer ago than its lifetime so far and one fetch.
CachedIsRecent ==
    IsList(cachedCRL) /\ fresh > 0 =>
        \A s \in revoked \ cachedCRL : since[s] <= (TTL - fresh) + MaxFetch

\* What a list in flight lacks was revoked within the fetch, and when nothing
\* came back the distribution point failed within the fetch.
FetchedIsRecent ==
    \A t \in Threads : At(t, "fetched") =>
        IF IsList(call[t].crl)
        THEN \A s \in revoked \ call[t].crl : since[s] <= MaxFetch - left
        ELSE upFor <= MaxFetch - left

\* RevocationEffective, of a call that is about to answer.
ComparedIsRecent ==
    \A t \in Threads : At(t, "compare") /\ IsList(call[t].crl) =>
        \/ upFor <= MaxFetch
        \/ \A s \in revoked \ call[t].crl : since[s] < TTL + MaxFetch

Recent ==
    /\ ~up => upFor = 0
    /\ CachedIsRecent /\ FetchedIsRecent /\ ComparedIsRecent

IInv == TypeOK /\ Chain /\ Recent

-----------------------------------------------------------------------------
\* A list is a set of serials.
LEMMA ListIsSet ==
    ASSUME NEW list \in Lists
    PROVE  IsList(list) <=> list \in SUBSET Serials
  BY NoneAssumption DEF Lists, NoCRL, IsList

LEMMA InitIInv == Init => IInv
<1> SUFFICES ASSUME Init PROVE IInv
  OBVIOUS
<1>1. TypeOK
  BY NoneAssumption, TimeAssumption DEF Init, TypeOK, Idle, NoCRL, Lists, Ages, Stages
<1>2. Chain
  BY DEF Init, Chain, Exclusive, CachedInChain, FetchedInChain, ComparedInChain,
         KnownListed, Idle, At, Holding, IsList
<1>3. Recent
  BY DEF Init, Recent, CachedIsRecent, FetchedIsRecent, ComparedIsRecent, Idle, At, IsList
<1> QED
  BY <1>1, <1>2, <1>3 DEF IInv

-----------------------------------------------------------------------------
(* The CA and the clock.                                                   *)

LEMMA RevokeIInv == ASSUME IInv, NEW s \in Serials, Revoke(s) PROVE IInv'
<1>1. TypeOK'
  BY TimeAssumption DEF Revoke, IInv, TypeOK, Ages, cache
<1>2. Chain'
  BY DEF Revoke, IInv, Chain, Exclusive, CachedInChain, FetchedInChain, ComparedInChain,
         KnownListed, At, IsList, cache
<1>3. /\ since'[s] = 0 /\ \A r \in revoked : since'[r] = since[r]
      /\ revoked' = revoked \cup {s} /\ revoked \subseteq Serials
      /\ left \in 0..MaxFetch /\ fresh \in 0..TTL
  BY DEF Revoke, IInv, TypeOK
<1>4. Recent'
  <2>1. (~up => upFor = 0)'
    BY DEF Revoke, IInv, Recent
  <2>2. CachedIsRecent'
    BY <1>3, TimeAssumption DEF Revoke, IInv, Recent, CachedIsRecent, IsList, cache
  <2>3. FetchedIsRecent'
    BY <1>3, TimeAssumption DEF Revoke, IInv, Recent, FetchedIsRecent, At, IsList
  <2>4. ComparedIsRecent'
    BY <1>3, TimeAssumption DEF Revoke, IInv, Recent, ComparedIsRecent, At, IsList
  <2> QED
    BY <2>1, <2>2, <2>3, <2>4 DEF Recent
<1> QED
  BY <1>1, <1>2, <1>4 DEF IInv

\* The distribution point stops or starts to answer.
LEMMA OutageIInv == ASSUME IInv, Fail \/ Recover PROVE IInv'
<1>1. TypeOK'
  <2>1. CASE Fail
    <3>1. outages' \in 0..MaxOutages
      BY <2>1, TimeAssumption DEF Fail, IInv, TypeOK
    <3>2. 0 \in Ages
      BY TimeAssumption DEF Ages
    <3> QED
      BY <2>1, <3>1, <3>2 DEF Fail, IInv, TypeOK, cache
  <2>2. CASE Recover
    BY <2>2 DEF Recover, IInv, TypeOK, cache, history
  <2> QED
    BY <2>1, <2>2
<1>2. Chain'
  BY DEF Fail, Recover, IInv, Chain, Exclusive, CachedInChain, FetchedInChain,
         ComparedInChain, KnownListed, At, IsList, cache, history
<1>3. upFor' <= upFor /\ upFor \in Nat /\ upFor' \in Nat
  BY TimeAssumption DEF Fail, Recover, IInv, TypeOK, Ages, history
<1>4. left \in Nat /\ left <= MaxFetch
  BY TimeAssumption DEF IInv, TypeOK
<1>5. Recent'
  <2>1. (~up => upFor = 0)'
    BY DEF Fail, Recover, IInv, Recent
  <2>2. CachedIsRecent'
    BY DEF Fail, Recover, IInv, Recent, CachedIsRecent, IsList, cache, history
  <2>3. FetchedIsRecent'
    BY <1>3, <1>4, TimeAssumption
       DEF Fail, Recover, IInv, Recent, FetchedIsRecent, At, IsList, history
  <2>4. ComparedIsRecent'
    BY <1>3, TimeAssumption
       DEF Fail, Recover, IInv, Recent, ComparedIsRecent, At, IsList, history
  <2> QED
    BY <2>1, <2>2, <2>3, <2>4 DEF Recent
<1> QED
  BY <1>1, <1>2, <1>5 DEF IInv

\* Time passes only while every call is outside IsRevoked, waits, or fetches.
LEMMA TickIInv == ASSUME IInv, Tick PROVE IInv'
<1>1. /\ \A s \in Serials : since'[s] \in Nat /\ since'[s] <= since[s] + 1
      /\ upFor' \in Nat /\ upFor' <= upFor + 1
      /\ left \in Nat /\ left <= MaxFetch /\ fresh \in Nat /\ fresh <= TTL
      /\ revoked \subseteq Serials /\ upFor \in Nat /\ \A s \in Serials : since[s] \in Nat
  BY TimeAssumption DEF Tick, IInv, TypeOK, Ages
<1>2. TypeOK'
  BY TimeAssumption DEF Tick, IInv, TypeOK, Ages, ca
<1>3. Chain'
  BY DEF Tick, IInv, Chain, Exclusive, CachedInChain, FetchedInChain, ComparedInChain,
         KnownListed, At, IsList, ca
<1>4. Recent'
  <2>1. (~up => upFor = 0)'
    BY DEF Tick, ca
  <2>2. CachedIsRecent'
    <3> SUFFICES ASSUME IsList(cachedCRL), fresh' > 0, NEW s \in revoked \ cachedCRL
                 PROVE  since'[s] <= (TTL - fresh') + MaxFetch
      BY DEF CachedIsRecent, Tick, ca, IsList
    <3>1. fresh > 0 /\ fresh' = fresh - 1
      BY <1>1 DEF Tick
    <3>2. since[s] <= (TTL - fresh) + MaxFetch
      BY <3>1 DEF IInv, Recent, CachedIsRecent
    <3> QED
      BY <1>1, <3>1, <3>2, TimeAssumption
  <2>3. FetchedIsRecent'
    <3> SUFFICES ASSUME NEW t \in Threads, At(t, "fetched")
                 PROVE  IF IsList(call[t].crl)
                        THEN \A s \in revoked \ call[t].crl : since'[s] <= MaxFetch - left'
                        ELSE upFor' <= MaxFetch - left'
      BY DEF FetchedIsRecent, Tick, At, ca, IsList
    <3>1. left > 0 /\ left' = left - 1
      BY DEF Tick, At
    <3> QED
      BY <1>1, <3>1, TimeAssumption DEF IInv, Recent, FetchedIsRecent
  <2>4. ComparedIsRecent'
    BY DEF Tick, ComparedIsRecent, At
  <2> QED
    BY <2>1, <2>2, <2>3, <2>4 DEF Recent
<1> QED
  BY <1>2, <1>3, <1>4 DEF IInv

-----------------------------------------------------------------------------
(* IsRevoked.                                                              *)

\* What no step of a call before the answer of a fetch changes.
Shared == <<revoked, up, outages, restarts, cachedCRL, fresh, refused, since, upFor>>

\* A step that moves the call of t to a stage before the answer of a fetch, and
\* changes only who holds the mutex and how long the fetch may still take.
LEMMA EarlyStep ==
    ASSUME IInv, NEW t \in Threads, UNCHANGED Shared, TypeOK',
           \A u \in Threads \ {t} : call'[u] = call[u],
           call'[t].at \in {"idle", "wait", "look", "fetch"},
           call'[t].known => call'[t].serial \in refused,
           call'[t].at \in Holding => mu' = t,
           \A u \in Threads \ {t} : call[u].at \in Holding => mu' = u,
           left' = left \/ \A u \in Threads \ {t} : ~At(u, "fetched")
    PROVE  IInv'
<1>1. Chain'
  <2>1. Exclusive'
    BY DEF Exclusive
  <2>2. CachedInChain'
    BY DEF IInv, Chain, CachedInChain, Shared, IsList
  <2>3. FetchedInChain'
    BY DEF IInv, Chain, FetchedInChain, Shared, IsList, At
  <2>4. ComparedInChain'
    BY DEF IInv, Chain, ComparedInChain, Shared, IsList, At
  <2>5. KnownListed'
    BY DEF IInv, Chain, KnownListed, Shared, IsList, At
  <2> QED
    BY <2>1, <2>2, <2>3, <2>4, <2>5 DEF IInv, Chain, Shared
<1>2. Recent'
  <2>1. (~up => upFor = 0)' /\ CachedIsRecent'
    BY DEF IInv, Recent, CachedIsRecent, Shared, IsList
  <2>2. FetchedIsRecent'
    <3> SUFFICES ASSUME NEW u \in Threads, At(u, "fetched")'
                 PROVE  IF IsList(call'[u].crl)
                        THEN \A s \in revoked \ call'[u].crl : since[s] <= MaxFetch - left'
                        ELSE upFor <= MaxFetch - left'
      BY DEF FetchedIsRecent, Shared, IsList
    <3>1. u # t /\ call'[u] = call[u] /\ At(u, "fetched") /\ left' = left
      BY DEF At
    <3> QED
      BY <3>1 DEF IInv, Recent, FetchedIsRecent
  <2>3. ComparedIsRecent'
    BY DEF IInv, Recent, ComparedIsRecent, Shared, IsList, At
  <2> QED
    BY <2>1, <2>2, <2>3 DEF Recent
<1> QED
  BY <1>1, <1>2 DEF IInv

LEMMA CallIInv ==
    ASSUME IInv, NEW t \in Threads, NEW s \in Serials, Call(t, s) PROVE IInv'
<1>1. TypeOK'
  BY DEF Call, IInv, TypeOK, Stages, Lists, NoCRL, ca, cache, history
<1>2. /\ \A u \in Threads \ {t} : call'[u] = call[u]
      /\ call'[t].at = "wait" /\ call'[t].serial = s /\ call'[t].known = (s \in refused)
  BY DEF Call, IInv, TypeOK
<1>3. \A u \in Threads \ {t} : call[u].at \in Holding => mu' = u
  BY DEF Call, IInv, Chain, Exclusive
<1> QED
  BY <1>1, <1>2, <1>3, EarlyStep DEF Call, Shared, ca, cache, history, Holding

LEMMA LockIInv == ASSUME IInv, NEW t \in Threads, Lock(t) PROVE IInv'
<1>1. TypeOK'
  BY DEF Lock, Goto, IInv, TypeOK, Stages, ca, cache, history
<1>2. /\ \A u \in Threads \ {t} : call'[u] = call[u]
      /\ call'[t].at = "look" /\ call'[t].serial = call[t].serial
      /\ call'[t].known = call[t].known
  BY DEF Lock, Goto, IInv, TypeOK
<1>3. \A u \in Threads : call[u].at \notin Holding
  BY NoneAssumption DEF Lock, IInv, Chain, Exclusive
<1>4. call'[t].known => call'[t].serial \in refused
  BY <1>2 DEF IInv, Chain, KnownListed
<1> QED
  BY <1>1, <1>2, <1>3, <1>4, EarlyStep DEF Lock, Shared, ca, cache, history

LEMMA StartFetchIInv == ASSUME IInv, NEW t \in Threads, StartFetch(t) PROVE IInv'
<1>1. TypeOK'
  BY TimeAssumption DEF StartFetch, Goto, IInv, TypeOK, Stages, ca, cache, history
<1>2. /\ \A u \in Threads \ {t} : call'[u] = call[u]
      /\ call'[t].at = "fetch" /\ call'[t].serial = call[t].serial
      /\ call'[t].known = call[t].known
  BY DEF StartFetch, Goto, IInv, TypeOK
<1>3. mu = t /\ \A u \in Threads \ {t} : call[u].at \notin Holding
  BY DEF StartFetch, At, IInv, Chain, Exclusive, Holding
<1>4. call'[t].known => call'[t].serial \in refused
  BY <1>2 DEF IInv, Chain, KnownListed
<1>5. \A u \in Threads \ {t} : ~At(u, "fetched")
  BY <1>3 DEF At, Holding
<1> QED
  BY <1>1, <1>2, <1>3, <1>4, <1>5, EarlyStep DEF StartFetch, Shared, ca, cache, history

\* The holder of the mutex is alone in getCRL.
LEMMA HolderAlone ==
    ASSUME IInv, NEW t \in Threads, call[t].at \in Holding
    PROVE  mu = t /\ \A u \in Threads \ {t} : call[u].at \notin Holding
  BY DEF IInv, Chain, Exclusive

\* A call leaves getCRL with the cached list, old or new, or with none.
LEMMA LeaveStep ==
    ASSUME IInv, NEW t \in Threads, call[t].at \in Holding, TypeOK',
           UNCHANGED <<revoked, up, refused, since, upFor>>,
           \A u \in Threads \ {t} : call'[u] = call[u],
           call'[t].at = "compare", call'[t].serial = call[t].serial,
           call'[t].known = call[t].known, call'[t].crl = cachedCRL',
           CachedInChain', CachedIsRecent',
           IsList(cachedCRL) => IsList(cachedCRL') /\ cachedCRL \subseteq cachedCRL',
           \/ upFor <= MaxFetch
           \/ \A s \in revoked \ cachedCRL' : since[s] < TTL + MaxFetch
    PROVE  IInv'
<1>1. \A u \in Threads \ {t} : call[u].at \notin Holding
  BY HolderAlone
<1>2. Chain'
  <2>1. Exclusive'
    BY <1>1 DEF Exclusive, Holding
  <2>2. FetchedInChain'
    BY <1>1 DEF FetchedInChain, Holding, At
  <2>3. ComparedInChain'
    <3> SUFFICES ASSUME NEW u \in Threads, At(u, "compare")', IsList(call'[u].crl)
                 PROVE  IsList(cachedCRL') /\ call'[u].crl \subseteq cachedCRL'
      BY DEF ComparedInChain, IsList
    <3>1. CASE u = t
      BY <3>1
    <3>2. CASE u # t
      BY <3>2 DEF IInv, Chain, ComparedInChain, At
    <3> QED
      BY <3>1, <3>2
  <2>4. KnownListed'
    <3> SUFFICES ASSUME NEW u \in Threads, call'[u].known
                 PROVE  /\ call'[u].serial \in refused
                        /\ At(u, "compare")' /\ IsList(call'[u].crl) =>
                              call'[u].serial \in call'[u].crl
      BY DEF KnownListed, IsList
    <3>1. CASE u = t
      BY <3>1 DEF IInv, Chain, KnownListed, CachedInChain, IsList
    <3>2. CASE u # t
      BY <3>2 DEF IInv, Chain, KnownListed, At
    <3> QED
      BY <3>1, <3>2
  <2> QED
    BY <2>1, <2>2, <2>3, <2>4 DEF IInv, Chain
<1>3. Recent'
  <2>1. (~up => upFor = 0)'
    BY DEF IInv, Recent
  <2>2. FetchedIsRecent'
    BY <1>1 DEF FetchedIsRecent, Holding, At
  <2>3. ComparedIsRecent'
    BY DEF IInv, Recent, ComparedIsRecent, At, IsList
  <2> QED
    BY <2>1, <2>2, <2>3 DEF Recent
<1> QED
  BY <1>2, <1>3 DEF IInv

LEMMA UseCachedIInv == ASSUME IInv, NEW t \in Threads, UseCached(t) PROVE IInv'
<1>1. /\ call[t].at \in Holding
      /\ call' = [call EXCEPT ![t] = [call[t] EXCEPT !.at = "compare", !.crl = cachedCRL]]
  BY DEF UseCached, At, Holding
<1>2. TypeOK'
  BY <1>1 DEF UseCached, IInv, TypeOK, Stages, ca, cache, history
<1>3. /\ \A u \in Threads \ {t} : call'[u] = call[u]
      /\ call'[t].at = "compare" /\ call'[t].serial = call[t].serial
      /\ call'[t].known = call[t].known /\ call'[t].crl = cachedCRL
  BY <1>1 DEF IInv, TypeOK
<1>4. UNCHANGED <<revoked, up, refused, since, upFor, cachedCRL, fresh>>
  BY DEF UseCached, ca, cache, history
<1>5. CachedInChain' /\ CachedIsRecent'
  BY <1>4 DEF IInv, Chain, Recent, CachedInChain, CachedIsRecent, IsList
<1>6. \A s \in revoked \ cachedCRL : since[s] < TTL + MaxFetch
  <2>1. IsList(cachedCRL) /\ fresh > 0 /\ fresh \in 0..TTL
    BY DEF UseCached, IsList, IInv, TypeOK
  <2>2. \A s \in revoked \ cachedCRL : since[s] <= (TTL - fresh) + MaxFetch
    BY <2>1 DEF IInv, Recent, CachedIsRecent
  <2>3. \A s \in revoked : since[s] \in Nat
    BY TimeAssumption DEF IInv, TypeOK, Ages
  <2> QED
    BY <2>1, <2>2, <2>3, TimeAssumption
<1> QED
  BY <1>1, <1>2, <1>3, <1>4, <1>5, <1>6, LeaveStep

\* The list that replaces the cached one has all that was refused.
LEMMA KeepIInv == ASSUME IInv, NEW t \in Threads, Keep(t) PROVE IInv'
<1>1. /\ call[t].at \in Holding /\ At(t, "fetched") /\ IsList(call[t].crl)
      /\ call' = [call EXCEPT ![t] = [call[t] EXCEPT !.at = "compare"]]
      /\ cachedCRL' = call[t].crl /\ fresh' = TTL
  BY DEF Keep, At, Holding, Goto, IsList
<1>2. TypeOK'
  BY <1>1, TimeAssumption DEF Keep, IInv, TypeOK, Stages, ca, history
<1>3. /\ \A u \in Threads \ {t} : call'[u] = call[u]
      /\ call'[t].at = "compare" /\ call'[t].serial = call[t].serial
      /\ call'[t].known = call[t].known /\ call'[t].crl = cachedCRL'
  BY <1>1 DEF IInv, TypeOK
<1>4. UNCHANGED <<revoked, up, refused, since, upFor>>
  BY DEF Keep, ca, history
<1>5. CachedInChain' /\ (IsList(cachedCRL) => cachedCRL \subseteq cachedCRL')
  BY <1>1, <1>4 DEF IInv, Chain, FetchedInChain, CachedInChain, IsList
<1>6. IsList(cachedCRL')
  BY <1>1
<1>7. \A s \in revoked \ cachedCRL' : since[s] <= MaxFetch - left
  BY <1>1 DEF IInv, Recent, FetchedIsRecent
<1>8. left \in Nat /\ \A s \in revoked : since[s] \in Nat
  BY TimeAssumption DEF IInv, TypeOK, Ages
<1>9. CachedIsRecent'
  BY <1>1, <1>4, <1>7, <1>8, TimeAssumption DEF CachedIsRecent
<1>10. \A s \in revoked \ cachedCRL' : since[s] < TTL + MaxFetch
  BY <1>7, <1>8, TimeAssumption
<1> QED
  BY <1>1, <1>2, <1>3, <1>4, <1>5, <1>6, <1>9, <1>10, LeaveStep

LEMMA FetchFailedIInv == ASSUME IInv, NEW t \in Threads, FetchFailed(t) PROVE IInv'
<1>1. /\ call[t].at \in Holding /\ At(t, "fetched") /\ ~IsList(call[t].crl)
      /\ call' = [call EXCEPT ![t] = [call[t] EXCEPT !.at = "compare", !.crl = cachedCRL]]
  BY DEF FetchFailed, At, Holding, IsList
<1>2. TypeOK'
  BY <1>1, TimeAssumption DEF FetchFailed, IInv, TypeOK, Stages, ca, cache, history
<1>3. /\ \A u \in Threads \ {t} : call'[u] = call[u]
      /\ call'[t].at = "compare" /\ call'[t].serial = call[t].serial
      /\ call'[t].known = call[t].known /\ call'[t].crl = cachedCRL
  BY <1>1 DEF IInv, TypeOK
<1>4. UNCHANGED <<revoked, up, refused, since, upFor, cachedCRL, fresh>>
  BY DEF FetchFailed, ca, cache, history
<1>5. CachedInChain' /\ CachedIsRecent'
  BY <1>4 DEF IInv, Chain, Recent, CachedInChain, CachedIsRecent, IsList
<1>6. upFor <= MaxFetch
  BY <1>1, TimeAssumption DEF IInv, Recent, FetchedIsRecent, TypeOK, Ages
<1> QED
  BY <1>1, <1>2, <1>3, <1>4, <1>5, <1>6, LeaveStep

\* What the distribution point serves has all that was ever refused.
LEMMA ServeIInv == ASSUME IInv, NEW t \in Threads, Serve(t) PROVE IInv'
<1> DEFINE list == IF up THEN revoked ELSE NoCRL
<1>1. /\ call[t].at = "fetch"
      /\ call' = [call EXCEPT ![t] = [call[t] EXCEPT !.at = "fetched", !.crl = list]]
      /\ UNCHANGED <<revoked, up, outages, restarts, cachedCRL, fresh, mu, left,
                     refused, since, upFor>>
  BY DEF Serve, At, ca, cache, history
<1>2. list \in Lists
  BY DEF IInv, TypeOK, Lists
<1>3. TypeOK'
  BY <1>1, <1>2 DEF IInv, TypeOK, Stages
<1>4. /\ \A u \in Threads \ {t} : call'[u] = call[u]
      /\ call'[t].at = "fetched" /\ call'[t].serial = call[t].serial
      /\ call'[t].known = call[t].known /\ call'[t].crl = list
  BY <1>1 DEF IInv, TypeOK
<1>5. Chain'
  <2>1. Exclusive'
    BY <1>1, <1>4 DEF IInv, Chain, Exclusive, Holding
  <2>2. CachedInChain'
    BY <1>1 DEF IInv, Chain, CachedInChain, IsList
  <2>3. FetchedInChain'
    <3> SUFFICES ASSUME NEW u \in Threads, At(u, "fetched")', IsList(call'[u].crl)
                 PROVE  /\ refused \subseteq call'[u].crl /\ call'[u].crl \subseteq revoked
                        /\ IsList(cachedCRL) => cachedCRL \subseteq call'[u].crl
      BY <1>1 DEF FetchedInChain, IsList
    <3>1. CASE u = t
      BY <1>4, <3>1 DEF IInv, Chain, CachedInChain, IsList
    <3>2. CASE u # t
      BY <1>4, <3>2 DEF IInv, Chain, FetchedInChain, At
    <3> QED
      BY <3>1, <3>2
  <2>4. ComparedInChain'
    BY <1>1, <1>4 DEF IInv, Chain, ComparedInChain, IsList, At
  <2>5. KnownListed'
    BY <1>1, <1>4 DEF IInv, Chain, KnownListed, IsList, At
  <2> QED
    BY <1>1, <2>1, <2>2, <2>3, <2>4, <2>5 DEF IInv, Chain
<1>6. Recent'
  <2>1. (~up => upFor = 0)' /\ CachedIsRecent'
    BY <1>1 DEF IInv, Recent, CachedIsRecent, IsList
  <2>2. FetchedIsRecent'
    <3> SUFFICES ASSUME NEW u \in Threads, At(u, "fetched")'
                 PROVE  IF IsList(call'[u].crl)
                        THEN \A s \in revoked \ call'[u].crl : since[s] <= MaxFetch - left
                        ELSE upFor <= MaxFetch - left
      BY <1>1 DEF FetchedIsRecent, IsList
    <3>1. CASE u = t /\ up
      <4>1. IsList(revoked)
        BY ListIsSet DEF IInv, TypeOK, Lists
      <4> QED
        BY <1>4, <3>1, <4>1
    <3>2. CASE u = t /\ ~up
      <4>1. ~IsList(list) /\ upFor = 0 /\ left \in 0..MaxFetch
        BY <3>2 DEF IsList, IInv, Recent, TypeOK
      <4> QED
        BY <1>4, <3>2, <4>1, TimeAssumption
    <3>3. CASE u # t
      BY <1>4, <3>3 DEF IInv, Recent, FetchedIsRecent, At
    <3> QED
      BY <3>1, <3>2, <3>3
  <2>3. ComparedIsRecent'
    BY <1>1, <1>4 DEF IInv, Recent, ComparedIsRecent, IsList, At
  <2> QED
    BY <2>1, <2>2, <2>3 DEF Recent
<1> QED
  BY <1>3, <1>5, <1>6 DEF IInv

\* An answer ends the call; a refusal is of a serial in the cached list.
LEMMA AnswerIInv == ASSUME IInv, NEW t \in Threads, Answer(t) PROVE IInv'
<1>1. /\ At(t, "compare") /\ call' = [call EXCEPT ![t] = Idle]
      /\ UNCHANGED <<revoked, up, outages, restarts, cachedCRL, fresh, mu, left, since, upFor>>
  BY DEF Answer, Refuse, Clear, Error, Return, ca, cache, history
<1>2. \/ refused' = refused
      \/ /\ IsList(call[t].crl) /\ call[t].serial \in call[t].crl
         /\ refused' = refused \cup {call[t].serial}
  BY DEF Answer, Refuse, Clear, Error, history, IsList
<1>3. /\ refused \subseteq refused'
      /\ IsList(cachedCRL) => refused' \subseteq cachedCRL
      /\ refused' # refused => IsList(cachedCRL)
  BY <1>1, <1>2 DEF IInv, Chain, CachedInChain, ComparedInChain
<1>4. refused' \subseteq revoked
  BY <1>3 DEF IInv, Chain, CachedInChain
<1>5. /\ call'[t] = Idle /\ \A u \in Threads \ {t} : call'[u] = call[u]
  BY <1>1 DEF IInv, TypeOK
<1>6. TypeOK'
  <2>1. refused' \subseteq Serials
    BY <1>4 DEF IInv, TypeOK
  <2> QED
    BY <1>1, <2>1 DEF IInv, TypeOK, Idle, Stages, Lists, NoCRL
<1>7. Chain'
  <2>1. Exclusive'
    BY <1>1, <1>5 DEF IInv, Chain, Exclusive, Holding, Idle
  <2>2. CachedInChain'
    BY <1>1, <1>3 DEF IInv, Chain, CachedInChain, IsList
  <2>3. FetchedInChain'
    <3> SUFFICES ASSUME NEW u \in Threads, At(u, "fetched")', IsList(call'[u].crl)
                 PROVE  /\ refused' \subseteq call'[u].crl /\ call'[u].crl \subseteq revoked
                        /\ IsList(cachedCRL) => cachedCRL \subseteq call'[u].crl
      BY <1>1 DEF FetchedInChain, IsList
    <3>1. u # t /\ call'[u] = call[u]
      BY <1>5 DEF At, Idle
    <3> QED
      BY <1>3, <3>1 DEF IInv, Chain, FetchedInChain, At
  <2>4. ComparedInChain'
    BY <1>1, <1>5 DEF IInv, Chain, ComparedInChain, IsList, At, Idle
  <2>5. KnownListed'
    BY <1>3, <1>5 DEF IInv, Chain, KnownListed, IsList, At, Idle
  <2> QED
    BY <1>1, <1>4, <2>1, <2>2, <2>3, <2>4, <2>5 DEF Chain
<1>8. Recent'
  BY <1>1, <1>5 DEF IInv, Recent, CachedIsRecent, FetchedIsRecent, ComparedIsRecent,
                    IsList, At, Idle
<1> QED
  BY <1>6, <1>7, <1>8 DEF IInv

LEMMA RestartIInv == ASSUME IInv, Restart PROVE IInv'
<1>1. TypeOK'
  BY TimeAssumption
     DEF Restart, IInv, TypeOK, Idle, Stages, Lists, NoCRL, ca, history
<1>2. \A t \in Threads : call'[t] = Idle
  BY DEF Restart
<1>3. Chain'
  BY <1>2 DEF Restart, IInv, Chain, Exclusive, CachedInChain, FetchedInChain,
              ComparedInChain, KnownListed, Idle, At, Holding, IsList, ca, history
<1>4. Recent'
  BY <1>2 DEF Restart, IInv, Recent, CachedIsRecent, FetchedIsRecent, ComparedIsRecent,
              Idle, At, IsList, ca, history
<1> QED
  BY <1>1, <1>3, <1>4 DEF IInv

LEMMA NextIInv == ASSUME IInv, [Next]_vars PROVE IInv'
<1>1. ASSUME NEW s \in Serials, Revoke(s) PROVE IInv'
  BY <1>1, RevokeIInv
<1>2. CASE Fail \/ Recover
  BY <1>2, OutageIInv
<1>3. CASE Tick
  BY <1>3, TickIInv
<1>4. CASE Restart
  BY <1>4, RestartIInv
<1>5. ASSUME NEW t \in Threads, NEW s \in Serials, Call(t, s) PROVE IInv'
  BY <1>5, CallIInv
<1>6. ASSUME NEW t \in Threads,
             Lock(t) \/ UseCached(t) \/ StartFetch(t) \/ Serve(t) \/ Keep(t) \/ FetchFailed(t)
      PROVE  IInv'
  BY <1>6, LockIInv, UseCachedIInv, StartFetchIInv, ServeIInv, KeepIInv, FetchFailedIInv
<1>7. ASSUME NEW t \in Threads, Refuse(t) \/ Clear(t) \/ Error(t) PROVE IInv'
  BY <1>7, AnswerIInv DEF Answer
<1>8. CASE UNCHANGED vars
  BY <1>8 DEF vars, ca, cache, history, IInv, TypeOK, Chain, Exclusive, CachedInChain,
              FetchedInChain, ComparedInChain, KnownListed, Recent, CachedIsRecent,
              FetchedIsRecent, ComparedIsRecent, At, IsList
<1> QED
  BY <1>1, <1>2, <1>3, <1>4, <1>5, <1>6, <1>7, <1>8 DEF Next

\* IInv holds in every reachable state.
THEOREM Inductive == Spec => []IInv
<1>1. IInv /\ [Next]_vars => IInv'
  BY NextIInv
<1> QED
  BY InitIInv, <1>1, PTL DEF Spec

\* Type correctness of the checker (crl.go).
THEOREM TypeCorrect == Spec => []TypeOK
<1>1. IInv => TypeOK
  BY DEF IInv
<1> QED
  BY Inductive, <1>1, PTL

\* Who holds the mutex is in getCRL.
HolderFetches == \A t \in Threads : mu = t => call[t].at \in Holding

LEMMA HolderStep == IInv /\ HolderFetches /\ [Next]_vars => HolderFetches'
<1> SUFFICES ASSUME IInv, HolderFetches, [Next]_vars, NEW u \in Threads, mu' = u
             PROVE  call'[u].at \in Holding
  BY DEF HolderFetches
<1>1. u # NoThread /\ \A t \in Threads : t # NoThread
  BY NoneAssumption
<1> USE <1>1 DEF HolderFetches, Holding, At, Goto
<1>2. CASE (\E s \in Serials : Revoke(s)) \/ Fail \/ Recover \/ Tick \/ UNCHANGED vars
  BY <1>2 DEF Revoke, Fail, Recover, Tick, vars
<1>3. CASE Restart
  BY <1>3 DEF Restart
<1>4. ASSUME NEW t \in Threads, NEW s \in Serials, Call(t, s) PROVE call'[u].at \in Holding
  BY <1>4 DEF Call
<1>5. ASSUME NEW t \in Threads, Lock(t) PROVE call'[u].at \in Holding
  BY <1>5 DEF Lock, IInv, TypeOK
<1>6. ASSUME NEW t \in Threads, UseCached(t) \/ Keep(t) \/ FetchFailed(t) PROVE FALSE
  BY <1>6 DEF UseCached, Keep, FetchFailed
<1>7. ASSUME NEW t \in Threads, StartFetch(t) \/ Serve(t) PROVE call'[u].at \in Holding
  BY <1>7 DEF StartFetch, Serve, IInv, TypeOK
<1>8. ASSUME NEW t \in Threads, Refuse(t) \/ Clear(t) \/ Error(t)
      PROVE  call'[u].at \in Holding
  <2>1. /\ t # u /\ call[u].at \in Holding /\ call' = [call EXCEPT ![t] = Idle]
    BY <1>8 DEF Refuse, Clear, Error, Return
  <2> QED
    BY <2>1 DEF IInv, TypeOK
<1> QED
  BY <1>2, <1>3, <1>4, <1>5, <1>6, <1>7, <1>8 DEF Next

\* The mutex is locked exactly while one call is in getCRL: every way out of it,
\* those of a failed fetch without any list included, unlocks it, so nobody waits
\* for a call that is gone.  It is what EveryoneAnswered needs beside fairness
\* (getCRL).
THEOREM MutexIsReleased ==
    Spec => [](\A t \in Threads : mu = t <=> call[t].at \in {"look", "fetch", "fetched"})
<1>1. Init => HolderFetches
  BY NoneAssumption DEF Init, HolderFetches
<1>2. IInv /\ HolderFetches /\ [Next]_vars => HolderFetches'
  BY HolderStep
<1>3. IInv /\ HolderFetches =>
        \A t \in Threads : mu = t <=> call[t].at \in {"look", "fetch", "fetched"}
  BY DEF IInv, Chain, Exclusive, HolderFetches, Holding
<1> QED
  BY Inductive, <1>1, <1>2, <1>3, PTL DEF Spec

\* A call that clears its serial had not seen it refused before it began.
LEMMA ClearsUnknown ==
    ASSUME IInv, NEW t \in Threads, Clear(t) PROVE ~call[t].known
  BY DEF Clear, IInv, Chain, KnownListed, IsList

\* A certificate that was refused once passes in no later call, through outages
\* and restarts, for any number of concurrent calls (IsRevoked, getCRL).
THEOREM RefusalsLast == Spec => RefusedForGood
<1>1. IInv /\ [Next]_vars => [\A t \in Threads : Clear(t) => ~call[t].known]_vars
  BY ClearsUnknown
<1> QED
  BY Inductive, <1>1, PTL DEF Spec, RefusedForGood

LEMMA ClearsRecent ==
    ASSUME IInv, NEW t \in Threads, Clear(t), call[t].serial \in revoked
    PROVE  since[call[t].serial] < TTL + MaxFetch \/ upFor <= MaxFetch
  BY DEF Clear, IInv, Recent, ComparedIsRecent, IsList

\* A revoked certificate passes only for less than a lifetime of the list and a
\* fetch, or about an outage, whatever the lifetime and the timeout (getCRL).
THEOREM RevocationsTakeEffect == Spec => RevocationEffective
<1>1. IInv /\ [Next]_vars =>
        [\A t \in Threads :
           LET s == call[t].serial
           IN  Clear(t) /\ s \in revoked
                 => since[s] < TTL + MaxFetch \/ upFor <= MaxFetch]_vars
  BY ClearsRecent
<1> QED
  BY Inductive, <1>1, PTL DEF Spec, RevocationEffective
=============================================================================
