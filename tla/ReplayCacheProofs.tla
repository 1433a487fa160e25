------------------------- MODULE ReplayCacheProofs -------------------------
(***************************************************************************)
(* The replay window of ReplayCache, for every set of goroutines and jtis, *)
(* every TTL and every capacity.  The inductive invariant relates the      *)
(* store to the history: an accepted jti that was neither evicted nor lost *)
(* is still in the store under the time its acceptance read, or that time  *)
(* is more than TTL ago.                                                   *)
(***************************************************************************)
EXTENDS ReplayCache, FiniteSetTheorems, TLAPS

\* The store only holds times of acceptances.
StoreIsHistory ==
    \A j \in Jtis : items[j] # Absent => items[j] = grantedStamp[j]

\* No time that was read lies in the future.
TimesPassed ==
    /\ last <= clock
    /\ \A t \in Threads : call[t] # NoCall => call[t].stamp <= clock
    /\ \A j \in Jtis : grantedStamp[j] <= grantedAt[j] /\ grantedAt[j] <= clock
    /\ \A j \in Jtis : grantedAt[j] # Absent => grantedStamp[j] # Absent

\* An accepted jti is remembered until its window has passed.
Remembered ==
    \A j \in Jtis \ (evicted \cup lost) :
        grantedAt[j] # Absent =>
            items[j] = grantedStamp[j] \/ clock - grantedStamp[j] > TTL

\* What a purge left behind was accepted at most TTL before it.
PurgedUpTo ==
    \A j \in Jtis : items[j] # Absent => last - TTL <= grantedAt[j]

IInv == TypeOK /\ StoreIsHistory /\ TimesPassed /\ Remembered /\ PurgedUpTo

-----------------------------------------------------------------------------
\* The purge keeps the type of the map, changes an entry only to Absent, and
\* drops only entries older than TTL (purgeExpired).
LEMMA PurgedFacts ==
    ASSUME StoreTypeOK, NEW n \in Nat
    PROVE  /\ Purged(n) \in [Jtis -> Nat \cup {Absent}]
           /\ PurgeTime(n) \in Nat
           /\ \A j \in Jtis : Purged(n)[j] # Absent => Purged(n)[j] = items[j]
           /\ \A j \in Jtis : items[j] # Absent /\ Purged(n)[j] = Absent
                                => n - items[j] > TTL
           /\ \A j \in Jtis : PurgeDue(n) /\ Purged(n)[j] # Absent
                                => Purged(n)[j] >= n - TTL
  BY TTLAssumption DEF StoreTypeOK, Purged, PurgeTime, PurgeDue, Absent

\* Marking j keeps the type of the map; every entry but that of j is one the
\* purge left, and one that disappears is a victim (markIfNewInMemory).
LEMMA RecordNewFacts ==
    ASSUME StoreTypeOK, NEW n \in Nat, NEW j \in Jtis, RecordNew(j, n)
    PROVE  /\ StoreTypeOK'
           /\ items'[j] = n \/ items'[j] = Absent
           /\ \A k \in Jtis \ {j} : items'[k] = Purged(n)[k] \/ items'[k] = Absent
           /\ \A k \in Jtis \ Victims(n) :
                  Purged(n)[k] # Absent => items'[k] # Absent
           /\ last' = PurgeTime(n)
  BY PurgedFacts DEF StoreTypeOK, RecordNew, Victims, Present, Oldest, Absent

LEMMA TypeCorrect == Spec => []TypeOK
<1>1. Init => TypeOK
  BY DEF Init, StoreInit, TypeOK, StoreTypeOK, Absent
<1>2. TypeOK /\ [Next]_vars => TypeOK'
  <2> SUFFICES ASSUME TypeOK, [Next]_vars PROVE TypeOK'
    OBVIOUS
  <2> USE DEF TypeOK
  <2>1. CASE Tick
    BY <2>1 DEF Tick, store, history, StoreTypeOK
  <2>2. ASSUME NEW t \in Threads, NEW j \in Jtis, Enter(t, j) PROVE TypeOK'
    BY <2>2 DEF Enter, store, history, StoreTypeOK, Calls
  <2>3. ASSUME NEW t \in Threads, Accept(t) PROVE TypeOK'
    <3>1. call[t] \in Calls
      BY <2>3 DEF Accept
    <3>2. StoreTypeOK'
      BY <2>3, <3>1, RecordNewFacts DEF Accept, Calls
    <3>3. Victims(call[t].stamp) \subseteq Jtis
      BY DEF Victims, Present
    <3> QED
      BY <2>3, <3>1, <3>2, <3>3 DEF Accept, Calls
  <2>4. ASSUME NEW t \in Threads, Reject(t) PROVE TypeOK'
    <3>1. call[t] \in Calls
      BY <2>4 DEF Reject
    <3>2. StoreTypeOK'
      BY <2>4, <3>1, PurgedFacts DEF Reject, RejectReplay, Calls, StoreTypeOK
    <3> QED
      BY <2>4, <3>2 DEF Reject, history
  <2>5. CASE Restart
    BY <2>5 DEF Restart, StoreTypeOK, Absent
  <2>6. CASE UNCHANGED vars
    BY <2>6 DEF vars, store, history, StoreTypeOK
  <2> QED
    BY <2>1, <2>2, <2>3, <2>4, <2>5, <2>6 DEF Next
<1> QED
  BY <1>1, <1>2, PTL DEF Spec

-----------------------------------------------------------------------------
LEMMA InitIInv == Init => IInv
<1> SUFFICES ASSUME Init PROVE IInv
  OBVIOUS
<1>1. TypeOK
  BY DEF Init, StoreInit, TypeOK, StoreTypeOK, Absent
<1> QED
  BY <1>1 DEF Init, StoreInit, IInv, StoreIsHistory, TimesPassed, Remembered,
              PurgedUpTo, Absent

\* An accepting step: the entry of the accepted jti is new, every other entry
\* is kept, purged as too old, or counted as evicted.
LEMMA AcceptIInv ==
    ASSUME IInv, TypeOK', NEW t \in Threads, Accept(t)
    PROVE  IInv'
<1> DEFINE j == call[t].jti
           n == call[t].stamp
<1> USE DEF IInv
<1>1. j \in Jtis /\ n \in Nat /\ n <= clock
  BY DEF Accept, TypeOK, Calls, TimesPassed
<1>2. StoreTypeOK /\ RecordNew(j, n)
  BY DEF Accept, TypeOK
<1>3. /\ \A k \in Jtis \ {j} : items'[k] = Purged(n)[k] \/ items'[k] = Absent
      /\ \A k \in Jtis \ Victims(n) : Purged(n)[k] # Absent => items'[k] # Absent
      /\ items'[j] = n \/ items'[j] = Absent
      /\ last' = PurgeTime(n)
  BY <1>1, <1>2, RecordNewFacts
<1>4. /\ \A k \in Jtis : Purged(n)[k] # Absent => Purged(n)[k] = items[k]
      /\ \A k \in Jtis : items[k] # Absent /\ Purged(n)[k] = Absent
                              => n - items[k] > TTL
      /\ \A k \in Jtis : PurgeDue(n) /\ Purged(n)[k] # Absent
                              => Purged(n)[k] >= n - TTL
  BY <1>1, <1>2, PurgedFacts
<1>5. /\ clock' = clock
      /\ grantedAt' = [grantedAt EXCEPT ![j] = clock]
      /\ grantedStamp' = [grantedStamp EXCEPT ![j] = n]
      /\ evicted' = (evicted \cup Victims(n)) \ {j}
      /\ lost' = lost \ {j}
      /\ call' = [call EXCEPT ![t] = NoCall]
  BY DEF Accept
<1>6. items'[j] = n
  <2>1. /\ j \notin Present(Purged(n))
        /\ Purged(n) \in [Jtis -> Nat \cup {Absent}]
    BY <1>1, <1>2, PurgedFacts DEF RecordNew
  <2> QED
    BY <1>1, <1>2, <2>1 DEF RecordNew, Oldest, Present
<1>7. StoreIsHistory'
  BY <1>1, <1>3, <1>4, <1>5, <1>6 DEF StoreIsHistory, TypeOK
<1>8. last' <= clock'
  BY <1>1, <1>3, <1>5 DEF PurgeTime, TimesPassed, TypeOK, StoreTypeOK
<1>9. TimesPassed'
  BY <1>1, <1>5, <1>8 DEF TimesPassed, TypeOK, Absent
<1>10. Remembered'
  <2> SUFFICES ASSUME NEW k \in Jtis \ (evicted' \cup lost'), grantedAt'[k] # Absent
               PROVE  items'[k] = grantedStamp'[k] \/ clock' - grantedStamp'[k] > TTL
    BY DEF Remembered
  <2>1. CASE k = j
    BY <2>1, <1>1, <1>5, <1>6 DEF TypeOK
  <2>2. CASE k # j
    <3>1. /\ k \notin evicted \cup lost \cup Victims(n)
          /\ grantedAt'[k] = grantedAt[k] /\ grantedStamp'[k] = grantedStamp[k]
      BY <2>2, <1>5 DEF TypeOK
    <3>2. items[k] = grantedStamp[k] \/ clock - grantedStamp[k] > TTL
      BY <3>1 DEF Remembered
    <3>3. CASE Purged(n)[k] # Absent
      BY <2>2, <3>1, <3>2, <3>3, <1>3, <1>4, <1>5
    <3>4. CASE Purged(n)[k] = Absent /\ items[k] # Absent
      <4>1. n - items[k] > TTL
        BY <3>4, <1>4
      <4> QED
        BY <4>1, <3>1, <3>2, <3>4, <1>1, <1>5, TTLAssumption DEF TypeOK, StoreTypeOK
    <3>5. CASE items[k] = Absent
      <4>1. items'[k] = Absent
        BY <2>2, <3>5, <1>3, <1>4
      <4> QED
        BY <4>1, <3>1, <3>2, <3>5, <1>5
    <3> QED
      BY <3>3, <3>4, <3>5
  <2> QED
    BY <2>1, <2>2
<1>11. PurgedUpTo'
  <2> SUFFICES ASSUME NEW k \in Jtis, items'[k] # Absent
               PROVE  last' - TTL <= grantedAt'[k]
    BY DEF PurgedUpTo
  <2>1. CASE k = j
    BY <2>1, <1>1, <1>5, <1>8, TTLAssumption DEF TypeOK, StoreTypeOK
  <2>2. CASE k # j
    <3>1. /\ Purged(n)[k] # Absent /\ items[k] # Absent
          /\ Purged(n)[k] = items[k] /\ grantedAt'[k] = grantedAt[k]
      BY <2>2, <1>3, <1>4, <1>5 DEF TypeOK
    <3>2. items[k] <= grantedAt[k] /\ last - TTL <= grantedAt[k]
      BY <3>1 DEF StoreIsHistory, TimesPassed, PurgedUpTo
    <3>3. CASE PurgeDue(n)
      BY <3>1, <3>2, <3>3, <1>1, <1>3, <1>4, TTLAssumption
         DEF PurgeTime, TypeOK, StoreTypeOK, Absent
    <3>4. CASE ~PurgeDue(n)
      BY <3>1, <3>2, <3>4, <1>3 DEF PurgeTime
    <3> QED
      BY <3>3, <3>4
  <2> QED
    BY <2>1, <2>2
<1> QED
  BY <1>7, <1>9, <1>10, <1>11

\* A rejecting step only purges.
LEMMA RejectIInv ==
    ASSUME IInv, TypeOK', NEW t \in Threads, Reject(t)
    PROVE  IInv'
<1> DEFINE n == call[t].stamp
<1> USE DEF IInv
<1>1. n \in Nat /\ n <= clock
  BY DEF Reject, TypeOK, Calls, TimesPassed
<1>2. /\ items' = Purged(n) /\ last' = PurgeTime(n) /\ clock' = clock
      /\ UNCHANGED history
      /\ call' = [call EXCEPT ![t] = NoCall]
  BY DEF Reject, RejectReplay
<1>3. /\ \A k \in Jtis : Purged(n)[k] # Absent => Purged(n)[k] = items[k]
      /\ \A k \in Jtis : items[k] # Absent /\ Purged(n)[k] = Absent
                              => n - items[k] > TTL
      /\ \A k \in Jtis : PurgeDue(n) /\ Purged(n)[k] # Absent
                              => Purged(n)[k] >= n - TTL
  BY <1>1, PurgedFacts DEF TypeOK
<1>4. StoreIsHistory'
  BY <1>2, <1>3 DEF StoreIsHistory, history
<1>5. TimesPassed'
  BY <1>1, <1>2 DEF TimesPassed, history, PurgeTime, TypeOK
<1>6. Remembered'
  <2> SUFFICES ASSUME NEW k \in Jtis \ (evicted \cup lost), grantedAt[k] # Absent
               PROVE  Purged(n)[k] = grantedStamp[k] \/ clock - grantedStamp[k] > TTL
    BY <1>2 DEF Remembered, history
  <2>1. items[k] = grantedStamp[k] \/ clock - grantedStamp[k] > TTL
    BY DEF Remembered
  <2>2. CASE items[k] # Absent /\ Purged(n)[k] = Absent
    BY <2>1, <2>2, <1>1, <1>3, TTLAssumption DEF TypeOK, StoreTypeOK
  <2>3. CASE Purged(n)[k] # Absent
    BY <2>1, <2>3, <1>3
  <2>4. CASE items[k] = Absent /\ Purged(n)[k] = Absent
    BY <2>1, <2>4
  <2> QED
    BY <2>2, <2>3, <2>4
<1>7. PurgedUpTo'
  <2> SUFFICES ASSUME NEW k \in Jtis, Purged(n)[k] # Absent
               PROVE  PurgeTime(n) - TTL <= grantedAt[k]
    BY <1>2 DEF PurgedUpTo, history
  <2>1. /\ Purged(n)[k] = items[k] /\ items[k] <= grantedAt[k]
        /\ last - TTL <= grantedAt[k]
    BY <1>3 DEF StoreIsHistory, TimesPassed, PurgedUpTo
  <2> QED
    BY <2>1, <1>1, <1>3, TTLAssumption DEF PurgeTime, TypeOK, StoreTypeOK, Absent
<1> QED
  BY <1>4, <1>5, <1>6, <1>7

LEMMA NextIInv ==
    ASSUME IInv, TypeOK', [Next]_vars
    PROVE  IInv'
<1> USE DEF IInv
<1>1. CASE Tick
  BY <1>1, TTLAssumption
     DEF Tick, store, history, TypeOK, StoreTypeOK, StoreIsHistory, TimesPassed,
         Remembered, PurgedUpTo, Calls, Absent
<1>2. ASSUME NEW t \in Threads, NEW j \in Jtis, Enter(t, j) PROVE IInv'
  BY <1>2 DEF Enter, store, history, TypeOK, StoreTypeOK, StoreIsHistory, TimesPassed,
              Remembered, PurgedUpTo, Calls
<1>3. ASSUME NEW t \in Threads, Accept(t) PROVE IInv'
  BY <1>3, AcceptIInv
<1>4. ASSUME NEW t \in Threads, Reject(t) PROVE IInv'
  BY <1>4, RejectIInv
<1>5. CASE Restart
  BY <1>5 DEF Restart, TypeOK, StoreTypeOK, StoreIsHistory, TimesPassed, Remembered,
              PurgedUpTo
<1>6. CASE UNCHANGED vars
  BY <1>6 DEF vars, store, history, StoreIsHistory, TimesPassed, Remembered, PurgedUpTo
<1> QED
  BY <1>1, <1>2, <1>3, <1>4, <1>5, <1>6 DEF Next

\* IInv holds in every reachable state: it is IInv that is inductive, none of
\* the properties below is by itself.
THEOREM Inductive == Spec => []IInv
<1>1. IInv /\ TypeOK' /\ [Next]_vars => IInv'
  BY NextIInv
<1> QED
  BY InitIInv, TypeCorrect, <1>1, PTL DEF Spec

-----------------------------------------------------------------------------
\* The replay window holds for every interleaving of the callers, whatever the
\* TTL and the capacity: an acceptance finds no entry, so the previous one was
\* evicted, lost, or purged as older than TTL.
THEOREM WindowHolds == Spec => ReplayWindow
<1>1. IInv /\ [Next]_vars =>
        [\A t \in Threads :
            Accept(t) /\ grantedAt[call[t].jti] # Absent
                      /\ call[t].jti \notin evicted \cup lost
              => clock - grantedStamp[call[t].jti] > TTL]_vars
  <2> SUFFICES ASSUME IInv, NEW t \in Threads, Accept(t),
                      grantedAt[call[t].jti] # Absent,
                      call[t].jti \notin evicted \cup lost
               PROVE  clock - grantedStamp[call[t].jti] > TTL
    OBVIOUS
  <2> DEFINE j == call[t].jti
             n == call[t].stamp
  <2>1. j \in Jtis /\ n \in Nat /\ n <= clock
    BY DEF Accept, IInv, TypeOK, Calls, TimesPassed
  <2>2. Purged(n)[j] = Absent
    BY <2>1 DEF Accept, RecordNew, Present
  <2>3. items[j] = grantedStamp[j] \/ clock - grantedStamp[j] > TTL
    BY <2>1 DEF IInv, Remembered
  <2>4. items[j] # Absent => n - items[j] > TTL
    BY <2>1, <2>2, PurgedFacts DEF IInv, TypeOK
  <2>5. grantedStamp[j] \in Nat \cup {Absent} /\ clock \in Nat
    BY <2>1 DEF IInv, TypeOK
  <2>6. CASE items[j] # Absent
    BY <2>1, <2>3, <2>4, <2>5, <2>6, TTLAssumption DEF Absent
  <2>7. CASE items[j] = Absent
    BY <2>1, <2>3, <2>7 DEF IInv, TimesPassed
  <2> QED
    BY <2>6, <2>7
<1> QED
  BY Inductive, <1>1, PTL DEF Spec, ReplayWindow

\* A refused caller presents a jti accepted less than 2 * TTL before it came:
\* the entry it meets survived the last purge, which is at most TTL old.
THEOREM RejectionBounded == Spec => BoundedRejection
<1>1. IInv /\ [Next]_vars =>
        [\A t \in Threads :
            Reject(t) => call[t].stamp - grantedAt[call[t].jti] < 2 * TTL]_vars
  <2> SUFFICES ASSUME IInv, NEW t \in Threads, Reject(t)
               PROVE  call[t].stamp - grantedAt[call[t].jti] < 2 * TTL
    OBVIOUS
  <2> DEFINE j == call[t].jti
             n == call[t].stamp
  <2>1. j \in Jtis /\ n \in Nat
    BY DEF Reject, IInv, TypeOK, Calls
  <2>2. Purged(n)[j] # Absent
    BY <2>1 DEF Reject, RejectReplay, Present
  <2>3. /\ items[j] = Purged(n)[j]
        /\ PurgeDue(n) => items[j] >= n - TTL
    BY <2>1, <2>2, PurgedFacts DEF IInv, TypeOK
  <2>4. /\ items[j] <= grantedAt[j] /\ last - TTL <= grantedAt[j]
        /\ items[j] \in Nat /\ grantedAt[j] \in Nat \cup {Absent} /\ last \in Nat
    BY <2>1, <2>2, <2>3
       DEF IInv, StoreIsHistory, TimesPassed, PurgedUpTo, TypeOK, StoreTypeOK
  <2> QED
    BY <2>1, <2>3, <2>4, TTLAssumption DEF PurgeDue, Absent
<1> QED
  BY Inductive, <1>1, PTL DEF Spec, BoundedRejection

-----------------------------------------------------------------------------
\* What a purge leaves is the ledger with the entries that are left alone, and
\* every entry it drops has expired (purgeExpired).
LEMMA PurgeKeeps ==
    ASSUME IInv, NEW n \in Nat, n <= clock
    PROVE  /\ Present(Purged(n)) \in SUBSET Ledger!Held
           /\ Ledger!Keeps(Present(Purged(n)))
           /\ Ledger!Only(Present(Purged(n))) = Purged(n)
<1>1. /\ Purged(n) \in [Jtis -> Nat \cup {Absent}]
      /\ \A j \in Jtis : Purged(n)[j] # Absent => Purged(n)[j] = items[j]
      /\ \A j \in Jtis : items[j] # Absent /\ Purged(n)[j] = Absent => n - items[j] > TTL
  BY PurgedFacts DEF IInv, TypeOK
<1>2. Present(Purged(n)) \in SUBSET Ledger!Held
  BY <1>1 DEF Present, Ledger!Held, Ledger!Never, Absent
<1>3. Ledger!Keeps(Present(Purged(n)))
  BY <1>1, TTLAssumption
     DEF IInv, TypeOK, StoreTypeOK, Present, Ledger!Keeps, Ledger!Held, Ledger!Expired,
         Ledger!Never, Absent
<1>4. Ledger!Only(Present(Purged(n))) = Purged(n)
  BY <1>1 DEF Present, Ledger!Only, Ledger!Never, Absent
<1> QED
  BY <1>2, <1>3, <1>4

\* The cache implements the ledger: every step of it is a step of the ledger or
\* leaves it alone, for every number of callers, TTL and capacity.
THEOREM CacheIsLedger == Spec => ImplementsLedger
<1>1. Init => Ledger!Init
  BY DEF Init, StoreInit, Ledger!Init, Ledger!Never, Absent
<1>2. IInv /\ [Next]_vars => [Ledger!Next]_<<items, clock>>
  <2> SUFFICES ASSUME IInv, [Next]_vars PROVE [Ledger!Next]_<<items, clock>>
    OBVIOUS
  <2>1. CASE Tick
    BY <2>1 DEF Tick, store, IInv, TypeOK, Ledger!Next, Ledger!Pass
  <2>2. ASSUME NEW t \in Threads, NEW j \in Jtis, Enter(t, j)
        PROVE  UNCHANGED <<items, clock>>
    BY <2>2 DEF Enter, store
  <2>3. ASSUME NEW t \in Threads, Accept(t) PROVE Ledger!Grant
    <3> DEFINE j == call[t].jti
               n == call[t].stamp
               kept == Present(Purged(n))
    <3>1. j \in Jtis /\ n \in Nat /\ n <= clock /\ n \in 0..clock
      BY <2>3 DEF Accept, IInv, TypeOK, Calls, TimesPassed
    <3>2. kept \in SUBSET Ledger!Held /\ Ledger!Keeps(kept) /\ Ledger!Only(kept) = Purged(n)
      BY <3>1, PurgeKeeps
    <3>3. j \in Jtis \ kept /\ UNCHANGED clock
      BY <2>3, <3>1 DEF Accept, RecordNew
    <3>4. CASE ~Full(Purged(n))
      <4>1. items' = [Ledger!Only(kept) EXCEPT ![j] = n] /\ ~Ledger!Full(kept)
        BY <2>3, <3>2, <3>4 DEF Accept, RecordNew, Full, Ledger!Full, Cardinality, Ledger!Cardinality
      <4> QED
        BY <4>1, <3>1, <3>2, <3>3 DEF Ledger!Grant
    <3>5. CASE Full(Purged(n))
      <4>1. PICK v \in Oldest(Purged(n)) : items' = [Purged(n) EXCEPT ![v] = Absent, ![j] = n]
        BY <2>3, <3>5 DEF Accept, RecordNew
      <4>2. /\ v \in kept /\ Ledger!Full(kept)
            /\ items' = [Ledger!Only(kept) EXCEPT ![v] = Ledger!Never, ![j] = n]
        BY <4>1, <3>2, <3>5 DEF Oldest, Full, Ledger!Full, Ledger!Never, Absent,
                             Cardinality, Ledger!Cardinality
      <4>3. \A l \in kept : items[v] <= items[l]
        BY <4>1, <3>1, PurgedFacts DEF Oldest, Present, IInv, TypeOK
      <4> QED
        BY <4>2, <4>3, <3>1, <3>2, <3>3 DEF Ledger!Grant
    <3> QED
      BY <3>4, <3>5
  <2>4. ASSUME NEW t \in Threads, Reject(t) PROVE Ledger!Refuse
    <3> DEFINE n == call[t].stamp
               kept == Present(Purged(n))
    <3>1. n \in Nat /\ n <= clock
      BY <2>4 DEF Reject, IInv, TypeOK, Calls, TimesPassed
    <3>2. kept \in SUBSET Ledger!Held /\ Ledger!Keeps(kept) /\ Ledger!Only(kept) = Purged(n)
      BY <3>1, PurgeKeeps
    <3>3. kept # {} /\ items' = Purged(n) /\ UNCHANGED clock
      BY <2>4 DEF Reject, RejectReplay
    <3> QED
      BY <3>2, <3>3 DEF Ledger!Refuse
  <2>5. CASE Restart
    BY <2>5 DEF Restart, Ledger!Next, Ledger!Crash, Ledger!Never, Absent
  <2>6. CASE UNCHANGED vars
    BY <2>6 DEF vars, store
  <2> QED
    BY <2>1, <2>2, <2>3, <2>4, <2>5, <2>6 DEF Next, Ledger!Next
<1> QED
  BY Inductive, <1>1, <1>2, PTL DEF Spec, ImplementsLedger, Ledger!Spec

-----------------------------------------------------------------------------
\* The jtis accepted no earlier than the time the acceptance of j had read.
Flood(j) == {k \in Jtis \ {j} : grantedAt[k] >= grantedStamp[j]}

\* Only finitely many jtis were ever accepted, those that were evicted among
\* them: the sets counted below are finite although Jtis need not be.
FinitelyGranted ==
    /\ IsFiniteSet({k \in Jtis : grantedAt[k] # Absent})
    /\ \A j \in evicted : grantedStamp[j] # Absent

FloodInv == FinitelyGranted /\ EvictionNeedsFlood

LEMMA InitFloodInv == Init => FloodInv
<1> SUFFICES ASSUME Init PROVE FloodInv
  OBVIOUS
<1>1. {k \in Jtis : grantedAt[k] # Absent} = {} /\ evicted = {}
  BY DEF Init
<1> QED
  BY <1>1, FS_EmptySet DEF FloodInv, FinitelyGranted, EvictionNeedsFlood

\* A step that accepts nothing and evicts nothing.
LEMMA NoFlood == ASSUME FloodInv, UNCHANGED <<grantedAt, grantedStamp, evicted>> PROVE FloodInv'
  BY DEF FloodInv, FinitelyGranted, EvictionNeedsFlood

\* A full store gives up one entry, the oldest, and every entry it keeps was
\* accepted no earlier than the one it gives up (evictOldest).
LEMMA VictimIsOldest ==
    ASSUME IInv, NEW n \in Nat, NEW j \in Jtis, RecordNew(j, n), NEW v \in Victims(n)
    PROVE  /\ v \in Jtis \ {j} /\ Full(Purged(n)) /\ v \in Present(Purged(n))
           /\ Victims(n) = {v}
           /\ grantedStamp[v] \in Nat
           /\ \A k \in Present(Purged(n)) : grantedAt[k] >= grantedStamp[v]
<1>1. /\ Purged(n) \in [Jtis -> Nat \cup {Absent}]
      /\ \A k \in Jtis : Purged(n)[k] # Absent => Purged(n)[k] = items[k]
  BY PurgedFacts DEF IInv, TypeOK
<1>2. v \in Present(Purged(n)) /\ v \notin Present(items') /\ v \in Jtis
  BY DEF Victims, Present
<1>3. v # j
  BY <1>2 DEF RecordNew
<1>4. Full(Purged(n))
  <2> SUFFICES ASSUME ~Full(Purged(n)) PROVE FALSE
    OBVIOUS
  <2>1. items' = [Purged(n) EXCEPT ![j] = n]
    BY DEF RecordNew
  <2> QED
    BY <1>1, <1>2, <1>3, <2>1 DEF Present
<1>5. PICK w \in Oldest(Purged(n)) : items' = [Purged(n) EXCEPT ![w] = Absent, ![j] = n]
  BY <1>4 DEF RecordNew
<1>6. \A k \in Present(Purged(n)) \ {w} : k \in Present(items')
  BY <1>1, <1>5 DEF Present, Absent
<1>7. w = v /\ Victims(n) = {v}
  BY <1>2, <1>6 DEF Victims
<1>8. \A k \in Present(Purged(n)) : Purged(n)[v] <= Purged(n)[k]
  BY <1>7 DEF Oldest
<1>9. \A k \in Present(Purged(n)) : Purged(n)[k] = grantedStamp[k]
                                    /\ grantedStamp[k] <= grantedAt[k] /\ k \in Jtis
  BY <1>1 DEF Present, IInv, StoreIsHistory, TimesPassed
<1>10. grantedStamp[v] \in Nat
  BY <1>1, <1>2, <1>9 DEF Present
<1>11. \A k \in Present(Purged(n)) : grantedAt[k] >= grantedStamp[v]
  <2> SUFFICES ASSUME NEW k \in Present(Purged(n)) PROVE grantedStamp[v] <= grantedAt[k]
    BY <1>9, <1>10 DEF IInv, TypeOK, Absent
  <2>1. grantedStamp[v] <= grantedStamp[k] /\ grantedStamp[k] <= grantedAt[k]
    BY <1>2, <1>8, <1>9
  <2>2. grantedStamp[k] \in Int /\ grantedAt[k] \in Int
    BY <1>9 DEF IInv, TypeOK, Absent
  <2> QED
    BY <1>10, <2>1, <2>2
<1> QED
  BY <1>2, <1>3, <1>4, <1>7, <1>10, <1>11

LEMMA AcceptFloodInv ==
    ASSUME IInv, FloodInv, NEW t \in Threads, Accept(t)
    PROVE  FloodInv'
<1> DEFINE j == call[t].jti
           n == call[t].stamp
<1>1. /\ j \in Jtis /\ n \in Nat /\ n <= clock /\ clock \in Nat /\ RecordNew(j, n)
  BY DEF Accept, IInv, TypeOK, Calls, TimesPassed
<1>2. /\ grantedAt' = [grantedAt EXCEPT ![j] = clock]
      /\ grantedStamp' = [grantedStamp EXCEPT ![j] = n]
      /\ evicted' = (evicted \cup Victims(n)) \ {j}
  BY DEF Accept
<1>3. /\ \A k \in Jtis \ {j} : grantedAt'[k] = grantedAt[k] /\ grantedStamp'[k] = grantedStamp[k]
      /\ grantedAt'[j] = clock
      /\ \A k \in Jtis : grantedAt[k] \in Nat \cup {Absent} /\ grantedAt[k] <= clock
  BY <1>1, <1>2 DEF IInv, TypeOK, TimesPassed
<1>4. IsFiniteSet({k \in Jtis : grantedAt'[k] # Absent})
  <2> DEFINE S == {k \in Jtis : grantedAt[k] # Absent}
  <2>1. IsFiniteSet(S \cup {j})
    BY FS_AddElement DEF FloodInv, FinitelyGranted
  <2>2. {k \in Jtis : grantedAt'[k] # Absent} \in SUBSET (S \cup {j})
    BY <1>3
  <2> QED
    BY <2>1, <2>2, FS_Subset
<1>5. \A k \in evicted' : k \in Jtis \ {j} /\ grantedStamp'[k] = grantedStamp[k]
                            /\ grantedStamp[k] \in Nat
  <2> SUFFICES ASSUME NEW k \in evicted'
               PROVE  k \in Jtis \ {j} /\ grantedStamp[k] \in Nat
    BY <1>3
  <2>1. CASE k \in Victims(n)
    BY <1>1, <2>1, VictimIsOldest
  <2>2. CASE k \in evicted \ {j}
    BY <2>2 DEF FloodInv, FinitelyGranted, IInv, TypeOK
  <2> QED
    BY <1>2, <2>1, <2>2
<1>6. FinitelyGranted'
  BY <1>4, <1>5 DEF FinitelyGranted, Absent
<1>7. ASSUME NEW k \in evicted' PROVE Cardinality(Flood(k)') >= MaxEntries
  <2>1. k \in Jtis \ {j} /\ grantedStamp'[k] = grantedStamp[k] /\ grantedStamp[k] \in Nat
    BY <1>5, <1>7
  <2>2. Flood(k)' \in SUBSET {l \in Jtis : grantedAt'[l] # Absent}
    BY <2>1 DEF Flood, Absent
  <2>3. IsFiniteSet(Flood(k)') /\ Cardinality(Flood(k)') \in Nat
    BY <1>4, <2>2, FS_Subset, FS_CardinalityType
  <2>4. CASE k \in Victims(n)
    <3> DEFINE P == Present(Purged(n))
    <3>1. /\ Full(Purged(n)) /\ k \in P /\ j \notin P /\ P \subseteq Jtis
          /\ \A l \in P : grantedAt[l] >= grantedStamp[k]
      BY <1>1, <2>4, VictimIsOldest DEF RecordNew, Present
    <3>2. (P \ {k}) \cup {j} \in SUBSET Flood(k)'
      <4>1. grantedAt'[j] >= grantedStamp[k]
        <5>1. k \in Jtis /\ grantedStamp[k] <= grantedAt[k] /\ grantedAt[k] <= clock
          BY <2>1 DEF IInv, TimesPassed
        <5>2. grantedAt[k] \in Int
          BY <5>1 DEF IInv, TypeOK, Absent
        <5> QED
          BY <1>1, <1>3, <2>1, <5>1, <5>2
      <4> QED
        BY <1>1, <1>3, <2>1, <3>1, <4>1 DEF Flood
    <3>3. IsFiniteSet((P \ {k}) \cup {j})
      BY <2>3, <3>2, FS_Subset
    <3>4. IsFiniteSet(P \ {k}) /\ j \notin P \ {k}
      BY <3>1, <3>3, FS_Subset
    <3>5. Cardinality((P \ {k}) \cup {j}) = Cardinality(P \ {k}) + 1
      BY <3>4, FS_AddElement
    <3>6. (P \ {k}) \cup {k} = P /\ k \notin P \ {k}
      BY <3>1
    <3>7. Cardinality(P) = Cardinality(P \ {k}) + 1
      BY <3>4, <3>6, FS_AddElement
    <3>8. Cardinality((P \ {k}) \cup {j}) <= Cardinality(Flood(k)')
      BY <2>3, <3>2, FS_Subset
    <3>9. Cardinality(P) >= MaxEntries
      BY <3>1 DEF Full
    <3>10. Cardinality(P \ {k}) \in Nat
      BY <3>4, FS_CardinalityType
    <3> QED
      BY <2>3, <3>5, <3>7, <3>8, <3>9, <3>10, MaxEntriesAssumption
  <2>5. CASE k \in evicted
    <3>1. Flood(k) \in SUBSET Flood(k)'
      <4> SUFFICES ASSUME NEW l \in Jtis \ {k}, grantedAt[l] >= grantedStamp[k]
                   PROVE  grantedAt'[l] >= grantedStamp[k]
        BY <2>1 DEF Flood
      <4>1. CASE l = j
        BY <1>1, <1>3, <2>1, <4>1 DEF Absent
      <4>2. CASE l # j
        BY <1>3, <4>2
      <4> QED
        BY <4>1, <4>2
    <3>2. Cardinality(Flood(k)) <= Cardinality(Flood(k)') /\ Cardinality(Flood(k)) \in Nat
      BY <2>3, <3>1, FS_Subset, FS_CardinalityType
    <3>3. Cardinality(Flood(k)) >= MaxEntries
      BY <2>5 DEF FloodInv, EvictionNeedsFlood, Flood
    <3> QED
      BY <2>3, <3>2, <3>3, MaxEntriesAssumption
  <2> QED
    BY <1>2, <2>4, <2>5
<1> QED
  BY <1>6, <1>7 DEF FloodInv, EvictionNeedsFlood, Flood

\* An unexpired entry is given up only when MaxEntries other jtis were accepted
\* no earlier than its own, for every capacity and however late the callers are
\* (evictOldest): callers with old times cannot push a newer entry out.
THEOREM EvictionsNeedFlood == Spec => []EvictionNeedsFlood
<1>1. FloodInv /\ IInv /\ [Next]_vars => FloodInv'
  <2> SUFFICES ASSUME FloodInv, IInv, [Next]_vars PROVE FloodInv'
    OBVIOUS
  <2>1. ASSUME NEW t \in Threads, Accept(t) PROVE FloodInv'
    BY <2>1, AcceptFloodInv
  <2>2. CASE UNCHANGED vars \/ Tick \/ Restart \/ (\E t \in Threads : Reject(t))
               \/ (\E t \in Threads, j \in Jtis : Enter(t, j))
    BY <2>2, NoFlood DEF vars, history, Tick, Restart, Reject, Enter
  <2> QED
    BY <2>1, <2>2 DEF Next
<1>2. FloodInv => EvictionNeedsFlood
  BY DEF FloodInv
<1> QED
  BY Inductive, InitFloodInv, <1>1, <1>2, PTL DEF Spec
=============================================================================
