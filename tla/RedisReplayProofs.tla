------------------------- MODULE RedisReplayProofs -------------------------
(***************************************************************************)
(* The replay cache over Redis, for every number of goroutines, of jtis,   *)
(* of faults and of restarts.                                              *)
(*                                                                         *)
(* Each store still holds what it accepted within the window and did not   *)
(* give up (Held), which is why it accepts nothing twice.                  *)
(*                                                                         *)
(* The index stays near its capacity although goroutines evict each        *)
(* other's victims: of any goroutines that are evicting, one (the last to  *)
(* count) will have left no more than the capacity and what the goroutines *)
(* outside the group are still to account for (EvictionsSuffice).          *)
(***************************************************************************)
EXTENDS RedisReplay, FiniteSetTheorems, FunctionTheorems, TLAPS

\* What Redis accepted is claimed for what is left of the window, and what the
\* store accepted is in it.
Held ==
    \A j \in Jtis :
        /\ claimed[j] # Absent => claimed[j] <= clock
        /\ claimed[j] # Absent /\ j \notin deleted => left[j] >= TTL - (clock - claimed[j])
        /\ Recent(kept[j]) /\ j \notin evicted => items[j] = kept[j]

\* A time that was read, or recorded, has passed.
Passed ==
    /\ \A t \in Threads : call[t].time <= clock
    /\ \A j \in Jtis : items[j] <= clock

-----------------------------------------------------------------------------
Late == {t \in Threads : call[t].at \in {"card", "range", "del", "rem"}}
Evicting == {t \in Threads : call[t].at \in {"range", "del", "rem"}}

\* The entries a call is to evict.
Doomed(c) == {c.victims[k] : k \in DOMAIN c.victims}

\* The capacity, and an entry for each goroutine that failed or died on its way.
Room == MaxEntries + faults + restarts * Cardinality(Threads)

\* When call c has evicted from index I what it means to, n entries remain at most.
LeavesAtMost(c, I, n) ==
    IF c.at = "range" THEN Cardinality(I) <= n + c.excess
    ELSE Cardinality(I \ Doomed(c)) <= n

EvictionsSuffice ==
    \A U \in SUBSET Evicting :
        U # {} => \E t \in U : LeavesAtMost(call[t], Indexed, Room + Cardinality(Late \ U))

\* An eviction has something to evict.
HasExcess == \A t \in Threads : call[t].at = "range" => call[t].excess > 0

IInv == TypeOK /\ IsFiniteSet(Indexed) /\ Held /\ Passed
IndexInv == HasExcess /\ EvictionsSuffice /\ IndexBounded

-----------------------------------------------------------------------------
(* Types.                                                                  *)

WellFormed(c) ==
    /\ c.at # "idle" => c.jti \in Jtis
    /\ c.at = "idle" => c = Idle
    /\ c.at \in {"del", "rem"} => c.victims # <<>>

\* A goroutine is at one of its stages.
LEMMA CallTyped ==
    ASSUME TypeOK, NEW t \in Threads
    PROVE  /\ call[t] \in Calls /\ WellFormed(call[t])
           /\ call[t].at \in Stages /\ call[t].time \in 0..MaxTime /\ call[t].excess \in Nat
           /\ call[t].victims \in Seq(Jtis) /\ call[t].time \in Nat
           /\ call[t].at # "idle" => call[t].jti \in Jtis
  BY BoundAssumption DEF TypeOK, Calls, WellFormed

LEMMA IdleTyped == Idle \in Calls /\ WellFormed(Idle) /\ Idle.at = "idle"
<1>1. <<>> \in Seq(Jtis)
  OBVIOUS
<1> QED
  BY <1>1, BoundAssumption DEF Idle, Calls, WellFormed, Stages

\* A step of one goroutine.
LEMMA CallsStayTyped ==
    ASSUME TypeOK, NEW t \in Threads, NEW c \in Calls, WellFormed(c),
           call' = [call EXCEPT ![t] = c]
    PROVE  /\ call' \in [Threads -> Calls] /\ call'[t] = c
           /\ \A u \in Threads \ {t} : call'[u] = call[u]
           /\ \A u \in Threads : WellFormed(call'[u])
<1>1. \A u \in Threads : WellFormed(call[u])
  BY CallTyped
<1> QED
  BY <1>1 DEF TypeOK

\* What is not a goroutine's own.
SharedOK ==
    /\ StoreTypeOK
    /\ clock \in 0..MaxTime
    /\ left \in [Jtis -> 0..TTL]
    /\ index \in [Jtis -> 0..MaxTime \cup {Absent}]
    /\ faults \in 0..MaxFaults /\ restarts \in 0..MaxRestarts
    /\ claimed \in [Jtis -> 0..MaxTime \cup {Absent}]
    /\ kept \in [Jtis -> 0..MaxTime \cup {Absent}]
    /\ deleted \subseteq Jtis /\ evicted \subseteq Jtis /\ unanswered \subseteq Jtis

LEMMA TypeParts ==
    TypeOK <=> /\ SharedOK /\ call \in [Threads -> Calls]
               /\ \A t \in Threads : WellFormed(call[t])
  BY DEF TypeOK, SharedOK, WellFormed

\* A step of t alone: it goes to a stage at a time.
StepsTo(t, stage, time) ==
    /\ call' \in [Threads -> Calls] /\ \A u \in Threads \ {t} : call'[u] = call[u]
    /\ \A u \in Threads : WellFormed(call'[u])
    /\ call'[t].at = stage /\ call'[t].time = time

LEMMA Returns ==
    ASSUME TypeOK, NEW t \in Threads, Return(t)
    PROVE  StepsTo(t, "idle", 0)
<1>1. Idle \in Calls /\ WellFormed(Idle) /\ Idle.at = "idle" /\ Idle.time = 0
  BY IdleTyped DEF Idle
<1>2. call' = [call EXCEPT ![t] = Idle]
  BY DEF Return
<1> QED
  BY <1>1, <1>2, CallsStayTyped DEF StepsTo

\* Claim, SetFails: on to the next stage, at a time that is read.
LEMMA Reads ==
    ASSUME TypeOK, NEW t \in Threads, call[t].at # "idle",
           NEW stage \in Stages \ {"idle", "del", "rem"},
           call' = [call EXCEPT ![t].at = stage, ![t].time = clock]
    PROVE  StepsTo(t, stage, clock)
<1> DEFINE c == [call[t] EXCEPT !.at = stage, !.time = clock]
<1>1. clock \in 0..MaxTime
  BY DEF TypeOK
<1>2. c \in Calls /\ c.at = stage /\ c.time = clock /\ c.jti = call[t].jti
  BY <1>1, CallTyped DEF Calls
<1>3. WellFormed(c)
  BY <1>2, CallTyped DEF WellFormed
<1>4. call' = [call EXCEPT ![t] = c]
  OBVIOUS
<1> HIDE DEF c
<1> QED
  BY <1>2, <1>3, <1>4, CallsStayTyped DEF StepsTo

\* Add, Del: on to the next stage.
LEMMA GoesOn ==
    ASSUME TypeOK, NEW t \in Threads, call[t].at # "idle",
           NEW stage \in Stages \ {"idle"}, stage \in {"del", "rem"} => call[t].victims # <<>>,
           Goto(t, stage)
    PROVE  StepsTo(t, stage, call[t].time) /\ call'[t].victims = call[t].victims
<1> DEFINE c == [call[t] EXCEPT !.at = stage]
<1>1. /\ c \in Calls /\ c.at = stage /\ c.time = call[t].time /\ c.jti = call[t].jti
      /\ c.victims = call[t].victims
  BY CallTyped DEF Calls
<1>2. WellFormed(c)
  BY <1>1, CallTyped DEF WellFormed
<1>3. call' = [call EXCEPT ![t] = c]
  BY DEF Goto
<1> HIDE DEF c
<1> QED
  BY <1>1, <1>2, <1>3, CallsStayTyped DEF StepsTo

LEMMA EnterSteps ==
    ASSUME TypeOK, NEW t \in Threads, NEW j \in Jtis, Enter(t, j)
    PROVE  StepsTo(t, "set", call[t].time)
<1> DEFINE c == [call[t] EXCEPT !.at = "set", !.jti = j]
<1>1. c \in Calls /\ c.at = "set" /\ c.time = call[t].time /\ c.jti = j
  BY CallTyped DEF Calls, Stages
<1>2. call' = [call EXCEPT ![t] = c]
  BY DEF Enter
<1>3. WellFormed(c)
  BY <1>1 DEF WellFormed
<1> HIDE DEF c
<1> QED
  BY <1>1, <1>2, <1>3, CallsStayTyped DEF StepsTo

LEMMA ClaimSteps ==
    ASSUME TypeOK, NEW t \in Threads, Claim(t)
    PROVE  StepsTo(t, "add", clock)
  BY Reads DEF Claim, At, Stages

LEMMA SetFailsSteps ==
    ASSUME TypeOK, NEW t \in Threads, SetFails(t)
    PROVE  StepsTo(t, "memory", clock)
  BY Reads DEF SetFails, At, Stages

LEMMA AddSteps ==
    ASSUME TypeOK, NEW t \in Threads, Add(t)
    PROVE  StepsTo(t, "card", call[t].time)
  BY GoesOn DEF Add, At, Stages

\* A goroutine that counts too many is to evict the excess.
LEMMA CardSteps ==
    ASSUME TypeOK, IsFiniteSet(Indexed), NEW t \in Threads, Card(t)
    PROVE  \/ StepsTo(t, "idle", 0) /\ Fault
           \/ /\ StepsTo(t, "idle", 0) /\ UNCHANGED bounds
              /\ Cardinality(Indexed) <= MaxEntries
           \/ /\ StepsTo(t, "range", call[t].time) /\ UNCHANGED bounds
              /\ call'[t].excess > 0
              /\ Cardinality(Indexed) = MaxEntries + call'[t].excess
<1> DEFINE excess == Cardinality(Indexed) - MaxEntries
           c == [call[t] EXCEPT !.at = "range", !.excess = excess]
<1>1. CASE Return(t) /\ (Fault \/ (UNCHANGED bounds /\ ~(Cardinality(Indexed) > MaxEntries)))
  <2>1. Cardinality(Indexed) \in Nat /\ MaxEntries \in Nat
    BY FS_CardinalityType, MaxEntriesAssumption
  <2> QED
    BY <1>1, <2>1, Returns
<1>2. CASE /\ Cardinality(Indexed) > MaxEntries /\ UNCHANGED bounds
           /\ call' = [call EXCEPT ![t] = c]
  <2>1. Cardinality(Indexed) \in Nat /\ MaxEntries \in Nat
    BY FS_CardinalityType, MaxEntriesAssumption
  <2>2. excess \in Nat /\ excess > 0 /\ Cardinality(Indexed) = MaxEntries + excess
    BY <1>2, <2>1
  <2> HIDE DEF excess
  <2>3. call[t].at = "card" /\ call[t] \in Calls /\ call[t].jti \in Jtis
    BY CallTyped DEF Card, At
  <2>4. c \in Calls /\ c.at = "range" /\ c.time = call[t].time /\ c.jti = call[t].jti
        /\ c.excess = excess
    BY <2>2, <2>3 DEF Calls, Stages
  <2>5. WellFormed(c)
    BY <2>3, <2>4 DEF WellFormed
  <2> HIDE DEF c
  <2> QED
    BY <1>2, <2>2, <2>4, <2>5, CallsStayTyped DEF StepsTo
<1> QED
  BY <1>1, <1>2 DEF Card

\* The members with the lowest scores are as many as are asked for.
LEMMA LowestFacts ==
    ASSUME NEW n \in Nat, NEW s \in Lowest(n)
    PROVE  /\ s \in Seq(Jtis) /\ DOMAIN s = 1..n /\ Len(s) = n
           /\ \A k \in 1..n : s[k] \in Indexed
           /\ \A k, l \in 1..n : s[k] = s[l] => k = l
<1>1. s \in [1..n -> Indexed] /\ Indexed \subseteq Jtis
  BY DEF Lowest, Indexed
<1>2. s \in Seq(Jtis) /\ DOMAIN s = 1..n /\ Len(s) = n
  BY <1>1
<1>3. \A k \in 1..n : \A l \in 1..(k - 1) : s[k] # s[l]
  BY DEF Lowest
<1>4. ASSUME NEW k \in 1..n, NEW l \in 1..n, k # l PROVE s[k] # s[l]
  <2>1. l \in 1..(k - 1) \/ k \in 1..(l - 1)
    BY <1>4
  <2> QED
    BY <1>3, <2>1
<1> QED
  BY <1>1, <1>2, <1>4

LEMMA PickSteps ==
    ASSUME TypeOK, IsFiniteSet(Indexed), NEW t \in Threads, PickVictims(t)
    PROVE  \/ StepsTo(t, "idle", 0) /\ Fault
           \/ /\ StepsTo(t, "idle", 0) /\ UNCHANGED bounds
              /\ call[t].excess = 0 \/ Cardinality(Indexed) = 0
           \/ /\ StepsTo(t, "del", call[t].time) /\ UNCHANGED bounds
              /\ call'[t].victims \in Lowest(Smaller(call[t].excess, Cardinality(Indexed)))
<1> DEFINE n == Smaller(call[t].excess, Cardinality(Indexed))
<1>1. /\ n \in Nat
      /\ n = 0 => call[t].excess = 0 \/ Cardinality(Indexed) = 0
      /\ call[t] \in Calls /\ call[t].at = "range" /\ call[t].jti \in Jtis
  <2>1. call[t].excess \in Nat /\ Cardinality(Indexed) \in Nat
    BY CallTyped, FS_CardinalityType
  <2>2. /\ n \in Nat
        /\ n = 0 => call[t].excess = 0 \/ Cardinality(Indexed) = 0
    BY <2>1 DEF Smaller
  <2>3. call[t].at = "range"
    BY DEF PickVictims, At
  <2> QED
    BY <2>2, <2>3, CallTyped
<1> HIDE DEF n
<1>2. CASE Fault /\ Return(t)
  BY <1>2, Returns
<1>3. ASSUME UNCHANGED bounds, NEW s \in Lowest(n),
             IF s = <<>> THEN Return(t)
             ELSE call' = [call EXCEPT ![t].at = "del", ![t].victims = s]
      PROVE  \/ /\ StepsTo(t, "idle", 0) /\ UNCHANGED bounds
                /\ call[t].excess = 0 \/ Cardinality(Indexed) = 0
             \/ /\ StepsTo(t, "del", call[t].time) /\ UNCHANGED bounds
                /\ call'[t].victims \in Lowest(n)
  <2>1. s \in Seq(Jtis) /\ Len(s) = n
    BY <1>1, LowestFacts
  <2>2. CASE s = <<>>
    <3>1. n = 0
      BY <2>1, <2>2
    <3> QED
      BY <1>1, <1>3, <2>2, <3>1, Returns
  <2>3. CASE s # <<>>
    <3> DEFINE c == [call[t] EXCEPT !.at = "del", !.victims = s]
    <3>1. c \in Calls /\ c.at = "del" /\ c.time = call[t].time /\ c.jti = call[t].jti
          /\ c.victims = s
      BY <1>1, <2>1 DEF Calls, Stages
    <3>2. WellFormed(c)
      BY <1>1, <2>3, <3>1 DEF WellFormed
    <3>3. call' = [call EXCEPT ![t] = c]
      BY <1>3, <2>3
    <3> HIDE DEF c
    <3> QED
      BY <1>3, <3>1, <3>2, <3>3, CallsStayTyped DEF StepsTo
  <2> QED
    BY <2>2, <2>3
<1>4. \/ Fault /\ Return(t)
      \/ /\ UNCHANGED bounds
         /\ \E s \in Lowest(n) :
               IF s = <<>> THEN Return(t)
               ELSE call' = [call EXCEPT ![t].at = "del", ![t].victims = s]
  BY DEF PickVictims, n
<1>5. CASE Fault /\ Return(t)
  BY <1>2, <1>5 DEF n
<1> QED
  BY <1>3, <1>4, <1>5 DEF n

LEMMA DelSteps ==
    ASSUME TypeOK, NEW t \in Threads, Del(t)
    PROVE  /\ StepsTo(t, "rem", call[t].time) /\ call'[t].victims = call[t].victims
           /\ call[t].victims \in Seq(Jtis) /\ call[t].victims # <<>>
<1>1. call[t].victims \in Seq(Jtis) /\ call[t].victims # <<>> /\ call[t].at = "del"
  BY CallTyped DEF Del, At, WellFormed
<1> QED
  BY <1>1, GoesOn DEF Del, Stages

LEMMA RemSteps ==
    ASSUME TypeOK, NEW t \in Threads, Rem(t)
    PROVE  /\ call[t].victims \in Seq(Jtis) /\ call[t].victims # <<>>
           /\ \/ StepsTo(t, "idle", 0) /\ Tail(call[t].victims) = <<>>
              \/ /\ StepsTo(t, "del", call[t].time)
                 /\ call'[t].victims = Tail(call[t].victims)
<1>1. /\ call[t].victims \in Seq(Jtis) /\ call[t].victims # <<>> /\ call[t].at = "rem"
      /\ call[t] \in Calls /\ call[t].jti \in Jtis
  BY CallTyped DEF Rem, At, WellFormed
<1>2. CASE Tail(call[t].victims) = <<>>
  BY <1>1, <1>2, Returns DEF Rem
<1>3. CASE Tail(call[t].victims) # <<>>
  <2> DEFINE rest == Tail(call[t].victims)
             c == [call[t] EXCEPT !.at = "del", !.victims = rest]
  <2>1. rest \in Seq(Jtis)
    BY <1>1
  <2>2. call' = [call EXCEPT ![t] = c]
    BY <1>3 DEF Rem
  <2>3. rest # <<>>
    BY <1>3
  <2> HIDE DEF rest
  <2>4. c \in Calls /\ c.at = "del" /\ c.time = call[t].time /\ c.jti = call[t].jti
        /\ c.victims = rest
    BY <1>1, <2>1 DEF Calls, Stages
  <2>5. WellFormed(c)
    BY <1>1, <2>3, <2>4 DEF WellFormed
  <2> HIDE DEF c
  <2> QED
    BY <1>1, <2>2, <2>4, <2>5, CallsStayTyped DEF StepsTo, rest
<1> QED
  BY <1>2, <1>3

-----------------------------------------------------------------------------
(* The store and the index.                                                *)

\* A purge removes nothing younger than the window (purgeExpired).
LEMMA PurgedFacts ==
    ASSUME StoreTypeOK, NEW n \in Nat
    PROVE  /\ Purged(n) \in [Jtis -> Nat \cup {Absent}]
           /\ PurgeTime(n) \in Nat
           /\ \A j \in Jtis : Purged(n)[j] # Absent => Purged(n)[j] = items[j]
           /\ \A j \in Jtis : items[j] # Absent /\ Purged(n)[j] = Absent => n - items[j] > TTL
  BY TTLAssumption DEF StoreTypeOK, Purged, PurgeTime, PurgeDue, Absent

\* Marking j gives up the victims and what the purge removed, and nothing else
\* (markIfNewInMemory).
LEMMA RecordNewFacts ==
    ASSUME StoreTypeOK, NEW n \in Nat, NEW j \in Jtis, RecordNew(j, n)
    PROVE  /\ StoreTypeOK'
           /\ items'[j] = n /\ Purged(n)[j] = Absent
           /\ \A k \in Jtis \ {j} : items'[k] = Purged(n)[k] \/ items'[k] = Absent
           /\ \A k \in Jtis \ {j} : Purged(n)[k] # Absent /\ items'[k] = Absent
                                      => k \in Victims(n)
           /\ Victims(n) \subseteq Jtis
<1>1. /\ Purged(n) \in [Jtis -> Nat \cup {Absent}] /\ PurgeTime(n) \in Nat
      /\ Purged(n)[j] = Absent /\ last' = PurgeTime(n)
  BY PurgedFacts DEF RecordNew, Present
<1>2. \/ items' = [Purged(n) EXCEPT ![j] = n]
      \/ \E v \in Present(Purged(n)) : items' = [Purged(n) EXCEPT ![v] = Absent, ![j] = n]
  BY DEF RecordNew, Oldest
<1>3. /\ items' \in [Jtis -> Nat \cup {Absent}] /\ items'[j] = n
      /\ \A k \in Jtis \ {j} : items'[k] = Purged(n)[k] \/ items'[k] = Absent
  BY <1>1, <1>2 DEF Present
<1> QED
  BY <1>1, <1>3 DEF StoreTypeOK, Victims, Present

\* The index holds at most one entry more after an Add, and no more after a Rem.
LEMMA IndexGrows ==
    ASSUME TypeOK, IsFiniteSet(Indexed), NEW j \in Jtis,
           NEW score \in 0..MaxTime, index' \in {index, [index EXCEPT ![j] = score]}
    PROVE  /\ index' \in [Jtis -> 0..MaxTime \cup {Absent}]
           /\ Indexed' \subseteq Indexed \cup {j} /\ Indexed \subseteq Indexed'
           /\ IsFiniteSet(Indexed')
           /\ Cardinality(Indexed') <= Cardinality(Indexed) + 1
<1>1. /\ index' \in [Jtis -> 0..MaxTime \cup {Absent}]
      /\ Indexed' \subseteq Indexed \cup {j} /\ Indexed \subseteq Indexed'
  BY DEF TypeOK, Indexed, Absent
<1>2. /\ IsFiniteSet(Indexed \cup {j})
      /\ Cardinality(Indexed \cup {j})
           = IF j \in Indexed THEN Cardinality(Indexed) ELSE Cardinality(Indexed) + 1
  BY FS_AddElement
<1>3. /\ IsFiniteSet(Indexed') /\ Cardinality(Indexed') <= Cardinality(Indexed \cup {j})
  BY <1>1, <1>2, FS_Subset
<1>4. /\ Cardinality(Indexed) \in Nat /\ Cardinality(Indexed') \in Nat
      /\ Cardinality(Indexed \cup {j}) \in Nat
  BY <1>2, <1>3, FS_CardinalityType
<1> QED
  BY <1>1, <1>2, <1>3, <1>4

LEMMA IndexShrinks ==
    ASSUME TypeOK, IsFiniteSet(Indexed), NEW j \in Jtis,
           index' \in {index, [index EXCEPT ![j] = Absent]}
    PROVE  /\ index' \in [Jtis -> 0..MaxTime \cup {Absent}]
           /\ Indexed' \subseteq Indexed /\ Indexed \subseteq Indexed' \cup {j}
           /\ index' # index => Indexed' = Indexed \ {j}
           /\ index' = [index EXCEPT ![j] = Absent] => Indexed' = Indexed \ {j}
           /\ IsFiniteSet(Indexed')
<1>1. /\ index' \in [Jtis -> 0..MaxTime \cup {Absent}]
      /\ Indexed' \subseteq Indexed /\ Indexed \subseteq Indexed' \cup {j}
      /\ index' # index => Indexed' = Indexed \ {j}
      /\ index' = [index EXCEPT ![j] = Absent] => Indexed' = Indexed \ {j}
  BY DEF TypeOK, Indexed, Absent
<1> QED
  BY <1>1, FS_Subset

LEMMA HeadTyped ==
    ASSUME NEW s \in Seq(Jtis), s # <<>>
    PROVE  Head(s) \in Jtis /\ Head(s) = s[1] /\ 1 \in DOMAIN s
  OBVIOUS

-----------------------------------------------------------------------------
LEMMA InitTypeOK == Init => TypeOK /\ Indexed = {}
<1> SUFFICES ASSUME Init PROVE TypeOK /\ Indexed = {}
  OBVIOUS
<1>1. call \in [Threads -> Calls] /\ \A t \in Threads : WellFormed(call[t])
  BY IdleTyped DEF Init
<1>2. SharedOK
  BY TTLAssumption, BoundAssumption DEF Init, StoreInit, StoreTypeOK, SharedOK, Absent
<1>3. Indexed = {}
  BY DEF Init, Indexed
<1> QED
  BY <1>1, <1>2, <1>3, TypeParts

LEMMA CallsKept ==
    ASSUME TypeOK, NEW t \in Threads, NEW stage, NEW time, StepsTo(t, stage, time), SharedOK'
    PROVE  TypeOK'
  BY TypeParts DEF StepsTo, TypeOK, SharedOK, WellFormed

\* Every step keeps the types, and the index finite.
LEMMA NextTypeOK ==
    ASSUME TypeOK, IsFiniteSet(Indexed), [Next]_vars
    PROVE  TypeOK' /\ IsFiniteSet(Indexed')
<1> USE DEF bounds, redis, memory, history
<1>0. SharedOK /\ clock \in Nat
  BY TypeParts, BoundAssumption DEF TypeOK
<1>1. CASE Tick
  <2>1. SharedOK'
    <3>1. clock' \in 0..MaxTime
      BY <1>0, <1>1, BoundAssumption DEF Tick, SharedOK
    <3>2. left' \in [Jtis -> 0..TTL]
      <4>1. \A j \in Jtis : (IF left[j] > 0 THEN left[j] - 1 ELSE 0) \in 0..TTL
        BY <1>0, TTLAssumption DEF SharedOK
      <4> QED
        BY <1>1, <4>1 DEF Tick
    <3> QED
      BY <1>0, <1>1, <3>1, <3>2 DEF Tick, SharedOK, StoreTypeOK
  <2>2. UNCHANGED <<call, index>>
    BY <1>1 DEF Tick
  <2> QED
    BY <2>1, <2>2 DEF TypeOK, SharedOK, Indexed
<1>2. CASE Restart
  <2>1. SharedOK'
    <3>1. restarts' \in 0..MaxRestarts
      BY <1>0, <1>2, BoundAssumption DEF Restart, SharedOK
    <3>2. StoreTypeOK'
      BY <1>0, <1>2 DEF Restart, StoreTypeOK, Absent
    <3> QED
      BY <1>0, <1>2, <3>1, <3>2 DEF Restart, SharedOK
  <2>2. call' \in [Threads -> Calls] /\ (\A t \in Threads : call'[t] = Idle)
        /\ index' = index
    BY <1>2, IdleTyped DEF Restart
  <2> QED
    BY <2>1, <2>2, IdleTyped DEF TypeOK, SharedOK, Indexed, WellFormed
<1>3. ASSUME NEW t \in Threads, NEW j \in Jtis, Enter(t, j)
      PROVE  TypeOK' /\ IsFiniteSet(Indexed')
  <2>1. SharedOK' /\ index' = index
    BY <1>0, <1>3 DEF Enter, SharedOK, StoreTypeOK
  <2> QED
    BY <1>3, <2>1, EnterSteps, CallsKept DEF Indexed
<1>4. ASSUME NEW t \in Threads, Claim(t)
      PROVE  TypeOK' /\ IsFiniteSet(Indexed')
  <2>1. SharedOK' /\ index' = index
    <3>1. TTL \in 0..TTL /\ clock \in 0..MaxTime \cup {Absent}
      BY <1>0, TTLAssumption DEF SharedOK
    <3>2. left' \in [Jtis -> 0..TTL] /\ claimed' \in [Jtis -> 0..MaxTime \cup {Absent}]
      BY <1>0, <1>4, <3>1 DEF Claim, SharedOK
    <3> QED
      BY <1>0, <1>4, <3>2 DEF Claim, SharedOK, StoreTypeOK
  <2> QED
    BY <1>4, <2>1, ClaimSteps, CallsKept DEF Indexed
<1>5. ASSUME NEW t \in Threads, Refuse(t)
      PROVE  TypeOK' /\ IsFiniteSet(Indexed')
  <2>1. SharedOK' /\ index' = index
    BY <1>0, <1>5 DEF Refuse, SharedOK, StoreTypeOK
  <2> QED
    BY <1>5, <2>1, Returns, CallsKept DEF Refuse, Indexed
<1>6. ASSUME NEW t \in Threads, SetFails(t)
      PROVE  TypeOK' /\ IsFiniteSet(Indexed')
  <2>1. SharedOK' /\ index' = index
    BY <1>0, <1>6, TTLAssumption, BoundAssumption DEF SetFails, Fault, SharedOK, StoreTypeOK
  <2> QED
    BY <1>6, <2>1, SetFailsSteps, CallsKept DEF Indexed
<1>7. ASSUME NEW t \in Threads, Add(t)
      PROVE  TypeOK' /\ IsFiniteSet(Indexed')
  <2>1. /\ Jti(t) \in Jtis /\ call[t].time \in 0..MaxTime
        /\ index' \in {index, [index EXCEPT ![Jti(t)] = call[t].time]}
    BY <1>7, CallTyped DEF Add, At, Jti
  <2>2. index' \in [Jtis -> 0..MaxTime \cup {Absent}] /\ IsFiniteSet(Indexed')
    BY <2>1, IndexGrows
  <2>3. SharedOK'
    BY <1>0, <1>7, <2>2, BoundAssumption DEF Add, Fault, SharedOK, StoreTypeOK
  <2> QED
    BY <1>7, <2>2, <2>3, AddSteps, CallsKept
<1>8. ASSUME NEW t \in Threads, Card(t)
      PROVE  TypeOK' /\ IsFiniteSet(Indexed')
  <2>1. SharedOK' /\ index' = index
    BY <1>0, <1>8, BoundAssumption DEF Card, Fault, SharedOK, StoreTypeOK
  <2> QED
    BY <1>8, <2>1, CardSteps, CallsKept DEF Indexed
<1>9. ASSUME NEW t \in Threads, PickVictims(t)
      PROVE  TypeOK' /\ IsFiniteSet(Indexed')
  <2>1. SharedOK' /\ index' = index
    BY <1>0, <1>9, BoundAssumption DEF PickVictims, Fault, SharedOK, StoreTypeOK
  <2> QED
    BY <1>9, <2>1, PickSteps, CallsKept DEF Indexed
<1>10. ASSUME NEW t \in Threads, Del(t)
       PROVE  TypeOK' /\ IsFiniteSet(Indexed')
  <2>1. Head(call[t].victims) \in Jtis
    BY <1>10, DelSteps, HeadTyped
  <2>2. SharedOK' /\ index' = index
    BY <1>0, <1>10, <2>1, TTLAssumption, BoundAssumption
    DEF Del, Fault, SharedOK, StoreTypeOK
  <2> QED
    BY <1>10, <2>2, DelSteps, CallsKept DEF Indexed
<1>11. ASSUME NEW t \in Threads, Rem(t)
       PROVE  TypeOK' /\ IsFiniteSet(Indexed')
  <2>1. /\ Head(call[t].victims) \in Jtis
        /\ index' \in {index, [index EXCEPT ![Head(call[t].victims)] = Absent]}
    BY <1>11, RemSteps, HeadTyped DEF Rem
  <2>2. index' \in [Jtis -> 0..MaxTime \cup {Absent}] /\ IsFiniteSet(Indexed')
    BY <2>1, IndexShrinks
  <2>3. SharedOK'
    BY <1>0, <1>11, <2>2, BoundAssumption DEF Rem, Fault, SharedOK, StoreTypeOK
  <2> QED
    BY <1>11, <2>2, <2>3, RemSteps, CallsKept
<1>12. ASSUME NEW t \in Threads, Keep(t)
       PROVE  TypeOK' /\ IsFiniteSet(Indexed')
  <2>1. Jti(t) \in Jtis /\ call[t].time \in 0..MaxTime /\ call[t].time \in Nat
    BY <1>12, CallTyped DEF Keep, At, Jti
  <2>2. StoreTypeOK' /\ Victims(call[t].time) \subseteq Jtis
    BY <1>0, <1>12, <2>1, RecordNewFacts DEF Keep, SharedOK
  <2>3. SharedOK' /\ index' = index
    BY <1>0, <1>12, <2>1, <2>2 DEF Keep, SharedOK
  <2> QED
    BY <1>12, <2>3, Returns, CallsKept DEF Keep, Indexed
<1>13. ASSUME NEW t \in Threads, RefuseKept(t)
       PROVE  TypeOK' /\ IsFiniteSet(Indexed')
  <2>1. call[t].time \in Nat
    BY CallTyped
  <2>2. StoreTypeOK'
    BY <1>0, <1>13, <2>1, PurgedFacts DEF RefuseKept, RejectReplay, SharedOK, StoreTypeOK
  <2>3. SharedOK' /\ index' = index
    BY <1>0, <1>13, <2>2 DEF RefuseKept, SharedOK
  <2> QED
    BY <1>13, <2>3, Returns, CallsKept DEF RefuseKept, Indexed
<1>14. CASE UNCHANGED vars
  BY <1>14 DEF vars, TypeOK, StoreTypeOK, Indexed
<1> QED
  BY <1>1, <1>2, <1>3, <1>4, <1>5, <1>6, <1>7, <1>8, <1>9, <1>10, <1>11, <1>12, <1>13,
     <1>14 DEF Next

-----------------------------------------------------------------------------
(* What the stores hold.                                                   *)

\* The numbers of the state, for arithmetic.
LEMMA Numbers ==
    ASSUME TypeOK
    PROVE  /\ clock \in Nat /\ TTL \in Nat /\ TTL > 0 /\ Absent = -1
           /\ \A j \in Jtis : /\ left[j] \in Nat /\ left[j] <= TTL
                              /\ items[j] \in Int /\ items[j] >= -1
                              /\ claimed[j] \in Int /\ kept[j] \in Int
           /\ \A t \in Threads : call[t].time \in Nat
  BY TTLAssumption, BoundAssumption, CallTyped DEF TypeOK, StoreTypeOK, Absent

\* A step that leaves both stores alone.
LEMMA StoresUntouched ==
    ASSUME IInv, NEW t \in Threads, NEW stage, NEW time, StepsTo(t, stage, time),
           time <= clock, UNCHANGED <<clock, left, items, claimed, kept, deleted, evicted>>
    PROVE  Held' /\ Passed'
<1>1. Held'
  BY DEF IInv, Held, Recent
<1>2. \A u \in Threads : call'[u].time <= clock
  BY DEF IInv, Passed, StepsTo
<1> QED
  BY <1>1, <1>2 DEF IInv, Passed

LEMMA TickHolds == ASSUME IInv, Tick PROVE Held' /\ Passed'
<1>1. /\ clock' = clock + 1 /\ call' = call /\ items' = items /\ claimed' = claimed
      /\ kept' = kept /\ deleted' = deleted /\ evicted' = evicted
      /\ \A j \in Jtis : left'[j] = IF left[j] > 0 THEN left[j] - 1 ELSE 0
  BY DEF Tick, memory, history
<1>2. clock \in Nat /\ TTL \in Nat
  BY Numbers DEF IInv
<1>3. ASSUME NEW j \in Jtis
      PROVE  /\ claimed'[j] # Absent => claimed'[j] <= clock'
             /\ claimed'[j] # Absent /\ j \notin deleted'
                  => left'[j] >= TTL - (clock' - claimed'[j])
             /\ Recent(kept[j])' /\ j \notin evicted' => items'[j] = kept'[j]
  <2>1. /\ left[j] \in Nat /\ claimed[j] \in Int /\ kept[j] \in Int
        /\ left'[j] = IF left[j] > 0 THEN left[j] - 1 ELSE 0
    BY <1>1, Numbers DEF IInv
  <2>2. /\ claimed[j] # Absent => claimed[j] <= clock
        /\ claimed[j] # Absent /\ j \notin deleted => left[j] >= TTL - (clock - claimed[j])
        /\ Recent(kept[j]) /\ j \notin evicted => items[j] = kept[j]
    BY DEF IInv, Held
  <2>3. Recent(kept[j])' => Recent(kept[j])
    BY <1>1, <1>2, <2>1 DEF Recent
  <2> QED
    BY <1>1, <1>2, <2>1, <2>2, <2>3
<1>4. Passed'
  <2>1. /\ \A t \in Threads : call[t].time \in Nat /\ call[t].time <= clock
        /\ \A j \in Jtis : items[j] \in Int /\ items[j] <= clock
    BY Numbers DEF IInv, Passed
  <2> QED
    BY <1>1, <1>2, <2>1 DEF Passed
<1> QED
  BY <1>3, <1>4 DEF Held

LEMMA ClaimHolds == ASSUME IInv, NEW t \in Threads, Claim(t) PROVE Held' /\ Passed'
<1>1. /\ left' = [left EXCEPT ![Jti(t)] = TTL] /\ claimed' = [claimed EXCEPT ![Jti(t)] = clock]
      /\ deleted' = deleted \ {Jti(t)} /\ clock' = clock /\ items' = items
      /\ kept' = kept /\ evicted' = evicted
  BY DEF Claim, memory
<1>2. clock \in Nat /\ TTL \in Nat /\ left \in [Jtis -> 0..TTL]
      /\ claimed \in [Jtis -> 0..MaxTime \cup {Absent}]
  BY Numbers DEF IInv, TypeOK
<1>3. Held'
  <2> SUFFICES ASSUME NEW j \in Jtis
               PROVE  /\ claimed'[j] # Absent => claimed'[j] <= clock
                      /\ claimed'[j] # Absent /\ j \notin deleted'
                           => left'[j] >= TTL - (clock - claimed'[j])
                      /\ Recent(kept[j]) /\ j \notin evicted => items[j] = kept[j]
    BY <1>1 DEF Held, Recent
  <2>1. CASE j = Jti(t)
    <3>1. left'[j] = TTL /\ claimed'[j] = clock
      BY <1>1, <1>2, <2>1
    <3> QED
      BY <1>2, <3>1 DEF IInv, Held
  <2>2. CASE j # Jti(t)
    BY <1>1, <1>2, <2>2 DEF IInv, Held
  <2> QED
    BY <2>1, <2>2
<1>4. Passed'
  BY <1>1, <1>2, ClaimSteps DEF IInv, Passed, StepsTo
<1> QED
  BY <1>3, <1>4

LEMMA SetFailsHolds == ASSUME IInv, NEW t \in Threads, SetFails(t) PROVE Held' /\ Passed'
<1>1. /\ left' \in {left, [left EXCEPT ![Jti(t)] = IF left[Jti(t)] = 0 THEN TTL
                                                   ELSE left[Jti(t)]]}
      /\ UNCHANGED <<clock, items, claimed, kept, deleted, evicted>>
  BY DEF SetFails, memory, history
<1>2. clock \in Nat /\ TTL \in Nat /\ left \in [Jtis -> 0..TTL]
  BY Numbers DEF IInv, TypeOK
<1>3. ASSUME NEW j \in Jtis PROVE left'[j] = left[j] \/ left'[j] = TTL
  BY <1>1, <1>2
<1>4. Held'
  <2> SUFFICES ASSUME NEW j \in Jtis, claimed[j] # Absent, j \notin deleted
               PROVE  left'[j] >= TTL - (clock - claimed[j])
    BY <1>1 DEF IInv, Held, Recent
  <2>1. /\ claimed[j] \in Int /\ claimed[j] <= clock
        /\ left[j] >= TTL - (clock - claimed[j])
    BY Numbers DEF IInv, Held
  <2> QED
    BY <1>2, <1>3, <2>1
<1>5. Passed'
  BY <1>1, <1>2, SetFailsSteps DEF IInv, Passed, StepsTo
<1> QED
  BY <1>4, <1>5

LEMMA DelHolds == ASSUME IInv, NEW t \in Threads, Del(t) PROVE Held' /\ Passed'
<1> DEFINE v == Head(call[t].victims)
<1>1. /\ left' \in {left, [left EXCEPT ![v] = 0]}
      /\ deleted' = IF left' # left THEN deleted \cup {v} ELSE deleted
      /\ UNCHANGED <<clock, items, claimed, kept, evicted>>
  BY DEF Del, memory
<1>2. left \in [Jtis -> 0..TTL]
  BY DEF IInv, TypeOK
<1> HIDE DEF v
<1>3. Held'
  <2>1. ASSUME NEW j \in Jtis, j \notin deleted' PROVE left'[j] = left[j] /\ j \notin deleted
    BY <1>1, <1>2, <2>1
  <2> QED
    BY <1>1, <2>1 DEF IInv, Held, Recent
<1>4. Passed'
  BY <1>1, DelSteps DEF IInv, Passed, StepsTo
<1> QED
  BY <1>3, <1>4

\* A purge at a time that was read gives up nothing that was accepted lately.
LEMMA PurgeSpares ==
    ASSUME IInv, NEW t \in Threads, NEW j \in Jtis, Recent(kept[j]), j \notin evicted
    PROVE  Purged(call[t].time)[j] = kept[j] /\ kept[j] # Absent
<1>1. /\ clock \in Nat /\ TTL \in Nat /\ call[t].time \in Nat /\ call[t].time <= clock
      /\ kept[j] \in Int
  BY Numbers DEF IInv, Passed
<1>2. items[j] = kept[j] /\ kept[j] # Absent /\ clock - kept[j] < TTL
  BY DEF IInv, Held, Recent
<1>3. ~(call[t].time - items[j] > TTL)
  BY <1>1, <1>2
<1>4. /\ Purged(call[t].time)[j] # Absent => Purged(call[t].time)[j] = items[j]
      /\ items[j] # Absent /\ Purged(call[t].time)[j] = Absent
           => call[t].time - items[j] > TTL
  BY <1>1, PurgedFacts DEF IInv, TypeOK
<1> QED
  BY <1>2, <1>3, <1>4

LEMMA KeepHolds == ASSUME IInv, NEW t \in Threads, Keep(t) PROVE Held' /\ Passed'
<1> DEFINE n == call[t].time
<1>1. /\ kept' = [kept EXCEPT ![Jti(t)] = n]
      /\ evicted' = (evicted \cup Victims(n)) \ {Jti(t)}
      /\ UNCHANGED <<clock, left, claimed, deleted>>
      /\ RecordNew(Jti(t), n) /\ Return(t)
  BY DEF Keep, redis
<1>2. /\ Jti(t) \in Jtis /\ n \in Nat /\ n <= clock /\ clock \in Nat
      /\ StoreTypeOK
  BY CallTyped, Numbers DEF Keep, At, Jti, IInv, Passed, TypeOK
<1>3. /\ items'[Jti(t)] = n
      /\ \A k \in Jtis \ {Jti(t)} : items'[k] = Purged(n)[k] \/ items'[k] = Absent
      /\ \A k \in Jtis \ {Jti(t)} : Purged(n)[k] # Absent /\ items'[k] = Absent
                                      => k \in Victims(n)
  BY <1>1, <1>2, RecordNewFacts
<1>4. ASSUME NEW j \in Jtis, Recent(kept[j])', j \notin evicted'
      PROVE  items'[j] = kept'[j]
  <2>1. CASE j = Jti(t)
    BY <1>1, <1>2, <1>3, <2>1 DEF IInv, TypeOK
  <2>2. CASE j # Jti(t)
    <3>1. kept'[j] = kept[j] /\ Recent(kept[j]) /\ j \notin evicted /\ j \notin Victims(n)
      BY <1>1, <1>2, <1>4, <2>2 DEF Recent, IInv, TypeOK
    <3>2. Purged(n)[j] = kept[j] /\ kept[j] # Absent
      BY <3>1, PurgeSpares
    <3> QED
      BY <1>3, <2>2, <3>1, <3>2
  <2> QED
    BY <2>1, <2>2
<1>5. Held'
  BY <1>1, <1>4 DEF IInv, Held
<1>6. ASSUME NEW j \in Jtis PROVE items'[j] <= clock
  <2>1. /\ Purged(n)[j] = items[j] \/ Purged(n)[j] = Absent
        /\ items[j] <= clock /\ Absent <= clock
    BY <1>2, PurgedFacts, Numbers DEF IInv, Passed
  <2> QED
    BY <1>2, <1>3, <2>1
<1>7. Passed'
  <2>1. \A u \in Threads : call'[u].time <= clock
    BY <1>1, <1>2, Returns DEF IInv, Passed, StepsTo
  <2> QED
    BY <1>1, <1>6, <2>1 DEF Passed
<1> QED
  BY <1>5, <1>7

LEMMA RefuseKeptHolds == ASSUME IInv, NEW t \in Threads, RefuseKept(t) PROVE Held' /\ Passed'
<1> DEFINE n == call[t].time
<1>1. /\ UNCHANGED <<clock, left, claimed, kept, deleted, evicted>>
      /\ items' = Purged(n) /\ Return(t)
  BY DEF RefuseKept, RejectReplay, redis, history
<1>2. n \in Nat /\ clock \in Nat /\ StoreTypeOK
  BY Numbers DEF IInv, TypeOK
<1>3. \A j \in Jtis : Recent(kept[j]) /\ j \notin evicted => items'[j] = kept[j]
  BY <1>1, PurgeSpares
<1>4. Held'
  BY <1>1, <1>3 DEF IInv, Held, Recent
<1>5. ASSUME NEW j \in Jtis PROVE items'[j] <= clock
  <2>1. /\ Purged(n)[j] = items[j] \/ Purged(n)[j] = Absent
        /\ items[j] <= clock /\ Absent <= clock
    BY <1>2, PurgedFacts, Numbers DEF IInv, Passed
  <2> QED
    BY <1>1, <2>1
<1>6. Passed'
  <2>1. \A u \in Threads : call'[u].time <= clock
    BY <1>1, <1>2, Returns DEF IInv, Passed, StepsTo
  <2> QED
    BY <1>1, <1>5, <2>1 DEF Passed
<1> QED
  BY <1>4, <1>6

LEMMA RestartHolds == ASSUME IInv, Restart PROVE Held' /\ Passed'
<1>1. /\ UNCHANGED <<clock, left, claimed, deleted, evicted>>
      /\ \A j \in Jtis : items'[j] = Absent /\ kept'[j] = Absent
      /\ \A t \in Threads : call'[t].time = 0
  BY DEF Restart, redis, Idle
<1>2. clock \in Nat /\ Absent <= clock
  BY Numbers DEF IInv
<1> QED
  BY <1>1, <1>2 DEF IInv, Held, Passed, Recent

LEMMA NextIInv == IInv /\ [Next]_vars => IInv'
<1> SUFFICES ASSUME IInv, [Next]_vars PROVE Held' /\ Passed'
  BY NextTypeOK DEF IInv
<1> USE DEF redis, memory, history
<1>1. \A t \in Threads : call[t].time <= clock /\ 0 <= clock
  BY Numbers DEF IInv, Passed
<1>2. ASSUME NEW t \in Threads, NEW j \in Jtis, Enter(t, j) PROVE Held' /\ Passed'
  BY <1>1, <1>2, EnterSteps, StoresUntouched DEF Enter, IInv
<1>3. ASSUME NEW t \in Threads, Refuse(t) PROVE Held' /\ Passed'
  BY <1>1, <1>3, Returns, StoresUntouched DEF Refuse, IInv
<1>4. ASSUME NEW t \in Threads, Add(t) PROVE Held' /\ Passed'
  BY <1>1, <1>4, AddSteps, StoresUntouched DEF Add, IInv
<1>5. ASSUME NEW t \in Threads, Card(t) PROVE Held' /\ Passed'
  BY <1>1, <1>5, CardSteps, StoresUntouched DEF Card, IInv
<1>6. ASSUME NEW t \in Threads, PickVictims(t) PROVE Held' /\ Passed'
  BY <1>1, <1>6, PickSteps, StoresUntouched DEF PickVictims, IInv
<1>7. ASSUME NEW t \in Threads, Rem(t) PROVE Held' /\ Passed'
  BY <1>1, <1>7, RemSteps, StoresUntouched DEF Rem, IInv
<1>8. CASE UNCHANGED vars
  BY <1>8 DEF vars, IInv, Held, Passed, Recent
<1> QED
  BY <1>2, <1>3, <1>4, <1>5, <1>6, <1>7, <1>8, TickHolds, RestartHolds, ClaimHolds,
     SetFailsHolds, DelHolds, KeepHolds, RefuseKeptHolds DEF Next

-----------------------------------------------------------------------------
\* The types and what the stores hold, in every reachable state.
THEOREM Inductive == Spec => []IInv
<1>1. Init => IInv
  <2> SUFFICES ASSUME Init PROVE IInv
    OBVIOUS
  <2>1. TypeOK /\ IsFiniteSet(Indexed)
    BY InitTypeOK, FS_EmptySet
  <2>2. Held
    BY DEF Init, StoreInit, Held, Recent
  <2>3. Passed
    BY DEF Init, StoreInit, Passed, Idle, Absent
  <2> QED
    BY <2>1, <2>2, <2>3 DEF IInv
<1> QED
  BY <1>1, NextIInv, PTL DEF Spec

\* MarkIfNew over Redis leaves nothing but what its types say, whatever fails.
THEOREM TypeCorrect == Spec => []TypeOK
<1>1. IInv => TypeOK
  BY DEF IInv
<1> QED
  BY <1>1, Inductive, PTL

LEMMA ClaimOnce ==
    ASSUME IInv, NEW t \in Threads, Claim(t), Recent(claimed[Jti(t)])
    PROVE  Jti(t) \in deleted
<1>1. Jti(t) \in Jtis /\ left[Jti(t)] = 0
  BY CallTyped DEF Claim, At, Jti, IInv
<1>2. /\ clock \in Nat /\ TTL \in Nat /\ claimed[Jti(t)] \in Int
      /\ claimed[Jti(t)] # Absent /\ clock - claimed[Jti(t)] < TTL
  BY <1>1, Numbers DEF IInv, Recent
<1>3. ~(left[Jti(t)] >= TTL - (clock - claimed[Jti(t)]))
  BY <1>1, <1>2
<1> QED
  BY <1>1, <1>2, <1>3 DEF IInv, Held

LEMMA KeepOnce ==
    ASSUME IInv, NEW t \in Threads, Keep(t), Recent(kept[Jti(t)])
    PROVE  Jti(t) \in evicted
<1>1. Jti(t) \in Jtis /\ call[t].time \in Nat /\ StoreTypeOK
  BY CallTyped DEF Keep, At, Jti, IInv, TypeOK
<1>2. Purged(call[t].time)[Jti(t)] = Absent
  BY <1>1, RecordNewFacts DEF Keep
<1> QED
  BY <1>1, <1>2, PurgeSpares

\* Each of the two stores accepts a jti once per window unless it gave it up, so
\* a failing Redis costs one replay at most (MarkIfNew).
THEOREM AcceptedOncePerStore == Spec => OncePerStore
<1>1. IInv /\ [Next]_vars =>
        [\A t \in Threads :
           /\ Claim(t) /\ Recent(claimed[Jti(t)]) => Jti(t) \in deleted
           /\ Keep(t) /\ Recent(kept[Jti(t)]) => Jti(t) \in evicted]_vars
  BY ClaimOnce, KeepOnce
<1> QED
  BY <1>1, Inductive, PTL DEF Spec, OncePerStore

-----------------------------------------------------------------------------
(* The size of the index.                                                  *)

\* The sets and numbers that are compared.
SizesOK ==
    /\ Evicting \subseteq Late /\ Late \subseteq Threads
    /\ Cardinality(Late) \in Nat /\ Cardinality(Late) <= Cardinality(Threads)
    /\ \A U : Cardinality(Late \ U) \in Nat
    /\ Cardinality(Indexed) \in Nat /\ IsFiniteSet(Indexed)
    /\ Room \in Nat /\ Room >= MaxEntries /\ MaxEntries \in Nat

LEMMA Sizes == IInv => SizesOK
<1> SUFFICES ASSUME IInv PROVE SizesOK
  OBVIOUS
<1>1. Evicting \subseteq Late /\ Late \subseteq Threads
  BY DEF Late, Evicting
<1>2. /\ IsFiniteSet(Late) /\ Cardinality(Late) \in Nat /\ Cardinality(Threads) \in Nat
      /\ Cardinality(Late) <= Cardinality(Threads)
  BY <1>1, ThreadsAssumption, FS_Subset, FS_CardinalityType
<1>3. ASSUME NEW U PROVE Cardinality(Late \ U) \in Nat
  <2>1. Late \ U \subseteq Late
    OBVIOUS
  <2> QED
    BY <1>2, <2>1, FS_Subset, FS_CardinalityType
<1>4. Cardinality(Indexed) \in Nat /\ IsFiniteSet(Indexed)
  BY FS_CardinalityType DEF IInv
<1>5. Room \in Nat /\ Room >= MaxEntries /\ MaxEntries \in Nat
  <2>1. faults \in Nat /\ restarts \in Nat /\ MaxEntries \in Nat
    BY BoundAssumption, MaxEntriesAssumption DEF IInv, TypeOK
  <2> DEFINE x == restarts * Cardinality(Threads)
  <2>2. x \in Nat /\ Room = MaxEntries + faults + x
    BY <1>2, <2>1 DEF Room
  <2> HIDE DEF x
  <2> QED
    BY <2>1, <2>2
<1> QED
  BY <1>1, <1>2, <1>3, <1>4, <1>5 DEF SizesOK

LEMMA SizesNext == IInv' => SizesOK'
  BY Sizes, PTL

\* IndexBounded, with the names of this module.
LEMMA BoundByRoom == IndexBounded <=> Cardinality(Indexed) <= Room + Cardinality(Late)
  BY DEF IndexBounded, Room, Late

LEMMA BoundByRoomNext ==
    IndexBounded' <=> Cardinality(Indexed') <= Room' + Cardinality(Late')
  BY DEF IndexBounded, Room, Late

\* A failure makes room for one entry more.
LEMMA RoomGrows ==
    ASSUME IInv, restarts' = restarts, NEW d \in Nat, faults' = faults + d
    PROVE  Room' = Room + d
<1>1. faults \in Nat /\ restarts \in Nat /\ MaxEntries \in Nat /\ Cardinality(Threads) \in Nat
  BY BoundAssumption, MaxEntriesAssumption, ThreadsAssumption, FS_CardinalityType
  DEF IInv, TypeOK
<1> DEFINE x == restarts * Cardinality(Threads)
<1>2. x \in Nat
  BY <1>1
<1>3. Room = MaxEntries + faults + x /\ Room' = MaxEntries + (faults + d) + x
  BY DEF Room
<1> HIDE DEF x
<1> QED
  BY <1>1, <1>2, <1>3

\* A restart makes room for one entry for each goroutine.
LEMMA RoomOfRestart ==
    ASSUME IInv, restarts' = restarts + 1, faults' = faults
    PROVE  Room' = Room + Cardinality(Threads)
<1>1. faults \in Nat /\ restarts \in Nat /\ MaxEntries \in Nat /\ Cardinality(Threads) \in Nat
  BY BoundAssumption, MaxEntriesAssumption, ThreadsAssumption, FS_CardinalityType
  DEF IInv, TypeOK
<1> DEFINE x == restarts * Cardinality(Threads)
           y == (restarts + 1) * Cardinality(Threads)
<1>2. x \in Nat /\ y = x + Cardinality(Threads)
  BY <1>1
<1>3. Room = MaxEntries + faults + x /\ Room' = MaxEntries + faults + y
  BY DEF Room
<1> HIDE DEF x, y
<1> QED
  BY <1>1, <1>2, <1>3

\* With one entry less than before, or none more, no more remains.
LEMMA LeavesLess ==
    ASSUME NEW c, c.excess \in Nat, NEW I, IsFiniteSet(I), NEW J \in SUBSET I,
           NEW n \in Nat, NEW m \in Nat, n <= m, LeavesAtMost(c, I, n)
    PROVE  LeavesAtMost(c, J, m)
<1>1. /\ IsFiniteSet(J) /\ Cardinality(J) <= Cardinality(I)
      /\ Cardinality(I) \in Nat /\ Cardinality(J) \in Nat
  BY FS_Subset, FS_CardinalityType
<1>2. J \ Doomed(c) \subseteq I \ Doomed(c) /\ IsFiniteSet(I \ Doomed(c))
  BY FS_Subset
<1>3. /\ Cardinality(J \ Doomed(c)) <= Cardinality(I \ Doomed(c))
      /\ Cardinality(J \ Doomed(c)) \in Nat /\ Cardinality(I \ Doomed(c)) \in Nat
  BY <1>2, FS_Subset, FS_CardinalityType
<1>4. CASE c.at = "range"
  BY <1>1, <1>4 DEF LeavesAtMost
<1>5. CASE c.at # "range"
  BY <1>3, <1>5 DEF LeavesAtMost
<1> QED
  BY <1>4, <1>5

LEMMA OneMore ==
    ASSUME NEW I, IsFiniteSet(I), NEW j, NEW J \in SUBSET (I \cup {j})
    PROVE  /\ IsFiniteSet(J) /\ Cardinality(J) \in Nat /\ Cardinality(I) \in Nat
           /\ Cardinality(J) <= Cardinality(I) + 1
<1>1. /\ IsFiniteSet(I \cup {j})
      /\ Cardinality(I \cup {j}) = IF j \in I THEN Cardinality(I) ELSE Cardinality(I) + 1
  BY FS_AddElement
<1>2. /\ IsFiniteSet(J) /\ Cardinality(J) <= Cardinality(I \cup {j})
      /\ Cardinality(J) \in Nat /\ Cardinality(I) \in Nat /\ Cardinality(I \cup {j}) \in Nat
  BY <1>1, FS_Subset, FS_CardinalityType
<1> QED
  BY <1>1, <1>2

\* With one entry more, one more remains.
LEMMA LeavesOneMore ==
    ASSUME NEW c, c.excess \in Nat, NEW I, IsFiniteSet(I), NEW j, NEW J \in SUBSET (I \cup {j}),
           NEW n \in Nat, NEW m \in Nat, n + 1 <= m, LeavesAtMost(c, I, n)
    PROVE  LeavesAtMost(c, J, m)
<1>1. /\ Cardinality(J) <= Cardinality(I) + 1
      /\ Cardinality(J) \in Nat /\ Cardinality(I) \in Nat
  BY OneMore
<1>2. /\ Cardinality(J \ Doomed(c)) <= Cardinality(I \ Doomed(c)) + 1
      /\ Cardinality(J \ Doomed(c)) \in Nat /\ Cardinality(I \ Doomed(c)) \in Nat
  <2>1. /\ J \ Doomed(c) \subseteq (I \ Doomed(c)) \cup {j}
        /\ IsFiniteSet(I \ Doomed(c))
    BY FS_Subset
  <2> QED
    BY <2>1, OneMore
<1>3. CASE c.at = "range"
  BY <1>1, <1>3 DEF LeavesAtMost
<1>4. CASE c.at # "range"
  BY <1>2, <1>4 DEF LeavesAtMost
<1> QED
  BY <1>3, <1>4

\* Where a step of t leaves the sets.
LEMMA StageSets ==
    ASSUME NEW t \in Threads, NEW stage, NEW time, StepsTo(t, stage, time)
    PROVE  /\ Late' = IF stage \in {"card", "range", "del", "rem"} THEN Late \cup {t}
                      ELSE Late \ {t}
           /\ Evicting' = IF stage \in {"range", "del", "rem"} THEN Evicting \cup {t}
                          ELSE Evicting \ {t}
           /\ HasExcess /\ stage # "range" => HasExcess'
           /\ \A u \in Evicting \ {t} : call'[u] = call[u]
  BY DEF StepsTo, Late, Evicting, HasExcess

\* A step that leaves every eviction with as much to do, and adds nothing.
LEMMA EvictionsStand ==
    ASSUME IInv, IInv', IndexInv, Late' = Late, Evicting' = Evicting, Room' >= Room,
           Indexed' = Indexed,
           \A t \in Evicting :
              \/ call'[t] = call[t]
              \/ call'[t].at # "range" /\ call[t].at # "range"
                   /\ call'[t].victims = call[t].victims
    PROVE  EvictionsSuffice' /\ IndexBounded'
<1>1. SizesOK /\ SizesOK'
  BY Sizes, SizesNext
<1>2. IndexBounded'
  BY <1>1, BoundByRoom, BoundByRoomNext DEF IndexInv, SizesOK
<1>3. ASSUME NEW U \in SUBSET Evicting', U # {}
      PROVE  \E t \in U : LeavesAtMost(call'[t], Indexed', Room' + Cardinality(Late' \ U))
  <2>1. PICK t \in U : LeavesAtMost(call[t], Indexed, Room + Cardinality(Late \ U))
    BY <1>3 DEF IndexInv, EvictionsSuffice
  <2> DEFINE n == Room + Cardinality(Late \ U)
             m == Room' + Cardinality(Late' \ U)
  <2>2. n \in Nat /\ m \in Nat /\ n <= m
    BY <1>1 DEF SizesOK
  <2>3. call[t].excess \in Nat /\ IsFiniteSet(Indexed) /\ t \in Evicting
    BY CallTyped DEF IInv, Evicting
  <2> HIDE DEF n, m
  <2>4. LeavesAtMost(call[t], Indexed, m)
    BY <2>1, <2>2, <2>3, LeavesLess DEF n
  <2>5. LeavesAtMost(call'[t], Indexed', m)
    BY <2>3, <2>4 DEF LeavesAtMost, Doomed
  <2> QED
    BY <2>5 DEF m
<1> QED
  BY <1>2, <1>3 DEF EvictionsSuffice

\* What is left of the index is little enough for every group.
LEMMA LittleLeft ==
    ASSUME IInv, IInv', Cardinality(Indexed') <= Room'
    PROVE  EvictionsSuffice' /\ IndexBounded'
<1>1. SizesOK'
  BY SizesNext
<1>2. IndexBounded'
  BY <1>1, BoundByRoomNext DEF SizesOK
<1>3. ASSUME NEW U \in SUBSET Evicting', NEW t \in U
      PROVE  LeavesAtMost(call'[t], Indexed', Room' + Cardinality(Late' \ U))
  <2> DEFINE m == Room' + Cardinality(Late' \ U)
             I == Indexed'
             c == call'[t]
  <2>1. /\ m \in Nat /\ Cardinality(I) <= m /\ Cardinality(I) \in Nat /\ IsFiniteSet(I)
        /\ t \in Threads
    BY <1>1 DEF SizesOK
  <2>2. c.excess \in Nat
    BY <2>1 DEF IInv, TypeOK, Calls
  <2> HIDE DEF m, I, c
  <2>3. Cardinality(I \ Doomed(c)) <= Cardinality(I) /\ Cardinality(I \ Doomed(c)) \in Nat
    BY <2>1, FS_Subset, FS_CardinalityType
  <2>4. LeavesAtMost(c, I, m)
    BY <2>1, <2>2, <2>3 DEF LeavesAtMost
  <2> QED
    BY <2>4 DEF m, I, c
<1> QED
  BY <1>2, <1>3 DEF EvictionsSuffice

\* A goroutine that fails is made up for by the room its failure counts for.
LEMMA FailureDeparts ==
    ASSUME IInv, IInv', IndexInv, NEW t \in Threads,
           Late' = Late \ {t}, Evicting' = Evicting \ {t},
           \A u \in Evicting \ {t} : call'[u] = call[u],
           Indexed' \subseteq Indexed, Room' = Room + 1
    PROVE  EvictionsSuffice' /\ IndexBounded'
<1>1. SizesOK /\ SizesOK'
  BY Sizes, SizesNext
<1>2. ASSUME NEW U
      PROVE  /\ Cardinality(Late \ U) <= Cardinality(Late' \ U) + 1
             /\ Cardinality(Late \ U) \in Nat /\ Cardinality(Late' \ U) \in Nat
  <2>1. Late \ U \subseteq (Late' \ U) \cup {t} /\ IsFiniteSet(Late' \ U)
    <3>1. Late' \ U \subseteq Threads
      BY <1>1 DEF SizesOK
    <3> QED
      BY <3>1, ThreadsAssumption, FS_Subset
  <2> QED
    BY <2>1, OneMore
<1>3. IndexBounded'
  <2>1. Cardinality(Late) <= Cardinality(Late') + 1
    <3>1. Late \ {} = Late /\ Late' \ {} = Late'
      OBVIOUS
    <3> QED
      BY <1>2, <3>1
  <2>2. Cardinality(Indexed') <= Cardinality(Indexed)
    BY <1>1, FS_Subset DEF SizesOK
  <2> QED
    BY <1>1, <2>1, <2>2, BoundByRoom, BoundByRoomNext DEF IndexInv, SizesOK
<1>4. ASSUME NEW U \in SUBSET Evicting', U # {}
      PROVE  \E u \in U : LeavesAtMost(call'[u], Indexed', Room' + Cardinality(Late' \ U))
  <2>1. PICK u \in U : LeavesAtMost(call[u], Indexed, Room + Cardinality(Late \ U))
    BY <1>4 DEF IndexInv, EvictionsSuffice
  <2> DEFINE n == Room + Cardinality(Late \ U)
             m == Room' + Cardinality(Late' \ U)
  <2>2. n \in Nat /\ m \in Nat /\ n <= m
    <3> DEFINE a == Cardinality(Late \ U)
               b == Cardinality(Late' \ U)
    <3>1. a \in Nat /\ b \in Nat /\ a <= b + 1 /\ Room \in Nat
      BY <1>1, <1>2 DEF SizesOK
    <3> HIDE DEF a, b
    <3>2. Room + a \in Nat /\ Room' + b \in Nat /\ Room + a <= Room' + b
      BY <3>1
    <3> QED
      BY <3>2 DEF a, b
  <2>3. /\ call[u].excess \in Nat /\ IsFiniteSet(Indexed) /\ call'[u] = call[u]
        /\ Indexed' \in SUBSET Indexed
    BY CallTyped DEF IInv, Evicting
  <2> HIDE DEF n, m
  <2>4. LeavesAtMost(call[u], Indexed', m)
    BY <2>1, <2>2, <2>3, LeavesLess DEF n
  <2> QED
    BY <2>3, <2>4 DEF m
<1> QED
  BY <1>3, <1>4 DEF EvictionsSuffice

\* A goroutine that has evicted all it meant to leaves its group's share.
LEMMA EvictionDeparts ==
    ASSUME IInv, IInv', IndexInv, NEW t \in Evicting,
           Late' = Late \ {t}, Evicting' = Evicting \ {t},
           \A u \in Evicting \ {t} : call'[u] = call[u],
           call[t].at # "range", Indexed' \subseteq Indexed \ Doomed(call[t]), Room' = Room
    PROVE  EvictionsSuffice' /\ IndexBounded'
<1>1. SizesOK /\ SizesOK'
  BY Sizes, SizesNext
<1>2. ASSUME NEW n \in Nat, LeavesAtMost(call[t], Indexed, n)
      PROVE  Cardinality(Indexed') <= n
  <2>1. IsFiniteSet(Indexed \ Doomed(call[t]))
    BY <1>1, FS_Subset DEF SizesOK
  <2>2. /\ Cardinality(Indexed') <= Cardinality(Indexed \ Doomed(call[t]))
        /\ Cardinality(Indexed') \in Nat /\ Cardinality(Indexed \ Doomed(call[t])) \in Nat
    BY <2>1, FS_Subset, FS_CardinalityType
  <2>3. Cardinality(Indexed \ Doomed(call[t])) <= n
    BY <1>2 DEF LeavesAtMost
  <2> QED
    BY <2>2, <2>3
<1>3. IndexBounded'
  <2>1. LeavesAtMost(call[t], Indexed, Room + Cardinality(Late \ {t}))
    <3>1. {t} \in SUBSET Evicting /\ {t} # {}
      OBVIOUS
    <3> QED
      BY <3>1 DEF IndexInv, EvictionsSuffice
  <2>2. Room + Cardinality(Late \ {t}) \in Nat
    BY <1>1 DEF SizesOK
  <2>3. Cardinality(Indexed') <= Room + Cardinality(Late \ {t})
    BY <1>2, <2>1, <2>2
  <2> QED
    BY <2>3, BoundByRoomNext
<1>4. ASSUME NEW U \in SUBSET Evicting', U # {}
      PROVE  \E u \in U : LeavesAtMost(call'[u], Indexed', Room' + Cardinality(Late' \ U))
  <2> DEFINE n == Room + Cardinality(Late \ (U \cup {t}))
  <2>1. PICK u \in U \cup {t} : LeavesAtMost(call[u], Indexed, n)
    BY <1>4 DEF IndexInv, EvictionsSuffice
  <2>2. n \in Nat /\ Room' + Cardinality(Late' \ U) = n
    <3>1. Late' \ U = Late \ (U \cup {t})
      OBVIOUS
    <3> QED
      BY <1>1, <3>1 DEF SizesOK
  <2> HIDE DEF n
  <2>3. \A v \in U : call[v].excess \in Nat /\ call'[v] = call[v]
    BY CallTyped DEF IInv, Evicting
  <2>4. IsFiniteSet(Indexed) /\ Indexed' \in SUBSET Indexed /\ n <= n
    BY <1>1, <2>2 DEF SizesOK
  <2>5. CASE u \in U
    <3>1. LeavesAtMost(call[u], Indexed', n)
      BY <2>1, <2>2, <2>3, <2>4, <2>5, LeavesLess
    <3> QED
      BY <2>2, <2>3, <2>5, <3>1
  <2>6. CASE u = t
    <3>1. Cardinality(Indexed') <= n
      BY <1>2, <2>1, <2>2, <2>6
    <3>2. PICK v \in U : TRUE
      BY <1>4
    <3>3. IsFiniteSet(Indexed') /\ Cardinality(Indexed') \in Nat
      BY <1>1 DEF SizesOK
    <3>4. /\ Cardinality(Indexed' \ Doomed(call[v])) <= Cardinality(Indexed')
          /\ Cardinality(Indexed' \ Doomed(call[v])) \in Nat
      BY <3>3, FS_Subset, FS_CardinalityType
    <3>5. LeavesAtMost(call[v], Indexed', n)
      BY <2>2, <2>3, <3>1, <3>3, <3>4 DEF LeavesAtMost
    <3> QED
      BY <2>2, <2>3, <3>5
  <2> QED
    BY <2>1, <2>5, <2>6
<1> QED
  BY <1>3, <1>4 DEF EvictionsSuffice

\* A goroutine that adds an entry is late, and is counted for it.
LEMMA AddIndexes == ASSUME IInv, IInv', IndexInv, NEW t \in Threads, Add(t) PROVE IndexInv'
<1> DEFINE j == Jti(t)
<1>1. /\ j \in Jtis /\ call[t].at = "add" /\ call[t].time \in 0..MaxTime
      /\ index' \in {index, [index EXCEPT ![j] = call[t].time]}
  BY CallTyped DEF IInv, Add, At, Jti
<1>2. Indexed' \subseteq Indexed \cup {j}
  BY <1>1, IndexGrows DEF IInv
<1>3. /\ Late' = Late \cup {t} /\ Evicting' = Evicting /\ t \notin Late /\ t \notin Evicting
      /\ HasExcess' /\ \A u \in Evicting : call'[u] = call[u]
  <2>1. StepsTo(t, "card", call[t].time)
    BY AddSteps DEF IInv
  <2>2. t \notin Late /\ t \notin Evicting
    BY <1>1 DEF Late, Evicting
  <2> QED
    BY <2>1, <2>2, StageSets DEF IndexInv
<1>4. Room' = Room \/ Room' = Room + 1
  <2>1. \/ restarts' = restarts /\ faults' = faults + 0
        \/ restarts' = restarts /\ faults' = faults + 1
    BY DEF Add, Fault, bounds, IInv, TypeOK
  <2>2. Room' = Room + 0 \/ Room' = Room + 1
    BY <2>1, RoomGrows
  <2> QED
    BY <2>2, Sizes DEF SizesOK
<1>5. SizesOK /\ SizesOK'
  BY Sizes, SizesNext
<1>6. ASSUME NEW U, t \notin U
      PROVE  /\ Cardinality(Late' \ U) = Cardinality(Late \ U) + 1
             /\ Cardinality(Late \ U) \in Nat
  <2>1. Late' \ U = (Late \ U) \cup {t} /\ t \notin Late \ U
    BY <1>3, <1>6
  <2>2. IsFiniteSet(Late \ U)
    <3>1. Late \ U \subseteq Threads
      BY <1>5 DEF SizesOK
    <3> QED
      BY <3>1, ThreadsAssumption, FS_Subset
  <2> QED
    BY <2>1, <2>2, FS_AddElement, FS_CardinalityType
<1> HIDE DEF j
<1>7. IndexBounded'
  <2>1. Cardinality(Late') = Cardinality(Late) + 1
    <3>1. Late \ {} = Late /\ Late' \ {} = Late'
      OBVIOUS
    <3> QED
      BY <1>6, <3>1
  <2>2. Cardinality(Indexed') <= Cardinality(Indexed) + 1
    BY <1>2, <1>5, OneMore DEF SizesOK
  <2> QED
    BY <1>4, <1>5, <2>1, <2>2, BoundByRoom, BoundByRoomNext DEF IndexInv, SizesOK
<1>8. ASSUME NEW U \in SUBSET Evicting', U # {}
      PROVE  \E u \in U : LeavesAtMost(call'[u], Indexed', Room' + Cardinality(Late' \ U))
  <2>1. PICK u \in U : LeavesAtMost(call[u], Indexed, Room + Cardinality(Late \ U))
    BY <1>3, <1>8 DEF IndexInv, EvictionsSuffice
  <2> DEFINE n == Room + Cardinality(Late \ U)
             m == Room' + Cardinality(Late' \ U)
  <2>2. n \in Nat /\ m \in Nat /\ n + 1 <= m
    <3> DEFINE a == Cardinality(Late \ U)
               b == Cardinality(Late' \ U)
    <3>1. a \in Nat /\ b = a + 1 /\ Room \in Nat
      BY <1>3, <1>5, <1>6 DEF SizesOK
    <3> HIDE DEF a, b
    <3>2. Room + a \in Nat /\ Room' + b \in Nat /\ Room + a + 1 <= Room' + b
      BY <1>4, <3>1
    <3> QED
      BY <3>2 DEF a, b
  <2>3. /\ call[u].excess \in Nat /\ IsFiniteSet(Indexed) /\ call'[u] = call[u]
        /\ Indexed' \in SUBSET (Indexed \cup {j})
    BY <1>2, <1>3, CallTyped DEF IInv, Evicting
  <2> HIDE DEF n, m
  <2>4. LeavesAtMost(call[u], Indexed', m)
    BY <2>1, <2>2, <2>3, LeavesOneMore DEF n
  <2> QED
    BY <2>3, <2>4 DEF m
<1> QED
  BY <1>3, <1>7, <1>8 DEF IndexInv, EvictionsSuffice

\* A step that fails one command, or none.
LEMMA RoomOfStep ==
    ASSUME IInv
    PROVE  /\ UNCHANGED bounds => Room' = Room
           /\ Fault => Room' = Room + 1
<1>1. Room \in Nat /\ faults \in Nat
  BY Sizes, BoundAssumption DEF SizesOK, IInv, TypeOK
<1>2. ASSUME UNCHANGED bounds PROVE Room' = Room
  BY <1>2 DEF bounds, Room
<1>3. ASSUME Fault PROVE Room' = Room + 1
  BY <1>3, RoomGrows DEF Fault
<1> QED
  BY <1>2, <1>3

LEMMA CardIndexes == ASSUME IInv, IInv', IndexInv, NEW t \in Threads, Card(t) PROVE IndexInv'
<1>1. /\ call[t].at = "card" /\ index' = index /\ Indexed' = Indexed
      /\ t \in Late /\ t \notin Evicting /\ IsFiniteSet(Indexed)
  BY DEF Card, At, redis, IInv, Indexed, Late, Evicting
<1>2. SizesOK /\ SizesOK'
  BY Sizes, SizesNext
<1>3. CASE StepsTo(t, "idle", 0) /\ Fault
  <2>1. /\ Late' = Late \ {t} /\ Evicting' = Evicting \ {t} /\ HasExcess'
        /\ \A u \in Evicting \ {t} : call'[u] = call[u]
    BY <1>3, StageSets DEF IndexInv
  <2> QED
    BY <1>1, <1>3, <2>1, RoomOfStep, FailureDeparts DEF IndexInv
<1>4. CASE StepsTo(t, "idle", 0) /\ UNCHANGED bounds /\ Cardinality(Indexed) <= MaxEntries
  <2>1. HasExcess'
    BY <1>4, StageSets DEF IndexInv
  <2>2. Cardinality(Indexed') <= Room'
    BY <1>1, <1>2, <1>4, RoomOfStep DEF SizesOK
  <2> QED
    BY <2>1, <2>2, LittleLeft DEF IndexInv
<1>5. CASE /\ StepsTo(t, "range", call[t].time) /\ UNCHANGED bounds
           /\ call'[t].excess > 0
           /\ Cardinality(Indexed) = MaxEntries + call'[t].excess
  <2>1. /\ Late' = Late /\ Evicting' = Evicting \cup {t}
        /\ \A u \in Evicting : call'[u] = call[u]
    BY <1>1, <1>5, StageSets
  <2>2. HasExcess'
    BY <1>5 DEF HasExcess, IndexInv, StepsTo
  <2>3. Room' = Room
    BY <1>5, RoomOfStep
  <2>4. IndexBounded'
    BY <1>1, <2>1, <2>3, BoundByRoom, BoundByRoomNext DEF IndexInv
  <2>5. ASSUME NEW U \in SUBSET Evicting', U # {}
        PROVE  \E u \in U : LeavesAtMost(call'[u], Indexed', Room' + Cardinality(Late' \ U))
    <3>1. CASE t \in U
      <4> DEFINE m == Room' + Cardinality(Late' \ U)
      <4>1. m \in Nat /\ MaxEntries \in Nat /\ MaxEntries <= m
        BY <1>2, <2>1, <2>3 DEF SizesOK
      <4>2. call'[t].excess \in Nat /\ call'[t].at = "range"
        BY <1>5 DEF IInv, TypeOK, Calls, StepsTo
      <4> HIDE DEF m
      <4>3. Cardinality(Indexed') <= m + call'[t].excess
        BY <1>1, <1>5, <4>1, <4>2
      <4>4. LeavesAtMost(call'[t], Indexed', m)
        BY <4>2, <4>3 DEF LeavesAtMost
      <4> QED
        BY <3>1, <4>4 DEF m
    <3>2. CASE t \notin U
      <4>1. U \in SUBSET Evicting /\ \A u \in U : call'[u] = call[u]
        BY <2>1, <3>2
      <4>2. PICK u \in U : LeavesAtMost(call[u], Indexed, Room + Cardinality(Late \ U))
        BY <2>5, <4>1 DEF IndexInv, EvictionsSuffice
      <4> QED
        BY <1>1, <2>1, <2>3, <4>1, <4>2
    <3> QED
      BY <3>1, <3>2
  <2> QED
    BY <2>2, <2>4, <2>5 DEF IndexInv, EvictionsSuffice
<1> QED
  BY <1>1, <1>3, <1>4, <1>5, CardSteps DEF IInv

\* A list without repetition names as many as it is long.
LEMMA ListCounts ==
    ASSUME NEW s, NEW k \in Nat, DOMAIN s = 1..k, \A i, l \in 1..k : s[i] = s[l] => i = l
    PROVE  /\ IsFiniteSet({s[i] : i \in DOMAIN s})
           /\ Cardinality({s[i] : i \in DOMAIN s}) = k
<1> DEFINE V == {s[i] : i \in DOMAIN s}
           f == [i \in 1..k |-> s[i]]
<1>1. IsFiniteSet(1..k) /\ Cardinality(1..k) = k
  BY FS_Interval
<1>2. f \in Bijection(1..k, V)
  <2>1. f \in [1..k -> V] /\ \A i, l \in 1..k : f[i] = f[l] => i = l
    OBVIOUS
  <2>2. \A v \in V : \E i \in 1..k : f[i] = v
    OBVIOUS
  <2> HIDE DEF f, V
  <2> QED
    BY <2>1, <2>2, Fun_IsBij
<1>3. ExistsBijection(1..k, V)
  BY <1>2 DEF ExistsBijection
<1> HIDE DEF f, V
<1>4. IsFiniteSet(V) /\ Cardinality(V) = k
  BY <1>1, <1>3, FS_Bijection
<1> QED
  BY <1>4 DEF V

LEMMA PickIndexes ==
    ASSUME IInv, IInv', IndexInv, NEW t \in Threads, PickVictims(t)
    PROVE  IndexInv'
<1>1. /\ call[t].at = "range" /\ index' = index /\ Indexed' = Indexed
      /\ t \in Late /\ t \in Evicting /\ IsFiniteSet(Indexed) /\ TypeOK
      /\ call[t].excess \in Nat /\ call[t].excess > 0
  <2>1. call[t].at = "range" /\ index' = index
    BY DEF PickVictims, At, redis
  <2> QED
    BY <2>1, CallTyped DEF IInv, Indexed, Late, Evicting, IndexInv, HasExcess
<1>2. SizesOK /\ SizesOK'
  BY Sizes, SizesNext
<1>3. CASE StepsTo(t, "idle", 0) /\ Fault
  <2>1. /\ Late' = Late \ {t} /\ Evicting' = Evicting \ {t} /\ HasExcess'
        /\ \A u \in Evicting \ {t} : call'[u] = call[u]
    BY <1>3, StageSets DEF IndexInv
  <2> QED
    BY <1>1, <1>3, <2>1, RoomOfStep, FailureDeparts DEF IndexInv
<1>4. CASE /\ StepsTo(t, "idle", 0) /\ UNCHANGED bounds
           /\ call[t].excess = 0 \/ Cardinality(Indexed) = 0
  <2>1. HasExcess'
    BY <1>4, StageSets DEF IndexInv
  <2>2. Cardinality(Indexed) = 0
    BY <1>1, <1>4
  <2>3. Cardinality(Indexed') <= Room'
    BY <1>1, <1>2, <1>4, <2>2 DEF SizesOK
  <2> QED
    BY <2>1, <2>3, LittleLeft DEF IndexInv
<1>5. CASE /\ StepsTo(t, "del", call[t].time) /\ UNCHANGED bounds
           /\ call'[t].victims \in Lowest(Smaller(call[t].excess, Cardinality(Indexed)))
  <2>1. /\ Late' = Late /\ Evicting' = Evicting /\ HasExcess'
        /\ \A u \in Evicting \ {t} : call'[u] = call[u]
    BY <1>1, <1>5, StageSets DEF IndexInv
  <2>2. Room' = Room
    BY <1>5, RoomOfStep
  <2>3. IndexBounded'
    BY <1>1, <2>1, <2>2, BoundByRoom, BoundByRoomNext DEF IndexInv
  <2>4. ASSUME NEW n \in Nat, LeavesAtMost(call[t], Indexed, n)
        PROVE  LeavesAtMost(call'[t], Indexed, n)
    <3> DEFINE k == Smaller(call[t].excess, Cardinality(Indexed))
               s == call'[t].victims
    <3>1. Cardinality(Indexed) <= n + call[t].excess
      BY <1>1, <2>4 DEF LeavesAtMost
    <3>2. /\ k \in Nat
          /\ k = IF call[t].excess < Cardinality(Indexed) THEN call[t].excess
                 ELSE Cardinality(Indexed)
      BY <1>1, <1>2 DEF Smaller, SizesOK
    <3>3. /\ DOMAIN s = 1..k /\ \A i \in 1..k : s[i] \in Indexed
          /\ \A i, l \in 1..k : s[i] = s[l] => i = l
      BY <1>5, <3>2, LowestFacts
    <3> HIDE DEF k, s
    <3> DEFINE V == {s[i] : i \in DOMAIN s}
    <3>4. Cardinality(V) = k /\ V \subseteq Indexed
      BY <3>2, <3>3, ListCounts
    <3> HIDE DEF V
    <3>5. Cardinality(Indexed \ V) = Cardinality(Indexed) - k
      <4>1. Indexed \cap V = V
        BY <3>4
      <4> QED
        BY <1>1, <3>4, <4>1, FS_Difference
    <3>6. Cardinality(Indexed \ V) <= n
      BY <1>1, <1>2, <3>1, <3>2, <3>5 DEF SizesOK
    <3>7. call'[t].at = "del"
      BY <1>5 DEF StepsTo
    <3> QED
      BY <3>7, <3>6 DEF LeavesAtMost, Doomed, V, s
  <2>5. ASSUME NEW U \in SUBSET Evicting', U # {}
        PROVE  \E u \in U : LeavesAtMost(call'[u], Indexed', Room' + Cardinality(Late' \ U))
    <3> DEFINE n == Room + Cardinality(Late \ U)
    <3>1. n \in Nat /\ Room' + Cardinality(Late' \ U) = n
      BY <1>2, <2>1, <2>2 DEF SizesOK
    <3>2. PICK u \in U : LeavesAtMost(call[u], Indexed, n)
      BY <2>1, <2>5 DEF IndexInv, EvictionsSuffice
    <3> HIDE DEF n
    <3>3. LeavesAtMost(call'[u], Indexed, n)
      BY <2>1, <2>4, <3>1, <3>2
    <3> QED
      BY <1>1, <3>1, <3>3
  <2> QED
    BY <2>1, <2>3, <2>5 DEF IndexInv, EvictionsSuffice
<1> QED
  BY <1>1, <1>3, <1>4, <1>5, PickSteps

LEMMA DelIndexes == ASSUME IInv, IInv', IndexInv, NEW t \in Threads, Del(t) PROVE IndexInv'
<1>1. /\ call[t].at = "del" /\ StepsTo(t, "rem", call[t].time)
      /\ call'[t].victims = call[t].victims
      /\ index' = index /\ Indexed' = Indexed /\ (UNCHANGED bounds \/ Fault)
  BY DelSteps DEF Del, At, IInv, Indexed
<1>2. /\ Late' = Late /\ Evicting' = Evicting /\ HasExcess'
      /\ \A u \in Evicting \ {t} : call'[u] = call[u]
  <2>1. t \in Late /\ t \in Evicting
    BY <1>1 DEF Late, Evicting
  <2> QED
    BY <1>1, <2>1, StageSets DEF IndexInv
<1>3. Room' >= Room
  BY <1>1, RoomOfStep, Sizes DEF SizesOK
<1>4. call'[t].at # "range"
  BY <1>1 DEF StepsTo
<1> QED
  BY <1>1, <1>2, <1>3, <1>4, EvictionsStand DEF IndexInv

LEMMA HeadAndTail ==
    ASSUME NEW s \in Seq(Jtis), s # <<>>
    PROVE  /\ {s[i] : i \in DOMAIN s}
                = {Head(s)} \cup {Tail(s)[i] : i \in DOMAIN Tail(s)}
           /\ Tail(s) = <<>> => {s[i] : i \in DOMAIN s} = {Head(s)}
<1>1. /\ Len(s) \in Nat /\ Len(s) > 0 /\ DOMAIN s = 1..Len(s) /\ Head(s) = s[1]
      /\ Tail(s) \in Seq(Jtis) /\ Len(Tail(s)) = Len(s) - 1
      /\ DOMAIN Tail(s) = 1..(Len(s) - 1)
      /\ \A i \in 1..(Len(s) - 1) : Tail(s)[i] = s[i + 1]
  OBVIOUS
<1>2. \A i \in 1..Len(s) : i = 1 \/ (i - 1 \in 1..(Len(s) - 1) /\ s[i] = Tail(s)[i - 1])
  BY <1>1
<1>3. \A i \in 1..(Len(s) - 1) : i + 1 \in 1..Len(s)
  BY <1>1
<1>4. {s[i] : i \in DOMAIN s} = {Head(s)} \cup {Tail(s)[i] : i \in DOMAIN Tail(s)}
  <2>1. ASSUME NEW i \in DOMAIN s
        PROVE  s[i] \in {Head(s)} \cup {Tail(s)[l] : l \in DOMAIN Tail(s)}
    BY <1>1, <1>2
  <2>2. ASSUME NEW i \in DOMAIN Tail(s) PROVE Tail(s)[i] \in {s[l] : l \in DOMAIN s}
    BY <1>1, <1>3
  <2>3. Head(s) \in {s[l] : l \in DOMAIN s}
    BY <1>1
  <2> QED
    BY <2>1, <2>2, <2>3
<1>5. Tail(s) = <<>> => {Tail(s)[i] : i \in DOMAIN Tail(s)} = {}
  OBVIOUS
<1> QED
  BY <1>4, <1>5

LEMMA RemIndexes == ASSUME IInv, IInv', IndexInv, NEW t \in Threads, Rem(t) PROVE IndexInv'
<1> DEFINE s == call[t].victims
           v == Head(s)
<1>1. /\ call[t].at = "rem" /\ t \in Evicting /\ t \in Late
      /\ s \in Seq(Jtis) /\ s # <<>> /\ v \in Jtis
      /\ \/ index' = [index EXCEPT ![v] = Absent] /\ UNCHANGED bounds
         \/ Fault /\ index' \in {index, [index EXCEPT ![v] = Absent]}
  BY RemSteps, HeadTyped DEF Rem, At, IInv, Late, Evicting
<1>2. /\ Indexed' \subseteq Indexed /\ Indexed \subseteq Indexed' \cup {v}
      /\ ~Fault => Indexed' = Indexed \ {v} /\ UNCHANGED bounds
  BY <1>1, IndexShrinks DEF IInv
<1>3. SizesOK /\ SizesOK'
  BY Sizes, SizesNext
<1>4. /\ Doomed(call[t]) = {v} \cup {Tail(s)[i] : i \in DOMAIN Tail(s)}
      /\ Tail(s) = <<>> => Doomed(call[t]) = {v}
  BY <1>1, HeadAndTail DEF Doomed
<1> HIDE DEF v
<1>5. CASE StepsTo(t, "idle", 0) /\ Tail(s) = <<>>
  <2>1. /\ Late' = Late \ {t} /\ Evicting' = Evicting \ {t} /\ HasExcess'
        /\ \A u \in Evicting \ {t} : call'[u] = call[u]
    BY <1>5, StageSets DEF IndexInv
  <2>2. CASE Fault
    BY <1>2, <2>1, <2>2, RoomOfStep, FailureDeparts DEF IndexInv
  <2>3. CASE ~Fault
    <3>1. Indexed' \subseteq Indexed \ Doomed(call[t]) /\ Room' = Room
      BY <1>2, <1>4, <1>5, <2>3, RoomOfStep
    <3> QED
      BY <1>1, <2>1, <3>1, EvictionDeparts DEF IndexInv
  <2> QED
    BY <2>2, <2>3
<1>6. CASE StepsTo(t, "del", call[t].time) /\ call'[t].victims = Tail(s)
  <2>1. /\ Late' = Late /\ Evicting' = Evicting /\ HasExcess'
        /\ \A u \in Evicting \ {t} : call'[u] = call[u]
    <3>1. StepsTo(t, "del", call[t].time) /\ t \in Late /\ t \in Evicting /\ HasExcess
      BY <1>1, <1>6 DEF IndexInv
    <3> QED
      BY <3>1, StageSets
  <2>2. Doomed(call[t]) = {v} \cup Doomed(call'[t])
    BY <1>4, <1>6 DEF Doomed
  <2>3. IndexBounded'
    <3>1. Cardinality(Indexed') <= Cardinality(Indexed)
      BY <1>2, <1>3, FS_Subset DEF SizesOK
    <3>2. Room' >= Room
      BY <1>2, <1>3, RoomOfStep DEF SizesOK
    <3> QED
      BY <1>3, <2>1, <3>1, <3>2, BoundByRoom, BoundByRoomNext DEF IndexInv, SizesOK
  <2>4. ASSUME NEW n \in Nat, NEW m \in Nat, n <= m, Fault => n + 1 <= m,
               LeavesAtMost(call[t], Indexed, n)
        PROVE  LeavesAtMost(call'[t], Indexed', m)
    <3> DEFINE I == Indexed \ Doomed(call[t])
               J == Indexed' \ Doomed(call'[t])
    <3>1. IsFiniteSet(I) /\ Cardinality(I) <= n
      BY <1>1, <1>3, <2>4, FS_Subset DEF LeavesAtMost, SizesOK
    <3>2. J \subseteq I \cup {v} /\ (~Fault => J \subseteq I)
      BY <1>2, <2>2
    <3> HIDE DEF I, J
    <3>3. Cardinality(J) <= m
      <4>1. CASE Fault
        <5>1. Cardinality(J) <= Cardinality(I) + 1 /\ Cardinality(J) \in Nat
              /\ Cardinality(I) \in Nat
          BY <3>1, <3>2, OneMore
        <5> QED
          BY <2>4, <3>1, <4>1, <5>1
      <4>2. CASE ~Fault
        <5>1. /\ Cardinality(J) <= Cardinality(I) /\ Cardinality(J) \in Nat
              /\ Cardinality(I) \in Nat
          BY <3>1, <3>2, <4>2, FS_Subset, FS_CardinalityType
        <5> QED
          BY <2>4, <3>1, <5>1
      <4> QED
        BY <4>1, <4>2
    <3>4. call'[t].at = "del"
      BY <1>6 DEF StepsTo
    <3> QED
      BY <3>3, <3>4 DEF LeavesAtMost, J
  <2>5. ASSUME NEW U \in SUBSET Evicting', U # {}
        PROVE  \E u \in U : LeavesAtMost(call'[u], Indexed', Room' + Cardinality(Late' \ U))
    <3> DEFINE n == Room + Cardinality(Late \ U)
               m == Room' + Cardinality(Late \ U)
    <3>1. n \in Nat /\ m \in Nat /\ n <= m /\ (Fault => n + 1 <= m)
      <4> DEFINE a == Cardinality(Late \ U)
      <4>1. a \in Nat /\ Room \in Nat
        BY <1>3 DEF SizesOK
      <4>2. Room' = Room \/ Room' = Room + 1
        BY <1>2, RoomOfStep
      <4>3. Fault => Room' = Room + 1
        BY RoomOfStep
      <4> HIDE DEF a
      <4>4. /\ Room + a \in Nat /\ Room' + a \in Nat /\ Room + a <= Room' + a
            /\ Fault => Room + a + 1 <= Room' + a
        BY <4>1, <4>2, <4>3
      <4> QED
        BY <4>4 DEF a
    <3>2. PICK u \in U : LeavesAtMost(call[u], Indexed, n)
      BY <2>1, <2>5 DEF IndexInv, EvictionsSuffice
    <3>3. call[u].excess \in Nat /\ IsFiniteSet(Indexed) /\ Indexed' \in SUBSET Indexed
      BY <1>2, <2>1, CallTyped DEF IInv, Evicting
    <3> HIDE DEF n, m
    <3>4. LeavesAtMost(call'[u], Indexed', m)
      <4>1. CASE u = t
        BY <2>4, <3>1, <3>2, <4>1
      <4>2. CASE u # t
        <5>1. LeavesAtMost(call[u], Indexed', m)
          BY <3>1, <3>2, <3>3, LeavesLess
        <5>2. call'[u] = call[u]
          BY <2>1, <4>2
        <5> QED
          BY <5>1, <5>2
      <4> QED
        BY <4>1, <4>2
    <3> QED
      BY <2>1, <3>4 DEF m
  <2> QED
    BY <2>1, <2>3, <2>5 DEF IndexInv, EvictionsSuffice
<1> QED
  BY <1>5, <1>6, RemSteps DEF IInv

\* A step of a goroutine that is not on its way to an eviction.
LEMMA OthersIndex ==
    ASSUME IInv, IInv', IndexInv, NEW t \in Threads,
           NEW stage \in {"idle", "set", "add", "memory"}, NEW time,
           StepsTo(t, stage, time), t \notin Late, index' = index, UNCHANGED bounds \/ Fault
    PROVE  IndexInv'
<1>1. /\ Late' = Late /\ Evicting' = Evicting /\ HasExcess'
      /\ \A u \in Evicting : call'[u] = call[u]
  <2>1. t \notin Evicting
    BY Sizes DEF SizesOK
  <2> QED
    BY <2>1, StageSets DEF IndexInv
<1>2. Room' >= Room /\ Indexed' = Indexed
  BY RoomOfStep, Sizes DEF SizesOK, Indexed
<1> QED
  BY <1>1, <1>2, EvictionsStand DEF IndexInv

LEMMA RestartIndexes == ASSUME IInv, IInv', IndexInv, Restart PROVE IndexInv'
<1>1. /\ Indexed' = Indexed /\ Late' = {} /\ Evicting' = {} /\ HasExcess'
      /\ restarts' = restarts + 1 /\ faults' = faults
  BY DEF Restart, redis, Idle, Indexed, Late, Evicting, HasExcess
<1>2. Room' = Room + Cardinality(Threads)
  BY <1>1, RoomOfRestart
<1>3. Cardinality(Indexed') <= Room'
  <2>1. Cardinality(Indexed) <= Room + Cardinality(Late)
    BY BoundByRoom DEF IndexInv
  <2>2. /\ Cardinality(Late) <= Cardinality(Threads) /\ Cardinality(Late) \in Nat
        /\ Cardinality(Threads) \in Nat /\ Room \in Nat /\ Cardinality(Indexed) \in Nat
    BY Sizes, ThreadsAssumption, FS_CardinalityType DEF SizesOK
  <2> QED
    BY <1>1, <1>2, <2>1, <2>2
<1> QED
  BY <1>1, <1>3, LittleLeft DEF IndexInv

LEMMA NextIndexInv == IInv /\ IInv' /\ IndexInv /\ [Next]_vars => IndexInv'
<1> SUFFICES ASSUME IInv, IInv', IndexInv, [Next]_vars PROVE IndexInv'
  OBVIOUS
<1> USE DEF redis, At, Late
<1>1. CASE Tick \/ UNCHANGED vars
  <2>1. UNCHANGED <<index, call, faults, restarts>>
    BY <1>1 DEF Tick, vars, bounds
  <2>2. Indexed' = Indexed /\ Late' = Late /\ Evicting' = Evicting /\ HasExcess'
    BY <2>1 DEF Indexed, Evicting, IndexInv, HasExcess
  <2>3. Room' >= Room
    BY <2>1, RoomOfStep, Sizes DEF SizesOK, bounds
  <2> QED
    BY <2>1, <2>2, <2>3, EvictionsStand DEF IndexInv
<1>2. ASSUME NEW t \in Threads, NEW j \in Jtis, Enter(t, j) PROVE IndexInv'
  BY <1>2, EnterSteps, OthersIndex DEF Enter, IInv
<1>3. ASSUME NEW t \in Threads, Claim(t) PROVE IndexInv'
  BY <1>3, ClaimSteps, OthersIndex DEF Claim, IInv
<1>4. ASSUME NEW t \in Threads, Refuse(t) PROVE IndexInv'
  BY <1>4, Returns, OthersIndex DEF Refuse, IInv
<1>5. ASSUME NEW t \in Threads, SetFails(t) PROVE IndexInv'
  BY <1>5, SetFailsSteps, OthersIndex DEF SetFails, IInv
<1>6. ASSUME NEW t \in Threads, Keep(t) PROVE IndexInv'
  BY <1>6, Returns, OthersIndex DEF Keep, IInv
<1>7. ASSUME NEW t \in Threads, RefuseKept(t) PROVE IndexInv'
  BY <1>7, Returns, OthersIndex DEF RefuseKept, IInv
<1> QED
  BY <1>1, <1>2, <1>3, <1>4, <1>5, <1>6, <1>7, AddIndexes, CardIndexes, PickIndexes,
     DelIndexes, RemIndexes, RestartIndexes DEF Next

\* The index outgrows its capacity by no more than the goroutines that are about
\* to evict and the failures, although they evict each other's victims
\* (markIfNew).
THEOREM IndexStaysBounded == Spec => []IndexBounded
<1>1. Init => IndexInv
  <2> SUFFICES ASSUME Init PROVE IndexInv
    OBVIOUS
  <2>1. Indexed = {} /\ Evicting = {} /\ Late = {} /\ HasExcess /\ faults = 0 /\ restarts = 0
    BY InitTypeOK DEF Init, Idle, Evicting, Late, HasExcess
  <2>2. Cardinality({}) = 0 /\ Cardinality(Threads) \in Nat /\ MaxEntries \in Nat
    BY FS_EmptySet, ThreadsAssumption, FS_CardinalityType, MaxEntriesAssumption
  <2>3. Room = MaxEntries
    BY <2>1, <2>2 DEF Room
  <2> QED
    BY <2>1, <2>2, <2>3, BoundByRoom DEF IndexInv, EvictionsSuffice
<1>2. IndexInv => IndexBounded
  BY DEF IndexInv
<1> QED
  BY <1>1, <1>2, NextIndexInv, Inductive, PTL DEF Spec

-----------------------------------------------------------------------------
(* Who is refused.                                                         *)

\* A key that is set is what is left of the window of an acceptance, or was set
\* for a call that did not learn it; and the store holds what it accepted.
Owed ==
    \A j \in Jtis :
        /\ left[j] > 0 /\ j \notin unanswered =>
             claimed[j] # Absent /\ left[j] <= TTL - (clock - claimed[j])
        /\ items[j] # Absent => kept[j] # Absent

\* Steps that leave the keys, and the store, alone.
LEMMA OwedUntouched ==
    ASSUME Owed, UNCHANGED <<clock, left, items, claimed, kept, unanswered>> PROVE Owed'
  BY DEF Owed

LEMMA TickOwed == ASSUME IInv, Owed, Tick PROVE Owed'
<1>1. /\ clock' = clock + 1 /\ items' = items /\ claimed' = claimed /\ kept' = kept
      /\ unanswered' = unanswered
      /\ \A j \in Jtis : left'[j] = IF left[j] > 0 THEN left[j] - 1 ELSE 0
  BY DEF Tick, memory, history
<1>2. clock \in Nat /\ TTL \in Nat
  BY Numbers DEF IInv
<1>3. ASSUME NEW j \in Jtis, left'[j] > 0, j \notin unanswered
      PROVE  claimed[j] # Absent /\ left'[j] <= TTL - (clock' - claimed[j])
  <2>1. left[j] \in Nat /\ claimed[j] \in Int /\ left'[j] = IF left[j] > 0 THEN left[j] - 1 ELSE 0
    BY <1>1, Numbers DEF IInv
  <2>2. left[j] > 0 /\ left'[j] = left[j] - 1
    BY <1>3, <2>1
  <2>3. claimed[j] # Absent /\ left[j] <= TTL - (clock - claimed[j])
    BY <1>3, <2>2 DEF Owed
  <2> QED
    BY <1>1, <1>2, <2>1, <2>2, <2>3
<1> QED
  BY <1>1, <1>3 DEF Owed

LEMMA ClaimOwed == ASSUME IInv, Owed, NEW t \in Threads, Claim(t) PROVE Owed'
<1>1. /\ left' = [left EXCEPT ![Jti(t)] = TTL] /\ claimed' = [claimed EXCEPT ![Jti(t)] = clock]
      /\ unanswered' = unanswered \ {Jti(t)} /\ UNCHANGED <<clock, items, kept>>
  BY DEF Claim, memory
<1>2. /\ clock \in Nat /\ TTL \in Nat /\ Absent = -1 /\ left \in [Jtis -> 0..TTL]
      /\ claimed \in [Jtis -> 0..MaxTime \cup {Absent}]
  BY Numbers DEF IInv, TypeOK
<1>3. ASSUME NEW j \in Jtis, left'[j] > 0, j \notin unanswered'
      PROVE  claimed'[j] # Absent /\ left'[j] <= TTL - (clock - claimed'[j])
  <2>1. CASE j = Jti(t)
    BY <1>1, <1>2, <2>1
  <2>2. CASE j # Jti(t)
    BY <1>1, <1>2, <1>3, <2>2 DEF Owed
  <2> QED
    BY <2>1, <2>2
<1> QED
  BY <1>1, <1>3 DEF Owed

LEMMA SetFailsOwed == ASSUME IInv, Owed, NEW t \in Threads, SetFails(t) PROVE Owed'
<1>1. /\ left' \in {left, [left EXCEPT ![Jti(t)] = IF left[Jti(t)] = 0 THEN TTL
                                                   ELSE left[Jti(t)]]}
      /\ unanswered' = IF left' # left THEN unanswered \cup {Jti(t)} ELSE unanswered
      /\ UNCHANGED <<clock, items, claimed, kept>>
  BY DEF SetFails, memory
<1>2. left \in [Jtis -> 0..TTL]
  BY DEF IInv, TypeOK
<1>3. \A j \in Jtis : j \notin unanswered' => left'[j] = left[j] /\ j \notin unanswered
  BY <1>1, <1>2
<1> QED
  BY <1>1, <1>3 DEF Owed

LEMMA DelOwed == ASSUME IInv, Owed, NEW t \in Threads, Del(t) PROVE Owed'
<1> DEFINE v == Head(call[t].victims)
<1>1. /\ left' \in {left, [left EXCEPT ![v] = 0]}
      /\ UNCHANGED <<clock, items, claimed, kept, unanswered>>
  BY DEF Del, memory
<1>2. left \in [Jtis -> 0..TTL]
  BY DEF IInv, TypeOK
<1> HIDE DEF v
<1>3. \A j \in Jtis : left'[j] = left[j] \/ left'[j] = 0
  BY <1>1, <1>2
<1> QED
  BY <1>1, <1>3 DEF Owed

LEMMA KeepOwed == ASSUME IInv, Owed, NEW t \in Threads, Keep(t) PROVE Owed'
<1> DEFINE n == call[t].time
<1>1. /\ kept' = [kept EXCEPT ![Jti(t)] = n] /\ RecordNew(Jti(t), n)
      /\ UNCHANGED <<clock, left, claimed, unanswered>>
  BY DEF Keep, redis
<1>2. /\ Jti(t) \in Jtis /\ n \in Nat /\ StoreTypeOK /\ Absent = -1
      /\ kept \in [Jtis -> 0..MaxTime \cup {Absent}]
  BY CallTyped, Numbers DEF Keep, At, Jti, IInv, TypeOK
<1>3. \A k \in Jtis \ {Jti(t)} : items'[k] = Purged(n)[k] \/ items'[k] = Absent
  BY <1>1, <1>2, RecordNewFacts
<1>4. \A k \in Jtis : Purged(n)[k] # Absent => Purged(n)[k] = items[k]
  BY <1>2, PurgedFacts
<1>5. ASSUME NEW j \in Jtis, items'[j] # Absent PROVE kept'[j] # Absent
  <2>1. CASE j = Jti(t)
    BY <1>1, <1>2, <2>1
  <2>2. CASE j # Jti(t)
    BY <1>1, <1>2, <1>3, <1>4, <1>5, <2>2 DEF Owed
  <2> QED
    BY <2>1, <2>2
<1> QED
  BY <1>1, <1>5 DEF Owed

LEMMA RefuseKeptOwed == ASSUME IInv, Owed, NEW t \in Threads, RefuseKept(t) PROVE Owed'
<1> DEFINE n == call[t].time
<1>1. items' = Purged(n) /\ UNCHANGED <<clock, left, claimed, kept, unanswered>>
  BY DEF RefuseKept, RejectReplay, redis, history
<1>2. \A k \in Jtis : Purged(n)[k] # Absent => Purged(n)[k] = items[k]
  BY PurgedFacts, Numbers DEF IInv, TypeOK
<1> QED
  BY <1>1, <1>2 DEF Owed

LEMMA RestartOwed == ASSUME IInv, Owed, Restart PROVE Owed'
<1>1. /\ UNCHANGED <<clock, left, claimed, unanswered>>
      /\ \A j \in Jtis : items'[j] = Absent
  BY DEF Restart, redis
<1> QED
  BY <1>1 DEF Owed

LEMMA NextOwed == IInv /\ Owed /\ [Next]_vars => Owed'
<1> SUFFICES ASSUME IInv, Owed, [Next]_vars PROVE Owed'
  OBVIOUS
<1>1. CASE \/ UNCHANGED vars
           \/ \E t \in Threads, j \in Jtis : Enter(t, j)
           \/ \E t \in Threads : Refuse(t) \/ Add(t) \/ Card(t) \/ PickVictims(t) \/ Rem(t)
  <2>1. UNCHANGED <<clock, left, items, claimed, kept, unanswered>>
    BY <1>1 DEF vars, Enter, Refuse, Add, Card, PickVictims, Rem, redis, memory, history
  <2> QED
    BY <2>1, OwedUntouched
<1> QED
  BY <1>1, TickOwed, ClaimOwed, SetFailsOwed, DelOwed, KeepOwed, RefuseKeptOwed, RestartOwed
  DEF Next

LEMMA RefusesOwed ==
    ASSUME IInv, Owed, NEW t \in Threads
    PROVE  /\ Refuse(t) => Recent(claimed[Jti(t)]) \/ Jti(t) \in unanswered
           /\ RefuseKept(t) => kept[Jti(t)] # Absent
<1>1. ASSUME Refuse(t), Jti(t) \notin unanswered PROVE Recent(claimed[Jti(t)])
  <2>1. Jti(t) \in Jtis /\ left[Jti(t)] > 0
    BY <1>1, CallTyped DEF Refuse, At, Jti, IInv
  <2>2. /\ claimed[Jti(t)] # Absent /\ claimed[Jti(t)] \in Int /\ left[Jti(t)] \in Nat
        /\ left[Jti(t)] <= TTL - (clock - claimed[Jti(t)]) /\ clock \in Nat /\ TTL \in Nat
    BY <1>1, <2>1, Numbers DEF Owed, IInv
  <2> QED
    BY <2>1, <2>2 DEF Recent
<1>2. ASSUME RefuseKept(t) PROVE kept[Jti(t)] # Absent
  <2>1. Jti(t) \in Jtis /\ Purged(call[t].time)[Jti(t)] # Absent
    BY <1>2, CallTyped DEF RefuseKept, RejectReplay, Present, At, Jti, IInv
  <2>2. items[Jti(t)] # Absent
    BY <2>1, PurgedFacts, Numbers DEF IInv, TypeOK
  <2> QED
    BY <2>1, <2>2 DEF Owed
<1> QED
  BY <1>1, <1>2

\* Nobody is refused for nothing: a jti that Redis refuses was accepted within the
\* window or set by a call that lost its answer, and one that the fallback refuses
\* was accepted by it (MarkIfNew).
THEOREM RefusalsHaveCause == Spec => RefusedForCause
<1>1. Init => Owed
  BY DEF Init, StoreInit, Owed
<1>2. IInv /\ Owed /\ [Next]_vars =>
        [\A t \in Threads :
           /\ Refuse(t) => Recent(claimed[Jti(t)]) \/ Jti(t) \in unanswered
           /\ RefuseKept(t) => kept[Jti(t)] # Absent]_vars
  BY RefusesOwed
<1> QED
  BY <1>1, <1>2, NextOwed, Inductive, PTL DEF Spec, RefusedForCause

-----------------------------------------------------------------------------
(* When Redis gives up a jti.                                              *)

\* The jtis that Redis ever accepted.
Ever == {j \in Jtis : claimed[j] # Absent}

\* The index holds jtis that Redis accepted, and whoever evicts has counted more
\* of them than there is room for.
Overflow ==
    /\ IsFiniteSet(Ever) /\ Indexed \subseteq Ever
    /\ \A t \in Threads : call[t].at = "add" => call[t].jti \in Ever
    /\ deleted # {} \/ Evicting # {} => Cardinality(Ever) > MaxEntries

\* A step that accepts nothing in Redis.
LEMMA OverflowKept ==
    ASSUME Overflow, UNCHANGED claimed, Indexed' \subseteq Ever,
           \A t \in Threads : call'[t].at = "add" => call'[t] = call[t],
           deleted' # {} \/ Evicting' # {} =>
             deleted # {} \/ Evicting # {} \/ Cardinality(Ever) > MaxEntries
    PROVE  Overflow'
<1>1. Ever' = Ever
  BY DEF Ever
<1> QED
  BY <1>1 DEF Overflow

\* A step of one goroutine that goes neither to the index nor to an eviction.
LEMMA OverflowAside ==
    ASSUME Overflow, NEW t \in Threads,
           NEW stage \in {"idle", "set", "memory", "card", "rem", "del"}, NEW time,
           StepsTo(t, stage, time), UNCHANGED claimed, Indexed' \subseteq Ever,
           stage \in {"rem", "del"} => t \in Evicting,
           deleted' # {} => deleted # {} \/ t \in Evicting
    PROVE  Overflow'
<1>1. \A u \in Threads : call'[u].at = "add" => call'[u] = call[u]
  BY DEF StepsTo
<1>2. Evicting' # {} => Evicting # {}
  BY DEF StepsTo, Evicting
<1> QED
  BY <1>1, <1>2, OverflowKept

LEMMA ClaimOverflow == ASSUME IInv, IInv', Overflow, NEW t \in Threads, Claim(t) PROVE Overflow'
<1>1. /\ claimed' = [claimed EXCEPT ![Jti(t)] = clock] /\ index' = index
      /\ deleted' \subseteq deleted /\ call'[t].jti = Jti(t)
      /\ \A u \in Threads \ {t} : call'[u] = call[u]
      /\ StepsTo(t, "add", clock) /\ Jti(t) \in Jtis
  <2>1. /\ claimed' = [claimed EXCEPT ![Jti(t)] = clock] /\ index' = index
        /\ deleted' \subseteq deleted
    BY DEF Claim
  <2>2. call'[t].jti = Jti(t)
    BY CallTyped DEF Claim, Jti, IInv, TypeOK, Calls
  <2> QED
    BY <2>1, <2>2, ClaimSteps, CallTyped DEF StepsTo, IInv, Claim, At, Jti
<1>2. Ever' = Ever \cup {Jti(t)}
  <2>1. clock # Absent /\ claimed \in [Jtis -> 0..MaxTime \cup {Absent}]
    BY Numbers DEF IInv, TypeOK
  <2> QED
    BY <1>1, <2>1 DEF Ever
<1>3. IsFiniteSet(Ever') /\ Cardinality(Ever') >= Cardinality(Ever) /\ Cardinality(Ever) \in Nat
      /\ Cardinality(Ever') \in Nat
  <2>1. IsFiniteSet(Ever)
    BY DEF Overflow
  <2>2. /\ IsFiniteSet(Ever \cup {Jti(t)})
        /\ \/ Cardinality(Ever \cup {Jti(t)}) = Cardinality(Ever)
           \/ Cardinality(Ever \cup {Jti(t)}) = Cardinality(Ever) + 1
    BY <2>1, FS_AddElement
  <2>3. Cardinality(Ever) \in Nat /\ Cardinality(Ever \cup {Jti(t)}) \in Nat
    BY <2>1, <2>2, FS_CardinalityType
  <2> QED
    BY <1>2, <2>2, <2>3
<1>4. Indexed' \subseteq Ever'
  BY <1>1, <1>2 DEF Overflow, Indexed
<1>5. \A u \in Threads : call'[u].at = "add" => call'[u].jti \in Ever'
  BY <1>1, <1>2 DEF Overflow
<1>6. deleted' # {} \/ Evicting' # {} => deleted # {} \/ Evicting # {}
  BY <1>1 DEF StepsTo, Evicting
<1>7. deleted' # {} \/ Evicting' # {} => Cardinality(Ever') > MaxEntries
  BY <1>3, <1>6, MaxEntriesAssumption DEF Overflow
<1> QED
  BY <1>3, <1>4, <1>5, <1>7 DEF Overflow

LEMMA AddOverflow == ASSUME IInv, Overflow, NEW t \in Threads, Add(t) PROVE Overflow'
<1>1. /\ claimed' = claimed /\ deleted' = deleted /\ Jti(t) \in Ever /\ Jti(t) \in Jtis
      /\ call[t].time \in 0..MaxTime /\ TypeOK /\ IsFiniteSet(Indexed)
      /\ index' \in {index, [index EXCEPT ![Jti(t)] = call[t].time]}
  BY CallTyped DEF Add, At, Jti, history, Overflow, IInv
<1>2. Indexed' \subseteq Ever
  BY <1>1, IndexGrows DEF Overflow
<1> QED
  BY <1>1, <1>2, AddSteps, OverflowAside

\* Who counts too many has counted jtis that were accepted.
LEMMA CardOverflow == ASSUME IInv, Overflow, NEW t \in Threads, Card(t) PROVE Overflow'
<1>1. /\ claimed' = claimed /\ deleted' = deleted /\ Indexed' = Indexed /\ TypeOK
      /\ IsFiniteSet(Indexed) /\ Indexed \subseteq Ever
  BY DEF Card, redis, history, Indexed, Overflow, IInv
<1>2. CASE StepsTo(t, "idle", 0)
  BY <1>1, <1>2, OverflowAside
<1>3. CASE StepsTo(t, "range", call[t].time) /\ call'[t].excess > 0
           /\ Cardinality(Indexed) = MaxEntries + call'[t].excess
  <2>1. /\ Cardinality(Indexed) <= Cardinality(Ever)
        /\ Cardinality(Indexed) \in Nat /\ Cardinality(Ever) \in Nat
    BY <1>1, FS_Subset, FS_CardinalityType DEF Overflow
  <2>2. call'[t].excess \in Nat
    BY <1>3 DEF StepsTo, Calls
  <2>3. Cardinality(Ever) > MaxEntries
    BY <1>3, <2>1, <2>2, MaxEntriesAssumption
  <2>4. \A u \in Threads : call'[u].at = "add" => call'[u] = call[u]
    BY <1>3 DEF StepsTo
  <2> QED
    BY <1>1, <2>3, <2>4, OverflowKept
<1> QED
  BY <1>1, <1>2, <1>3, CardSteps

LEMMA PickOverflow == ASSUME IInv, Overflow, NEW t \in Threads, PickVictims(t) PROVE Overflow'
<1>1. /\ claimed' = claimed /\ deleted' = deleted /\ Indexed' = Indexed /\ TypeOK
      /\ IsFiniteSet(Indexed) /\ Indexed \subseteq Ever /\ t \in Evicting
  BY DEF PickVictims, redis, history, Indexed, Overflow, IInv, At, Evicting
<1>2. StepsTo(t, "idle", 0) \/ StepsTo(t, "del", call[t].time)
  BY <1>1, PickSteps
<1> QED
  BY <1>1, <1>2, OverflowAside

LEMMA DelOverflow == ASSUME IInv, Overflow, NEW t \in Threads, Del(t) PROVE Overflow'
<1>1. /\ claimed' = claimed /\ Indexed' = Indexed /\ TypeOK /\ Indexed \subseteq Ever
      /\ t \in Evicting
  BY DEF Del, Indexed, Overflow, IInv, At, Evicting
<1> QED
  BY <1>1, DelSteps, OverflowAside

LEMMA RemOverflow == ASSUME IInv, Overflow, NEW t \in Threads, Rem(t) PROVE Overflow'
<1>1. /\ claimed' = claimed /\ deleted' = deleted /\ TypeOK /\ IsFiniteSet(Indexed)
      /\ t \in Evicting
  BY DEF Rem, history, IInv, At, Evicting
<1>2. /\ Head(call[t].victims) \in Jtis
      /\ index' \in {index, [index EXCEPT ![Head(call[t].victims)] = Absent]}
  BY <1>1, RemSteps, HeadTyped DEF Rem
<1>3. Indexed' \subseteq Ever
  BY <1>1, <1>2, IndexShrinks DEF Overflow
<1>4. StepsTo(t, "idle", 0) \/ StepsTo(t, "del", call[t].time)
  BY <1>1, RemSteps
<1> QED
  BY <1>1, <1>3, <1>4, OverflowAside

LEMMA NextOverflow == IInv /\ IInv' /\ Overflow /\ [Next]_vars => Overflow'
<1> SUFFICES ASSUME IInv, IInv', Overflow, [Next]_vars PROVE Overflow'
  OBVIOUS
<1>0. Indexed \subseteq Ever /\ TypeOK
  BY DEF Overflow, IInv
<1>1. CASE Tick \/ UNCHANGED vars
  <2>1. UNCHANGED <<claimed, index, call, deleted>>
    BY <1>1 DEF Tick, vars, redis, history
  <2> QED
    BY <1>0, <2>1, OverflowKept DEF Indexed, Evicting
<1>2. CASE Restart
  <2>1. UNCHANGED <<claimed, index, deleted>> /\ \A t \in Threads : call'[t].at = "idle"
    BY <1>2 DEF Restart, redis, Idle
  <2> QED
    BY <1>0, <2>1, OverflowKept DEF Indexed, Evicting
<1>3. ASSUME NEW t \in Threads, NEW j \in Jtis, Enter(t, j) PROVE Overflow'
  <2>1. UNCHANGED <<claimed, index, deleted>>
    BY <1>3 DEF Enter, redis, history
  <2> QED
    BY <1>0, <1>3, <2>1, EnterSteps, OverflowAside DEF Indexed
<1>4. ASSUME NEW t \in Threads, Refuse(t) \/ Keep(t) \/ RefuseKept(t) PROVE Overflow'
  <2>1. UNCHANGED <<claimed, index, deleted>> /\ StepsTo(t, "idle", 0)
    BY <1>0, <1>4, Returns DEF Refuse, Keep, RefuseKept, redis, history
  <2> QED
    BY <1>0, <2>1, OverflowAside DEF Indexed
<1>5. ASSUME NEW t \in Threads, SetFails(t) PROVE Overflow'
  <2>1. UNCHANGED <<claimed, index, deleted>> /\ StepsTo(t, "memory", clock)
    BY <1>0, <1>5, SetFailsSteps DEF SetFails
  <2> QED
    BY <1>0, <2>1, OverflowAside DEF Indexed
<1> QED
  BY <1>1, <1>2, <1>3, <1>4, <1>5, ClaimOverflow, AddOverflow, CardOverflow, PickOverflow,
     DelOverflow, RemOverflow DEF Next

\* Redis accepts a jti twice within the window only after more jtis than the index
\* has room for: with as many jtis or fewer it never does, over all failures and
\* restarts of ext_authz (markIfNew).
THEOREM ReplaysNeedOverflow == Spec => ReplayNeedsOverflow
<1>1. Init => Overflow
  <2> SUFFICES ASSUME Init PROVE Overflow
    OBVIOUS
  <2>1. Ever = {} /\ Indexed = {} /\ deleted = {} /\ Evicting = {}
        /\ \A t \in Threads : call[t].at = "idle"
    BY InitTypeOK DEF Init, Ever, Evicting, Idle
  <2> QED
    BY <2>1, FS_EmptySet DEF Overflow
<1>2. IInv /\ Overflow /\ [Next]_vars =>
        [\A t \in Threads :
           Claim(t) /\ Recent(claimed[Jti(t)])
             => Cardinality({j \in Jtis : claimed[j] # Absent}) > MaxEntries]_vars
  <2> SUFFICES ASSUME IInv, Overflow, NEW t \in Threads, Claim(t), Recent(claimed[Jti(t)])
               PROVE  Cardinality({j \in Jtis : claimed[j] # Absent}) > MaxEntries
    OBVIOUS
  <2>1. deleted # {}
    BY ClaimOnce
  <2> QED
    BY <2>1 DEF Overflow, Ever
<1> QED
  BY <1>1, <1>2, NextOverflow, NextIInv, Inductive, PTL DEF Spec, ReplayNeedsOverflow

-----------------------------------------------------------------------------
(* The fallback is a ledger of one-time identifiers.                       *)

\* What a purge leaves is the ledger with the entries that are left alone, and
\* every entry it drops has expired (purgeExpired).
LEMMA PurgeKeeps ==
    ASSUME TypeOK, NEW n \in Nat, n <= clock
    PROVE  /\ Present(Purged(n)) \in SUBSET Fallback!Held
           /\ Fallback!Keeps(Present(Purged(n)))
           /\ Fallback!Only(Present(Purged(n))) = Purged(n)
<1>1. /\ Purged(n) \in [Jtis -> Nat \cup {Absent}] /\ items \in [Jtis -> Nat \cup {Absent}]
      /\ Absent = -1 /\ clock \in Nat /\ TTL \in Nat
  BY PurgedFacts, Numbers DEF TypeOK, StoreTypeOK
<1>2. \A j \in Jtis : \/ Purged(n)[j] = items[j]
                      \/ Purged(n)[j] = Absent /\ n - items[j] > TTL
  BY <1>1 DEF Purged
<1>3. Present(Purged(n)) \in SUBSET Fallback!Held
  BY <1>1, <1>2 DEF Present, Fallback!Held, Fallback!Never
<1>4. Fallback!Keeps(Present(Purged(n)))
  BY <1>1, <1>2
     DEF Present, Fallback!Keeps, Fallback!Held, Fallback!Expired, Fallback!Never
<1>5. Fallback!Only(Present(Purged(n))) = Purged(n)
  BY <1>1, <1>2 DEF Present, Fallback!Only, Fallback!Never
<1> QED
  BY <1>3, <1>4, <1>5

\* An acceptance under a time that has come is a grant of the ledger.
LEMMA KeepGrants ==
    ASSUME IInv, NEW t \in Threads, Keep(t)
    PROVE  Fallback!Grant
<1> DEFINE n == call[t].time
           kept1 == Present(Purged(n))
<1>1. /\ Jti(t) \in Jtis /\ n \in Nat /\ n <= clock /\ clock \in Nat /\ UNCHANGED clock
      /\ RecordNew(Jti(t), n) /\ TypeOK /\ StoreTypeOK
  BY CallTyped, Numbers DEF Keep, At, Jti, IInv, Passed, TypeOK
<1> HIDE DEF n
<1>2. /\ kept1 \in SUBSET Fallback!Held /\ Fallback!Keeps(kept1)
      /\ Fallback!Only(kept1) = Purged(n)
  BY <1>1, PurgeKeeps
<1>3. Jti(t) \in Jtis \ kept1 /\ n \in 0..clock
  BY <1>1 DEF RecordNew
<1>4. Full(Purged(n)) <=> Fallback!Full(kept1)
  BY DEF Full, Fallback!Full, Cardinality, Fallback!Cardinality
<1>5. CASE ~Fallback!Full(kept1)
  <2>1. items' = [Fallback!Only(kept1) EXCEPT ![Jti(t)] = n]
    BY <1>1, <1>2, <1>4, <1>5 DEF RecordNew
  <2> QED
    BY <1>1, <1>2, <1>3, <1>5, <2>1 DEF Fallback!Grant
<1>6. CASE Fallback!Full(kept1)
  <2>1. PICK v \in Oldest(Purged(n)) :
          items' = [Purged(n) EXCEPT ![v] = Absent, ![Jti(t)] = n]
    BY <1>1, <1>4, <1>6 DEF RecordNew
  <2>2. /\ v \in kept1
        /\ items' = [Fallback!Only(kept1) EXCEPT ![v] = Fallback!Never, ![Jti(t)] = n]
    BY <1>2, <2>1 DEF Oldest, Absent, Fallback!Never
  <2>3. \A l \in kept1 : Purged(n)[l] = items[l]
    BY <1>1, PurgedFacts DEF Present
  <2>4. \A l \in kept1 : items[v] <= items[l]
    BY <2>1, <2>2, <2>3 DEF Oldest
  <2> QED
    BY <1>1, <1>2, <1>3, <1>6, <2>2, <2>4 DEF Fallback!Grant
<1> QED
  BY <1>5, <1>6

LEMMA RefuseKeptRefuses ==
    ASSUME IInv, NEW t \in Threads, RefuseKept(t)
    PROVE  Fallback!Refuse
<1> DEFINE kept1 == Present(Purged(call[t].time))
<1>1. call[t].time \in Nat /\ call[t].time <= clock /\ UNCHANGED clock /\ TypeOK
  BY CallTyped DEF RefuseKept, IInv, Passed
<1>2. /\ kept1 \in SUBSET Fallback!Held /\ Fallback!Keeps(kept1)
      /\ Fallback!Only(kept1) = Purged(call[t].time)
  BY <1>1, PurgeKeeps
<1>3. kept1 # {} /\ items' = Fallback!Only(kept1)
  BY <1>2 DEF RefuseKept, RejectReplay
<1> QED
  BY <1>1, <1>2, <1>3 DEF Fallback!Refuse

\* The in-memory store behind a failing Redis implements the ledger that every
\* replay cache promises: goroutines that come to it late, with the time they read
\* before their command failed, make it forget nothing (markIfNewInMemory).
THEOREM FallbackKeepsLedger == Spec => FallbackIsLedger
<1>1. Init => Fallback!Init
  BY DEF Init, StoreInit, Absent, Fallback!Init, Fallback!Never
<1>2. IInv /\ [Next]_vars => [Fallback!Next]_<<items, clock>>
  <2> SUFFICES ASSUME IInv, [Next]_vars PROVE [Fallback!Next]_<<items, clock>>
    OBVIOUS
  <2>1. CASE Tick
    <3>1. clock \in Nat /\ clock' = clock + 1 /\ items' = items
      BY <2>1, Numbers DEF Tick, memory, IInv
    <3> QED
      BY <3>1 DEF Fallback!Next, Fallback!Pass
  <2>2. CASE Restart
    BY <2>2 DEF Restart, Absent, Fallback!Next, Fallback!Crash, Fallback!Never
  <2>3. CASE \E t \in Threads : Keep(t) \/ RefuseKept(t)
    BY <2>3, KeepGrants, RefuseKeptRefuses DEF Fallback!Next
  <2>4. CASE \/ UNCHANGED vars
             \/ \E t \in Threads, j \in Jtis : Enter(t, j)
             \/ \E t \in Threads : \/ Claim(t) \/ Refuse(t) \/ SetFails(t) \/ Add(t) \/ Card(t)
                                   \/ PickVictims(t) \/ Del(t) \/ Rem(t)
    BY <2>4 DEF vars, memory, Enter, Claim, Refuse, SetFails, Add, Card, PickVictims, Del, Rem
  <2> QED
    BY <2>1, <2>2, <2>3, <2>4 DEF Next
<1> QED
  BY <1>1, <1>2, Inductive, PTL DEF Spec, FallbackIsLedger, Fallback!Spec
=============================================================================
