------------------------- MODULE RateLimiterProofs -------------------------
(***************************************************************************)
(* The quota of fixed windows, for every number of calls, quota and window.*)
(* The requests allowed for a key are numbered in the order of the mutex;  *)
(* the last count of them belong to the bucket.  Those before it were      *)
(* allowed less than MaxLag after its start, and those a whole quota       *)
(* before it a window earlier than that, so a span of Window - MaxLag that *)
(* reaches into the bucket holds at most the bucket and one quota more.    *)
(***************************************************************************)
EXTENDS RateLimiter, FiniteSetTheorems, TLAPS

\* Of a key with a bucket: how many requests were allowed before the bucket.
Earlier(k) == Len(granted[k]) - state[k].count

\* No call waits longer than MaxLag for the mutex.
LagBounded ==
    \A t \in Threads : call[t] # NoCall =>
        call[t].stamp <= clock /\ clock - call[t].stamp <= MaxLag

\* A bucket counts at least the request that opened it, at most the quota, and
\* only what was allowed since its start.
Counts(k) ==
    state[k] # NoBucket =>
        /\ state[k].count \in 1..MaxRequests /\ state[k].count <= Len(granted[k])
        /\ state[k].startAt <= clock
        /\ \A i \in 1..Len(granted[k]) :
              i > Earlier(k) => granted[k][i] >= state[k].startAt

\* What was allowed up to now, before the bucket, and before the one before it.
Follows(k) ==
    state[k] # NoBucket =>
        \A i \in 1..Len(granted[k]) :
            /\ granted[k][i] < state[k].startAt + Window + MaxLag
            /\ i <= Earlier(k) => granted[k][i] < state[k].startAt + MaxLag
            /\ i <= Earlier(k) - MaxRequests =>
                  granted[k][i] < state[k].startAt - Window + MaxLag

\* A key without a bucket was allowed nothing, and nothing was in the future.
Passed(k) ==
    /\ state[k] = NoBucket => granted[k] = <<>>
    /\ \A i \in 1..Len(granted[k]) : granted[k][i] <= clock

\* BurstBounded, of one key.
Bounded(k) ==
    \A n \in 0..MaxTime : Granted(k, n, n + Window - MaxLag) <= 2 * MaxRequests

KeyInv(k) == Counts(k) /\ Follows(k) /\ Passed(k) /\ Bounded(k)

IInv == TypeOK /\ LagBounded /\ \A k \in Keys : KeyInv(k)

-----------------------------------------------------------------------------
LEMMA CallTyped ==
    ASSUME TypeOK, NEW t \in Threads, call[t] # NoCall
    PROVE  call[t] \in Calls /\ call[t].key \in Keys /\ call[t].stamp \in Nat
  BY DEF TypeOK, Calls

LEMMA BucketTyped ==
    ASSUME TypeOK, NEW k \in Keys, state[k] # NoBucket
    PROVE  /\ state[k] \in Buckets /\ state[k].startAt \in Nat /\ state[k].count \in Nat
  BY DEF TypeOK, Buckets

LEMMA GrantedTyped ==
    ASSUME TypeOK, NEW k \in Keys
    PROVE  /\ granted[k] \in Seq(0..MaxTime) /\ Len(granted[k]) \in Nat
           /\ DOMAIN granted[k] = 1..Len(granted[k])
           /\ \A i \in 1..Len(granted[k]) : granted[k][i] \in Nat
           /\ clock \in Nat
  BY LimitAssumption DEF TypeOK

LEMMA InitIInv == Init => IInv
<1> SUFFICES ASSUME Init PROVE IInv
  OBVIOUS
<1>1. TypeOK
  BY LimitAssumption DEF Init, TypeOK
<1>2. ASSUME NEW k \in Keys PROVE KeyInv(k)
  <2>1. granted[k] = <<>> /\ state[k] = NoBucket
    BY DEF Init
  <2>2. ASSUME NEW n \in 0..MaxTime PROVE Granted(k, n, n + Window - MaxLag) <= 2 * MaxRequests
    <3>1. {i \in DOMAIN granted[k] : n <= granted[k][i]
                                     /\ granted[k][i] <= n + Window - MaxLag} = {}
      BY <2>1
    <3>2. Granted(k, n, n + Window - MaxLag) = Cardinality({})
      BY <3>1 DEF Granted
    <3>3. Cardinality({}) = 0 /\ 0 <= 2 * MaxRequests
      BY FS_EmptySet, LimitAssumption
    <3> QED
      BY <3>2, <3>3
  <2> QED
    BY <2>1, <2>2 DEF KeyInv, Counts, Follows, Passed, Bounded
<1> QED
  BY <1>1, <1>2 DEF Init, IInv, LagBounded

\* A key of which nothing changes but that time passes.
LEMMA KeyUntouched ==
    ASSUME TypeOK, NEW k \in Keys, KeyInv(k), clock' \in Nat, clock <= clock',
           state'[k] = state[k], granted'[k] = granted[k]
    PROVE  KeyInv(k)'
<1>1. Counts(k)'
  BY BucketTyped, GrantedTyped DEF KeyInv, Counts, Earlier
<1>2. Follows(k)'
  BY DEF KeyInv, Follows, Earlier
<1>3. Passed(k)'
  BY GrantedTyped DEF KeyInv, Passed
<1>4. Bounded(k)'
  BY DEF KeyInv, Bounded, Granted
<1> QED
  BY <1>1, <1>2, <1>3, <1>4 DEF KeyInv

\* A request that is allowed is the last of its key.
LEMMA Appended ==
    ASSUME TypeOK, NEW t \in Threads, call[t] # NoCall, Grant(t), NEW k, k = call[t].key
    PROVE  /\ granted' \in [Keys -> Seq(0..MaxTime)]
           /\ Len(granted'[k]) = Len(granted[k]) + 1
           /\ DOMAIN granted'[k] = 1..Len(granted'[k])
           /\ \A i \in 1..Len(granted[k]) : granted'[k][i] = granted[k][i]
           /\ granted'[k][Len(granted[k]) + 1] = clock
           /\ \A l \in Keys \ {k} : granted'[l] = granted[l]
           /\ clock' = clock /\ call' = [call EXCEPT ![t] = NoCall]
<1>1. k \in Keys
  BY CallTyped
<1>2. granted[k] \in Seq(0..MaxTime) /\ clock \in 0..MaxTime
  BY <1>1 DEF TypeOK
<1>3. /\ granted' = [granted EXCEPT ![k] = Append(granted[k], clock)]
      /\ clock' = clock /\ call' = [call EXCEPT ![t] = NoCall]
  BY DEF Grant
<1>4. granted'[k] = Append(granted[k], clock) /\ \A l \in Keys \ {k} : granted'[l] = granted[l]
  BY <1>1, <1>3 DEF TypeOK
<1>5. Append(granted[k], clock) \in Seq(0..MaxTime)
  BY <1>2
<1>6. granted' \in [Keys -> Seq(0..MaxTime)]
  BY <1>1, <1>3, <1>5 DEF TypeOK
<1> QED
  BY <1>2, <1>3, <1>4, <1>5, <1>6

\* Positions that lie among the last c + m, with c <= m, are at most 2 * m.
LEMMA Span ==
    ASSUME NEW N \in Nat, NEW c \in Nat, NEW m \in Nat, c <= m, NEW I,
           I \subseteq (N + 1 - c - m)..N
    PROVE  Cardinality(I) <= 2 * m
<1> DEFINE from == N + 1 - c - m
<1>1. from \in Int /\ N \in Int /\ N - from + 1 = c + m
  OBVIOUS
<1> HIDE DEF from
<1>2. /\ IsFiniteSet(from..N)
      /\ Cardinality(from..N) = IF from > N THEN 0 ELSE N - from + 1
  BY <1>1, FS_Interval
<1>3. Cardinality(from..N) <= 2 * m
  BY <1>1, <1>2
<1>4. Cardinality(I) <= Cardinality(from..N) /\ IsFiniteSet(I)
  BY <1>2, FS_Subset DEF from
<1>5. Cardinality(I) \in Nat /\ Cardinality(from..N) \in Nat
  BY <1>2, <1>4, FS_CardinalityType
<1> QED
  BY <1>3, <1>4, <1>5

\* A step that allows a request keeps within the quota, given how the bucket
\* and those before it lie.
LEMMA GrantBounded ==
    ASSUME IInv, TypeOK', NEW t \in Threads, call[t] # NoCall, Grant(t),
           NEW k, k = call[t].key, state'[k] # NoBucket, Counts(k)', Follows(k)'
    PROVE  Bounded(k)'
<1> DEFINE N == Len(granted[k]) + 1
           g == granted'[k]
           s == state'[k].startAt
           c == state'[k].count
<1>1. /\ k \in Keys /\ Len(granted[k]) \in Nat /\ clock \in Nat /\ s \in Nat /\ c \in Nat
      /\ DOMAIN granted[k] = 1..Len(granted[k])
      /\ \A i \in 1..Len(granted[k]) : granted[k][i] \in Nat
  <2>1. k \in Keys
    BY CallTyped DEF IInv
  <2>2. state'[k] \in Buckets
    BY <2>1 DEF TypeOK
  <2> QED
    BY <2>1, <2>2, GrantedTyped DEF IInv, Buckets
<1>2. /\ Len(g) = N /\ DOMAIN g = 1..N /\ clock' = clock
      /\ \A i \in 1..Len(granted[k]) : g[i] = granted[k][i]
      /\ g[N] = clock
  BY Appended DEF IInv
<1>3. c <= MaxRequests /\ s <= clock
  BY <1>2 DEF Counts
<1>4. \A i \in 1..N : i <= N - c - MaxRequests => g[i] < s - Window + MaxLag
  BY <1>2 DEF Follows, Earlier
<1>5. \A i \in 1..N : g[i] \in Nat
  <2>1. \A i \in 1..N : i = N \/ i \in 1..Len(granted[k])
    BY <1>1
  <2> HIDE DEF N, g
  <2> QED
    BY <1>1, <1>2, <2>1
<1>6. /\ MaxRequests \in Nat /\ Window \in Nat /\ MaxLag \in Nat /\ N \in Nat
      /\ \A n \in 0..MaxTime : n \in Nat
  BY <1>1, LimitAssumption
<1> SUFFICES ASSUME NEW n \in 0..MaxTime
             PROVE  Granted(k, n, n + Window - MaxLag)' <= 2 * MaxRequests
  BY DEF Bounded, Granted
<1>7. Granted(k, n, n + Window - MaxLag)'
        = Cardinality({i \in 1..N : n <= g[i] /\ g[i] <= n + Window - MaxLag})
  BY <1>2 DEF Granted
<1>8. CASE clock <= n + Window - MaxLag /\ n <= clock
  <2> DEFINE I == {i \in 1..N : n <= g[i] /\ g[i] <= n + Window - MaxLag}
  <2> HIDE DEF N, g, s, c
  <2>1. ASSUME NEW i \in I PROVE i \in (N + 1 - c - MaxRequests)..N
    <3>1. i \in 1..N /\ g[i] \in Nat /\ n <= g[i] /\ n \in Nat
      BY <1>5, <1>6
    <3>2. ~(g[i] < s - Window + MaxLag)
      BY <1>1, <1>3, <1>6, <1>8, <3>1
    <3>3. ~(i <= N - c - MaxRequests)
      BY <1>4, <3>1, <3>2
    <3> QED
      BY <1>1, <1>6, <3>1, <3>3
  <2>2. I \subseteq (N + 1 - c - MaxRequests)..N
    BY <2>1
  <2> HIDE DEF I
  <2>3. Cardinality(I) <= 2 * MaxRequests
    BY <1>1, <1>3, <1>6, <2>2, Span
  <2> QED
    BY <1>7, <2>3 DEF I
<1>9. CASE ~(n <= clock /\ clock <= n + Window - MaxLag)
  <2>1. {i \in 1..N : n <= g[i] /\ g[i] <= n + Window - MaxLag}
          = {i \in 1..Len(granted[k]) : n <= granted[k][i]
                                        /\ granted[k][i] <= n + Window - MaxLag}
    <3>1. \A i \in 1..N : i # N => i \in 1..Len(granted[k])
      BY <1>1
    <3>2. 1..Len(granted[k]) \subseteq 1..N
      BY <1>1
    <3> HIDE DEF N, g
    <3> QED
      BY <1>2, <1>9, <3>1, <3>2
  <2>2. Granted(k, n, n + Window - MaxLag) <= 2 * MaxRequests
    BY <1>1 DEF IInv, KeyInv, Bounded
  <2> QED
    BY <1>1, <1>7, <2>1, <2>2 DEF Granted
<1> QED
  BY <1>8, <1>9

\* What a step that counts a request must keep of its key, and what it leaves
\* alone, is all there is to it.
LEMMA GrantKeeps ==
    ASSUME IInv, NEW t \in Threads, call[t] # NoCall, Grant(t), NEW k, k = call[t].key,
           NEW b \in Buckets, state' = [state EXCEPT ![k] = b], Counts(k)', Follows(k)'
    PROVE  IInv'
<1>1. /\ k \in Keys /\ clock \in 0..MaxTime /\ call \in [Threads -> Calls \cup {NoCall}]
      /\ state \in [Keys -> Buckets \cup {NoBucket}]
  BY CallTyped DEF IInv, TypeOK
<1>2. /\ granted' \in [Keys -> Seq(0..MaxTime)] /\ clock' = clock
      /\ call' = [call EXCEPT ![t] = NoCall]
      /\ \A l \in Keys \ {k} : granted'[l] = granted[l]
  BY Appended DEF IInv
<1>3. state'[k] = b /\ \A l \in Keys \ {k} : state'[l] = state[l]
  BY <1>1
<1>4. TypeOK'
  BY <1>1, <1>2 DEF TypeOK
<1>5. LagBounded'
  BY <1>1, <1>2 DEF IInv, LagBounded
<1>6. ASSUME NEW l \in Keys, l # k PROVE KeyInv(l)'
  <2>1. clock' \in Nat /\ clock <= clock'
    BY <1>1, <1>2
  <2> QED
    BY <1>2, <1>3, <1>6, <2>1, KeyUntouched DEF IInv
<1>7. KeyInv(k)'
  <2>1. state'[k] # NoBucket
    BY <1>3, NoneAssumption
  <2>2. Bounded(k)'
    BY <1>4, <2>1, GrantBounded
  <2>3. Passed(k)'
    <3>1. /\ Len(granted'[k]) = Len(granted[k]) + 1
          /\ \A i \in 1..Len(granted[k]) : granted'[k][i] = granted[k][i]
          /\ granted'[k][Len(granted[k]) + 1] = clock
      BY Appended DEF IInv
    <3>2. /\ Len(granted[k]) \in Nat /\ clock \in Nat
          /\ \A i \in 1..Len(granted[k]) : granted[k][i] <= clock
      BY <1>1, GrantedTyped DEF IInv, KeyInv, Passed
    <3>3. \A i \in 1..(Len(granted[k]) + 1) :
             i \in 1..Len(granted[k]) \/ i = Len(granted[k]) + 1
      BY <3>2
    <3>4. ASSUME NEW i \in 1..Len(granted'[k]) PROVE granted'[k][i] <= clock'
      <4>1. CASE i \in 1..Len(granted[k])
        BY <1>2, <3>1, <3>2, <4>1
      <4>2. CASE i = Len(granted[k]) + 1
        BY <1>2, <3>1, <3>2, <4>2
      <4> QED
        BY <3>1, <3>3, <4>1, <4>2
    <3> QED
      BY <2>1, <3>4 DEF Passed
  <2> QED
    BY <2>2, <2>3 DEF KeyInv
<1> QED
  BY <1>4, <1>5, <1>6, <1>7 DEF IInv

LEMMA OpenWindowKeeps ==
    ASSUME IInv, NEW t \in Threads, OpenWindow(t), NEW k, k = call[t].key
    PROVE  IInv'
<1> DEFINE stamp == call[t].stamp
           b == [startAt |-> stamp, count |-> 1]
           N == Len(granted[k])
           s == state[k].startAt
<1>1. /\ call[t] # NoCall /\ Grant(t) /\ state' = [state EXCEPT ![k] = b]
      /\ state[k] # NoBucket => stamp - s >= Window
  BY DEF OpenWindow, Elapsed
<1>2. k \in Keys /\ stamp \in Nat /\ stamp <= clock /\ clock - stamp <= MaxLag
  BY <1>1, CallTyped DEF IInv, LagBounded
<1>3. b \in Buckets /\ b.startAt = stamp /\ b.count = 1
  BY <1>2 DEF Buckets
<1>4. N \in Nat /\ clock \in Nat /\ \A i \in 1..N : granted[k][i] \in Nat
  BY <1>2, GrantedTyped DEF IInv
<1>5. state'[k] = b /\ b # NoBucket
  BY <1>1, <1>2, <1>3, NoneAssumption DEF IInv, TypeOK
<1>6. /\ Len(granted'[k]) = N + 1 /\ granted'[k][N + 1] = clock /\ clock' = clock
      /\ \A i \in 1..N : granted'[k][i] = granted[k][i]
  BY <1>1, Appended DEF IInv
<1>7. Earlier(k)' = N
  BY <1>3, <1>4, <1>5, <1>6 DEF Earlier
<1>8. \A i \in 1..(N + 1) : i \in 1..N \/ i = N + 1
  BY <1>4
<1>9. /\ MaxRequests \in Nat \ {0} /\ Window \in Nat \ {0} /\ MaxLag \in Nat
  BY LimitAssumption
<1>10. ASSUME NEW i \in 1..N
       PROVE  /\ granted[k][i] < stamp + MaxLag
              /\ i <= N - MaxRequests => granted[k][i] < stamp - Window + MaxLag
  <2>1. state[k] # NoBucket
    <3>1. N # 0
      BY <1>4
    <3> QED
      BY <1>2, <3>1 DEF IInv, KeyInv, Passed
  <2>2. /\ state[k].count \in 1..MaxRequests /\ s \in Nat
    BY <1>2, <2>1, BucketTyped DEF IInv, KeyInv, Counts
  <2>3. /\ granted[k][i] < s + Window + MaxLag
        /\ i <= N - state[k].count => granted[k][i] < s + MaxLag
    BY <1>2, <2>1 DEF IInv, KeyInv, Follows, Earlier
  <2>4. stamp - s >= Window
    BY <1>1, <2>1
  <2>5. granted[k][i] \in Nat
    BY <1>4
  <2> HIDE DEF N, s, stamp
  <2>6. i <= N - MaxRequests => i <= N - state[k].count
    BY <1>4, <1>9, <2>2
  <2> QED
    BY <1>2, <1>4, <1>9, <2>2, <2>3, <2>4, <2>5, <2>6
<1> HIDE DEF N, s, stamp, b
<1>11. Counts(k)'
  BY <1>2, <1>3, <1>4, <1>5, <1>6, <1>7, <1>8, <1>9 DEF Counts
<1>12. Follows(k)'
  <2>1. ASSUME NEW i \in 1..(N + 1)
        PROVE  /\ granted'[k][i] < stamp + Window + MaxLag
               /\ i <= N => granted'[k][i] < stamp + MaxLag
               /\ i <= N - MaxRequests => granted'[k][i] < stamp - Window + MaxLag
    <3>1. CASE i \in 1..N
      <4>1. granted'[k][i] = granted[k][i] /\ granted[k][i] \in Nat
        BY <1>4, <1>6, <3>1
      <4> QED
        BY <1>2, <1>9, <1>10, <3>1, <4>1
    <3>2. CASE i = N + 1
      BY <1>2, <1>4, <1>6, <1>9, <3>2
    <3> QED
      BY <1>8, <3>1, <3>2
  <2> QED
    BY <1>3, <1>5, <1>6, <1>7, <2>1 DEF Follows
<1> QED
  BY <1>1, <1>3, <1>11, <1>12, GrantKeeps

LEMMA CountKeeps ==
    ASSUME IInv, NEW t \in Threads, Count(t), NEW k, k = call[t].key
    PROVE  IInv'
<1> DEFINE stamp == call[t].stamp
           s == state[k].startAt
           c == state[k].count
           b == [state[k] EXCEPT !.count = c + 1]
           N == Len(granted[k])
<1>1. /\ call[t] # NoCall /\ Grant(t) /\ state' = [state EXCEPT ![k].count = c + 1]
      /\ state[k] # NoBucket /\ ~(stamp - s >= Window) /\ c < MaxRequests
  BY DEF Count, InWindow, Elapsed
<1>2. k \in Keys /\ stamp \in Nat /\ stamp <= clock /\ clock - stamp <= MaxLag
  BY <1>1, CallTyped DEF IInv, LagBounded
<1>3. state[k] \in Buckets /\ s \in Nat /\ c \in Nat
  BY <1>1, <1>2, BucketTyped DEF IInv
<1>4. b \in Buckets /\ b.startAt = s /\ b.count = c + 1
  BY <1>3 DEF Buckets
<1>5. state' = [state EXCEPT ![k] = b] /\ state'[k] = b /\ b # NoBucket
  BY <1>1, <1>2, <1>4, NoneAssumption DEF IInv, TypeOK
<1>6. N \in Nat /\ clock \in Nat /\ \A i \in 1..N : granted[k][i] \in Nat
  BY <1>2, GrantedTyped DEF IInv
<1>7. /\ Len(granted'[k]) = N + 1 /\ granted'[k][N + 1] = clock /\ clock' = clock
      /\ \A i \in 1..N : granted'[k][i] = granted[k][i]
  BY <1>1, Appended DEF IInv
<1>8. /\ c \in 1..MaxRequests /\ c <= N /\ s <= clock
      /\ \A i \in 1..N : i > N - c => granted[k][i] >= s
  BY <1>1, <1>2 DEF IInv, KeyInv, Counts, Earlier
<1>9. \A i \in 1..N :
         /\ granted[k][i] < s + Window + MaxLag
         /\ i <= N - c => granted[k][i] < s + MaxLag
         /\ i <= N - c - MaxRequests => granted[k][i] < s - Window + MaxLag
  BY <1>1, <1>2 DEF IInv, KeyInv, Follows, Earlier
<1>10. Earlier(k)' = N - c
  <2>1. Earlier(k)' = (N + 1) - (c + 1)
    BY <1>4, <1>5, <1>7 DEF Earlier
  <2>2. N \in Nat /\ c \in Nat
    BY <1>3, <1>6
  <2> HIDE DEF N, c
  <2> QED
    BY <2>1, <2>2
<1>11. \A i \in 1..(N + 1) : i \in 1..N \/ i = N + 1
  BY <1>6
<1>12. MaxRequests \in Nat \ {0} /\ Window \in Nat \ {0} /\ MaxLag \in Nat
  BY LimitAssumption
<1>13. ~(stamp - s >= Window) /\ c < MaxRequests
  BY <1>1
<1> HIDE DEF N, s, stamp, b, c
<1>14. Counts(k)'
  <2>1. c + 1 \in 1..MaxRequests /\ c + 1 <= N + 1
    BY <1>3, <1>6, <1>8, <1>12, <1>13
  <2>2. \A i \in 1..(N + 1) : i > N - c => granted'[k][i] >= s
    BY <1>7, <1>8, <1>11
  <2> QED
    BY <1>4, <1>5, <1>7, <1>8, <1>10, <2>1, <2>2 DEF Counts
<1>15. Follows(k)'
  <2>1. ASSUME NEW i \in 1..(N + 1)
        PROVE  /\ granted'[k][i] < s + Window + MaxLag
               /\ i <= N - c => granted'[k][i] < s + MaxLag
               /\ i <= N - c - MaxRequests => granted'[k][i] < s - Window + MaxLag
    <3>1. CASE i \in 1..N
      BY <1>7, <1>9, <3>1
    <3>2. CASE i = N + 1
      <4>1. ~(i <= N - c) /\ ~(i <= N - c - MaxRequests)
        BY <1>3, <1>6, <1>12, <3>2
      <4>2. clock < s + Window + MaxLag
        BY <1>2, <1>3, <1>6, <1>12, <1>13
      <4> QED
        BY <1>7, <3>2, <4>1, <4>2
    <3> QED
      BY <1>11, <3>1, <3>2
  <2> QED
    BY <1>4, <1>5, <1>7, <1>10, <2>1 DEF Follows
<1> QED
  BY <1>1, <1>4, <1>5, <1>14, <1>15, GrantKeeps

-----------------------------------------------------------------------------
LEMMA TickKeeps == ASSUME IInv, Tick PROVE IInv'
<1>1. /\ clock \in 0..MaxTime /\ clock' = clock + 1 /\ clock' \in 0..MaxTime
      /\ clock' \in Nat /\ clock <= clock'
      /\ call' = call /\ state' = state /\ granted' = granted
  BY LimitAssumption DEF Tick, IInv, TypeOK
<1>2. TypeOK'
  BY <1>1 DEF IInv, TypeOK
<1>3. LagBounded'
  <2> SUFFICES ASSUME NEW t \in Threads, call[t] # NoCall
               PROVE  call[t].stamp <= clock' /\ clock' - call[t].stamp <= MaxLag
    BY <1>1 DEF LagBounded
  <2>1. /\ call[t].stamp \in Nat /\ call[t].stamp <= clock
        /\ clock - call[t].stamp < MaxLag
    BY CallTyped DEF IInv, LagBounded, Tick
  <2> QED
    BY <1>1, <2>1, LimitAssumption
<1>4. ASSUME NEW k \in Keys PROVE KeyInv(k)'
  BY <1>1, KeyUntouched DEF IInv
<1> QED
  BY <1>2, <1>3, <1>4 DEF IInv

\* A step that only changes what goroutines are doing.
LEMMA CallsKeep ==
    ASSUME IInv, UNCHANGED <<clock, state, granted>>,
           call' \in [Threads -> Calls \cup {NoCall}],
           \A t \in Threads : call'[t] \in {call[t], NoCall} \/ call'[t].stamp = clock
    PROVE  IInv'
<1>1. clock \in Nat /\ clock' = clock /\ clock <= clock' /\ clock - clock = 0
  BY DEF IInv, TypeOK
<1>2. TypeOK'
  BY DEF IInv, TypeOK
<1>3. LagBounded'
  BY <1>1, LimitAssumption DEF IInv, LagBounded
<1>4. ASSUME NEW k \in Keys PROVE KeyInv(k)'
  BY <1>1, KeyUntouched DEF IInv
<1> QED
  BY <1>2, <1>3, <1>4 DEF IInv

LEMMA RestartKeeps == ASSUME IInv, Restart PROVE IInv'
<1>1. /\ clock \in 0..MaxTime /\ clock' = clock /\ call' = [t \in Threads |-> NoCall]
      /\ state' = [k \in Keys |-> NoBucket] /\ granted' = [k \in Keys |-> <<>>]
  BY DEF Restart, IInv, TypeOK
<1>2. TypeOK' /\ LagBounded'
  BY <1>1 DEF TypeOK, LagBounded
<1>3. ASSUME NEW k \in Keys PROVE KeyInv(k)'
  <2>1. granted'[k] = <<>> /\ state'[k] = NoBucket
    BY <1>1
  <2>2. Bounded(k)'
    <3>1. ASSUME NEW n \in 0..MaxTime
          PROVE  Granted(k, n, n + Window - MaxLag)' = Cardinality({})
      <4>1. {i \in DOMAIN granted'[k] : n <= granted'[k][i]
                                        /\ granted'[k][i] <= n + Window - MaxLag} = {}
        BY <2>1
      <4> QED
        BY <4>1 DEF Granted
    <3>2. Cardinality({}) = 0 /\ 0 <= 2 * MaxRequests
      BY FS_EmptySet, LimitAssumption
    <3> QED
      BY <3>1, <3>2 DEF Bounded, Granted
  <2> QED
    BY <2>1, <2>2 DEF KeyInv, Counts, Follows, Passed
<1> QED
  BY <1>2, <1>3 DEF IInv

LEMMA NextIInv == IInv /\ [Next]_vars => IInv'
<1> SUFFICES ASSUME IInv, [Next]_vars PROVE IInv'
  OBVIOUS
<1>1. CASE Tick
  BY <1>1, TickKeeps
<1>2. ASSUME NEW t \in Threads, NEW k \in Keys, Enter(t, k) PROVE IInv'
  <2>1. [key |-> k, stamp |-> clock] \in Calls
    BY DEF IInv, TypeOK, Calls
  <2>2. call' \in [Threads -> Calls \cup {NoCall}] /\ UNCHANGED <<clock, state, granted>>
    BY <1>2, <2>1 DEF Enter, IInv, TypeOK
  <2>3. \A u \in Threads : call'[u] = call[u] \/ call'[u].stamp = clock
    BY <1>2 DEF Enter, IInv, TypeOK
  <2> QED
    BY <2>2, <2>3, CallsKeep
<1>3. ASSUME NEW t \in Threads, OpenWindow(t) PROVE IInv'
  BY <1>3, OpenWindowKeeps
<1>4. ASSUME NEW t \in Threads, Count(t) PROVE IInv'
  BY <1>4, CountKeeps
<1>5. ASSUME NEW t \in Threads, Refuse(t) PROVE IInv'
  BY <1>5, CallsKeep DEF Refuse, IInv, TypeOK
<1>6. CASE Restart
  BY <1>6, RestartKeeps
<1>7. CASE UNCHANGED vars
  BY <1>7, CallsKeep DEF vars, IInv, TypeOK
<1> QED
  BY <1>1, <1>2, <1>3, <1>4, <1>5, <1>6, <1>7 DEF Next

-----------------------------------------------------------------------------
\* The invariant of the limiter holds in every reachable state.
THEOREM Inductive == Spec => []IInv
  BY InitIInv, NextIInv, PTL DEF Spec

\* RateLimiter.Allow leaves buckets in its map and nothing else.
THEOREM TypeCorrect == Spec => []TypeOK
<1>1. IInv => TypeOK
  BY DEF IInv
<1> QED
  BY <1>1, Inductive, PTL

\* Whatever the delays, a span shorter than a window by the longest wait for the
\* mutex holds at most two quotas of one key (Allow).
THEOREM BurstsBounded == Spec => []BurstBounded
<1>1. IInv => BurstBounded
  BY DEF IInv, KeyInv, Bounded, BurstBounded
<1> QED
  BY <1>1, Inductive, PTL

\* A refused caller's key has used its quota within a window of the time the
\* caller read (Allow).
LEMMA RefuseJustified ==
    ASSUME IInv, NEW t \in Threads, Refuse(t), NEW k, k = call[t].key
    PROVE  Granted(k, call[t].stamp - Window + 1, clock) >= MaxRequests
<1> DEFINE N == Len(granted[k])
           c == state[k].count
           s == state[k].startAt
           from == call[t].stamp - Window + 1
           I == {i \in 1..N : from <= granted[k][i] /\ granted[k][i] <= clock}
<1>1. /\ call[t] # NoCall /\ state[k] # NoBucket
      /\ ~(call[t].stamp - s >= Window) /\ c >= MaxRequests
  BY DEF Refuse, InWindow, Elapsed
<1>2. k \in Keys /\ call[t].stamp \in Nat
  BY <1>1, CallTyped DEF IInv
<1>3. /\ s \in Nat /\ c \in Nat /\ N \in Nat /\ clock \in Nat
      /\ DOMAIN granted[k] = 1..N /\ \A i \in 1..N : granted[k][i] \in Nat
  BY <1>1, <1>2, BucketTyped, GrantedTyped DEF IInv
<1>4. c <= N /\ \A i \in 1..N : i > N - c => granted[k][i] >= s
  BY <1>1, <1>2 DEF IInv, KeyInv, Counts, Earlier
<1>5. \A i \in 1..N : granted[k][i] <= clock
  BY <1>2 DEF IInv, KeyInv, Passed
<1>6. s >= from /\ from \in Int /\ MaxRequests \in Nat
  BY <1>1, <1>2, <1>3, LimitAssumption
<1>7. Granted(k, from, clock) = Cardinality(I)
  BY <1>3 DEF Granted
<1> HIDE DEF N, c, s, from
<1>8. (N - c + 1)..N \subseteq I
  <2> SUFFICES ASSUME NEW i \in (N - c + 1)..N PROVE i \in I
    OBVIOUS
  <2>1. i \in 1..N /\ i > N - c
    BY <1>3, <1>4
  <2>2. granted[k][i] \in Nat /\ granted[k][i] >= s /\ granted[k][i] <= clock
    BY <1>3, <1>4, <1>5, <2>1
  <2> QED
    BY <1>3, <1>6, <2>1, <2>2
<1>9. IsFiniteSet(I) /\ Cardinality(I) \in Nat
  <2>1. I \subseteq 1..N /\ IsFiniteSet(1..N)
    BY <1>3, FS_Interval
  <2> QED
    BY <2>1, FS_Subset, FS_CardinalityType
<1>10. Cardinality((N - c + 1)..N) = c
  <2>1. N - c + 1 \in Int /\ N \in Int
    BY <1>3
  <2>2. Cardinality((N - c + 1)..N)
          = IF N - c + 1 > N THEN 0 ELSE N - (N - c + 1) + 1
    BY <2>1, FS_Interval
  <2> QED
    BY <1>3, <2>2
<1> HIDE DEF I
<1>11. Cardinality((N - c + 1)..N) <= Cardinality(I)
  BY <1>8, <1>9, FS_Subset
<1>12. c >= MaxRequests /\ c \in Nat
  BY <1>1, <1>3 DEF c
<1> QED
  BY <1>6, <1>7, <1>9, <1>10, <1>11, <1>12 DEF from

\* No caller is refused before its key has used the quota within a window of
\* the time the caller read, however late it got the mutex (Allow).
THEOREM RefusalsJustified == Spec => RefusalJustified
<1>1. IInv /\ [Next]_vars =>
        [\A t \in Threads :
           Refuse(t) => Granted(call[t].key, call[t].stamp - Window + 1, clock)
                          >= MaxRequests]_vars
  BY RefuseJustified
<1> QED
  BY <1>1, Inductive, PTL DEF Spec, RefusalJustified
=============================================================================
