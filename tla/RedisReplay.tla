---------------------------- MODULE RedisReplay ----------------------------
(***************************************************************************)
(* ReplayCache.MarkIfNew with the Redis backend (internal/cache/replay.go, *)
(* replay_redis.go).  A call claims its jti with SET NX PX, then adds it   *)
(* to an index by time and deletes what the index holds in excess, one     *)
(* command per round trip, so the commands of concurrent calls interleave. *)
(* Any command may fail, executed or not; a failed SET falls back on the   *)
(* in-memory store, the others are ignored.  A restart of ext_authz loses  *)
(* that store and the calls in flight; Redis keeps its data.               *)
(***************************************************************************)
EXTENDS ReplayStore, Sequences

CONSTANTS
    Threads,        \* goroutines that serve a Check
    NoJti,          \* the jti of a goroutine outside MarkIfNew
    MaxTime,        \* bound on the clock
    MaxFaults,      \* bound on failed commands
    MaxRestarts     \* bound on restarts

ASSUME BoundAssumption == MaxTime \in Nat /\ MaxFaults \in Nat /\ MaxRestarts \in Nat
ASSUME ThreadsAssumption == IsFiniteSet(Threads)
ASSUME NoJtiAssumption == NoJti \notin Jtis

\* Where a call is: the command it sends next, or the fallback it runs.
Stages == {"idle", "set", "add", "card", "range", "del", "rem", "memory"}

VARIABLES
    clock,
    left,           \* left[j]: ticks until the key of j expires, 0 if there is none
    index,          \* index[j]: the score of j in the sorted set, or Absent
    call,           \* call[t]: stage, jti, the time it read, excess, victims to delete
    faults, restarts,
    claimed,        \* history: claimed[j]: when Redis last accepted j, or Absent
    kept,           \* history: kept[j]: the time read by the call whose j the store
                    \* last accepted, or Absent
    deleted,        \* history: jtis whose key a DEL removed since
    evicted,        \* history: jtis whose entry of the store was evicted since
    unanswered      \* history: jtis whose key was set by a call that did not learn it

redis == <<left, index>>
memory == <<items, last>>
bounds == <<faults, restarts>>
history == <<claimed, kept, deleted, evicted, unanswered>>
vars == <<clock, redis, memory, call, bounds, history>>

Calls ==
    [at : Stages, jti : Jtis \cup {NoJti}, time : 0..MaxTime, excess : Nat,
     victims : Seq(Jtis)]
Idle == [at |-> "idle", jti |-> NoJti, time |-> 0, excess |-> 0, victims |-> <<>>]
Indexed == {j \in Jtis : index[j] # Absent}

TypeOK ==
    /\ StoreTypeOK
    /\ clock \in 0..MaxTime
    /\ left \in [Jtis -> 0..TTL]
    /\ index \in [Jtis -> 0..MaxTime \cup {Absent}]
    /\ call \in [Threads -> Calls]
    /\ \A t \in Threads :
        /\ call[t].at # "idle" => call[t].jti \in Jtis
        /\ call[t].at = "idle" => call[t] = Idle
        /\ call[t].at \in {"del", "rem"} => call[t].victims # <<>>
    /\ faults \in 0..MaxFaults /\ restarts \in 0..MaxRestarts
    /\ claimed \in [Jtis -> 0..MaxTime \cup {Absent}]
    /\ kept \in [Jtis -> 0..MaxTime \cup {Absent}]
    /\ deleted \subseteq Jtis /\ evicted \subseteq Jtis /\ unanswered \subseteq Jtis

Init ==
    /\ StoreInit(0)
    /\ clock = 0
    /\ left = [j \in Jtis |-> 0] /\ index = [j \in Jtis |-> Absent]
    /\ call = [t \in Threads |-> Idle]
    /\ faults = 0 /\ restarts = 0
    /\ claimed = [j \in Jtis |-> Absent] /\ kept = [j \in Jtis |-> Absent]
    /\ deleted = {} /\ evicted = {} /\ unanswered = {}

At(t, stage) == call[t].at = stage
Jti(t) == call[t].jti
Goto(t, stage) == call' = [call EXCEPT ![t].at = stage]
Return(t) == call' = [call EXCEPT ![t] = Idle]

\* The index keeps the entry of a key that expires.
Tick ==
    /\ clock < MaxTime
    /\ clock' = clock + 1
    /\ left' = [j \in Jtis |-> IF left[j] > 0 THEN left[j] - 1 ELSE 0]
    /\ UNCHANGED <<index, memory, call, bounds, history>>

\* A command fails, before or after Redis has executed it.
Fault == faults < MaxFaults /\ faults' = faults + 1 /\ UNCHANGED restarts

Enter(t, j) ==
    /\ At(t, "idle")
    /\ call' = [call EXCEPT ![t].at = "set", ![t].jti = j]
    /\ UNCHANGED <<clock, redis, memory, bounds, history>>

-----------------------------------------------------------------------------
(* markIfNew: SET key 1 NX PX ttl.                                         *)

\* Mutant of Claim: the key is set whether it is there or not.
ClaimAlways(t) ==
    /\ At(t, "set")
    /\ left' = [left EXCEPT ![Jti(t)] = TTL]
    /\ call' = [call EXCEPT ![t].at = "add", ![t].time = clock]
    /\ claimed' = [claimed EXCEPT ![Jti(t)] = clock]
    /\ deleted' = deleted \ {Jti(t)} /\ unanswered' = unanswered \ {Jti(t)}
    /\ UNCHANGED <<clock, index, memory, bounds, kept, evicted>>

\* The score of the ZADD is the time after the SET.
Claim(t) ==
    /\ At(t, "set")
    /\ left[Jti(t)] = 0
    /\ left' = [left EXCEPT ![Jti(t)] = TTL]
    /\ call' = [call EXCEPT ![t].at = "add", ![t].time = clock]
    /\ claimed' = [claimed EXCEPT ![Jti(t)] = clock]
    /\ deleted' = deleted \ {Jti(t)} /\ unanswered' = unanswered \ {Jti(t)}
    /\ UNCHANGED <<clock, index, memory, bounds, kept, evicted>>

\* Mutant of Refuse: the index is asked for the jti too.
RefuseIndexed(t) ==
    /\ At(t, "set")
    /\ left[Jti(t)] > 0 \/ Jti(t) \in Indexed
    /\ Return(t)
    /\ UNCHANGED <<clock, redis, memory, bounds, history>>

Refuse(t) ==
    /\ At(t, "set")
    /\ left[Jti(t)] > 0
    /\ Return(t)
    /\ UNCHANGED <<clock, redis, memory, bounds, history>>

SetFails(t) ==
    /\ At(t, "set")
    /\ Fault
    /\ left' \in {left, [left EXCEPT ![Jti(t)] = IF @ = 0 THEN TTL ELSE @]}
    /\ unanswered' = IF left' # left THEN unanswered \cup {Jti(t)} ELSE unanswered
    /\ call' = [call EXCEPT ![t].at = "memory", ![t].time = clock]
    /\ UNCHANGED <<clock, index, memory, claimed, kept, deleted, evicted>>

-----------------------------------------------------------------------------
(* markIfNew: the index and its excess.  Whatever happens, j is accepted.  *)

Add(t) ==
    /\ At(t, "add")
    /\ \/ index' = [index EXCEPT ![Jti(t)] = call[t].time] /\ UNCHANGED bounds
       \/ Fault /\ index' \in {index, [index EXCEPT ![Jti(t)] = call[t].time]}
    /\ Goto(t, "card")
    /\ UNCHANGED <<clock, left, memory, history>>

\* Mutant of Card: the count is compared with one more.
CardLate(t) ==
    /\ At(t, "card")
    /\ \/ /\ UNCHANGED bounds
          /\ IF Cardinality(Indexed) > MaxEntries + 1
             THEN call' = [call EXCEPT ![t].at = "range",
                                       ![t].excess = Cardinality(Indexed) - MaxEntries]
             ELSE Return(t)
       \/ Fault /\ Return(t)
    /\ UNCHANGED <<clock, redis, memory, history>>

\* Mutant of Card: room is made for one entry more.
CardEarly(t) ==
    /\ At(t, "card")
    /\ \/ /\ UNCHANGED bounds
          /\ IF Cardinality(Indexed) >= MaxEntries
             THEN call' = [call EXCEPT ![t].at = "range",
                                       ![t].excess = Cardinality(Indexed) - MaxEntries + 1]
             ELSE Return(t)
       \/ Fault /\ Return(t)
    /\ UNCHANGED <<clock, redis, memory, history>>

Card(t) ==
    /\ At(t, "card")
    /\ \/ /\ UNCHANGED bounds
          /\ IF Cardinality(Indexed) > MaxEntries
             THEN call' = [call EXCEPT ![t].at = "range",
                                       ![t].excess = Cardinality(Indexed) - MaxEntries]
             ELSE Return(t)
       \/ Fault /\ Return(t)
    /\ UNCHANGED <<clock, redis, memory, history>>

\* The n members of the index with the lowest scores, in order.
Lowest(n) ==
    {s \in [1..n -> Indexed] :
        \A k \in 1..n :
            LET before == {s[l] : l \in 1..(k - 1)}
            IN  s[k] \notin before /\ \A j \in Indexed \ before : index[s[k]] <= index[j]}

Smaller(a, b) == IF a < b THEN a ELSE b

PickVictims(t) ==
    /\ At(t, "range")
    /\ \/ /\ UNCHANGED bounds
          /\ \E s \in Lowest(Smaller(call[t].excess, Cardinality(Indexed))) :
                IF s = <<>> THEN Return(t)
                ELSE call' = [call EXCEPT ![t].at = "del", ![t].victims = s]
       \/ Fault /\ Return(t)
    /\ UNCHANGED <<clock, redis, memory, history>>

\* The key of a victim is deleted, then its entry.  A victim that was claimed
\* again since the index was read is deleted all the same.
Del(t) ==
    /\ At(t, "del")
    /\ LET v == Head(call[t].victims) IN
        /\ \/ left' = [left EXCEPT ![v] = 0] /\ UNCHANGED bounds
           \/ Fault /\ left' \in {left, [left EXCEPT ![v] = 0]}
        /\ deleted' = IF left' # left THEN deleted \cup {v} ELSE deleted
    /\ Goto(t, "rem")
    /\ UNCHANGED <<clock, index, memory, claimed, kept, evicted, unanswered>>

Rem(t) ==
    /\ At(t, "rem")
    /\ LET v == Head(call[t].victims) IN
        \/ index' = [index EXCEPT ![v] = Absent] /\ UNCHANGED bounds
        \/ Fault /\ index' \in {index, [index EXCEPT ![v] = Absent]}
    /\ IF Tail(call[t].victims) = <<>> THEN Return(t)
       ELSE call' = [call EXCEPT ![t].at = "del", ![t].victims = Tail(@)]
    /\ UNCHANGED <<clock, left, memory, history>>

-----------------------------------------------------------------------------
(* MarkIfNew: the in-memory fallback.                                      *)

Keep(t) ==
    /\ At(t, "memory")
    /\ RecordNew(Jti(t), call[t].time)
    /\ kept' = [kept EXCEPT ![Jti(t)] = call[t].time]
    /\ evicted' = (evicted \cup Victims(call[t].time)) \ {Jti(t)}
    /\ Return(t)
    /\ UNCHANGED <<clock, redis, bounds, claimed, deleted, unanswered>>

RefuseKept(t) ==
    /\ At(t, "memory")
    /\ RejectReplay(Jti(t), call[t].time)
    /\ Return(t)
    /\ UNCHANGED <<clock, redis, bounds, history>>

\* The process dies and is started again: NewReplayCacheWithConfig.
Restart ==
    /\ restarts < MaxRestarts /\ restarts' = restarts + 1
    /\ items' = [j \in Jtis |-> Absent] /\ last' = clock
    /\ call' = [t \in Threads |-> Idle]
    /\ kept' = [j \in Jtis |-> Absent]
    /\ UNCHANGED <<clock, redis, faults, claimed, deleted, evicted, unanswered>>

Next ==
    \/ Tick \/ Restart
    \/ \E t \in Threads, j \in Jtis : Enter(t, j)
    \/ \E t \in Threads :
        \/ Claim(t) \/ Refuse(t) \/ SetFails(t)
        \/ Add(t) \/ Card(t) \/ PickVictims(t) \/ Del(t) \/ Rem(t)
        \/ Keep(t) \/ RefuseKept(t)

Spec == Init /\ [][Next]_vars

-----------------------------------------------------------------------------
Recent(time) == time # Absent /\ clock - time < TTL

\* Each of the two stores accepts a jti once per window, so a failing Redis
\* costs one replay at most: Redis also over restarts of ext_authz, the
\* fallback until the next one, counted from the time the call read, each
\* unless it evicted the jti (MarkIfNew).
OncePerStore ==
    [][\A t \in Threads :
          /\ Claim(t) /\ Recent(claimed[Jti(t)]) => Jti(t) \in deleted
          /\ Keep(t) /\ Recent(kept[Jti(t)]) => Jti(t) \in evicted]_vars

\* Nobody is refused for nothing: Redis refuses a jti that it accepted within the
\* window, or whose SET it executed for a call that saw only a failure, and the
\* fallback one that it accepted itself since the restart (MarkIfNew).
RefusedForCause ==
    [][\A t \in Threads :
          /\ Refuse(t) => Recent(claimed[Jti(t)]) \/ Jti(t) \in unanswered
          /\ RefuseKept(t) => kept[Jti(t)] # Absent]_vars

\* Redis accepts a jti again within its window only when it has accepted more
\* jtis than the index has room for since it was started, however long ago: the
\* index keeps the entries of keys that expired (markIfNew).
ReplayNeedsOverflow ==
    [][\A t \in Threads :
          Claim(t) /\ Recent(claimed[Jti(t)])
            => Cardinality({j \in Jtis : claimed[j] # Absent}) > MaxEntries]_vars

\* The fallback is the ledger that the cache promises, whatever Redis does: what
\* fails there, and calls that wait for an answer meanwhile, lose nothing that it
\* holds (markIfNewInMemory behind markIfNew).
Fallback == INSTANCE OneTimeLedger
              WITH Ids <- Jtis, Window <- TTL, Capacity <- MaxEntries, used <- items, now <- clock
FallbackIsLedger == Fallback!Spec

\* The index outgrows the capacity by no more than the calls on their way to
\* the eviction, and one entry for each that failed or died there (markIfNew).
IndexBounded ==
    Cardinality(Indexed) <= MaxEntries + faults + restarts * Cardinality(Threads)
        + Cardinality({t \in Threads : call[t].at \in {"card", "range", "del", "rem"}})

-----------------------------------------------------------------------------
\* "Rejects the same JWT on replay": while Redis does not fail and no more jtis
\* than it has room for were accepted within the window, none is accepted twice.
ReplayRejected ==
    [][\A t \in Threads :
          Claim(t) /\ Recent(claimed[Jti(t)]) =>
              \/ faults > 0
              \/ Cardinality({j \in Jtis : claimed[j] # Absent /\ clock - claimed[j] <= TTL})
                   > MaxEntries]_vars
=============================================================================
