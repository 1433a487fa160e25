---------------------------- MODULE ReplayCache ----------------------------
(***************************************************************************)
(* ReplayCache.MarkIfNew without a backend (internal/cache/replay.go),     *)
(* called by concurrent Check goroutines: a call reads the clock, then     *)
(* waits for the mutex, then runs its critical section with the time it    *)
(* read, which may be older than the times already in the store.  A        *)
(* restart of the process loses the store and every call in flight.  A     *)
(* blank jti is refused before anything is read or written, so only        *)
(* non-blank ones appear.                                                  *)
(***************************************************************************)
EXTENDS ReplayStore

CONSTANTS
    Threads,     \* goroutines that serve a Check
    NoCall,      \* what a goroutine outside MarkIfNew is doing
    MaxTime      \* bound on the clock

Calls == [jti : Jtis, stamp : Nat]

ASSUME NoCallAssumption == NoCall \notin Calls
ASSUME MaxTimeAssumption == MaxTime \in Nat

VARIABLES
    clock,       \* time.Now()
    call,        \* call[t]: the jti t marks and the time it read, or NoCall
    grantedAt,   \* history: when j was last accepted, or Absent
    grantedStamp,\* history: the time that acceptance had read
    evicted,     \* history: accepted jtis whose entry was evicted since
    lost         \* history: accepted jtis whose entry a restart lost since

store == <<items, last>>
history == <<grantedAt, grantedStamp, evicted, lost>>
vars == <<store, call, clock, history>>

TypeOK ==
    /\ StoreTypeOK
    /\ clock \in Nat
    /\ call \in [Threads -> Calls \cup {NoCall}]
    /\ grantedAt \in [Jtis -> Nat \cup {Absent}]
    /\ grantedStamp \in [Jtis -> Nat \cup {Absent}]
    /\ evicted \subseteq Jtis
    /\ lost \subseteq Jtis

Init ==
    /\ StoreInit(0)
    /\ clock = 0
    /\ call = [t \in Threads |-> NoCall]
    /\ grantedAt = [j \in Jtis |-> Absent]
    /\ grantedStamp = [j \in Jtis |-> Absent]
    /\ evicted = {}
    /\ lost = {}

Tick ==
    /\ clock < MaxTime
    /\ clock' = clock + 1
    /\ UNCHANGED <<store, call, history>>

\* MarkIfNew up to the call of markIfNewInMemory.
Enter(t, j) ==
    /\ call[t] = NoCall
    /\ call' = [call EXCEPT ![t] = [jti |-> j, stamp |-> clock]]
    /\ UNCHANGED <<store, clock, history>>

Accept(t) ==
    /\ call[t] # NoCall
    /\ RecordNew(call[t].jti, call[t].stamp)
    /\ call' = [call EXCEPT ![t] = NoCall]
    /\ grantedAt' = [grantedAt EXCEPT ![call[t].jti] = clock]
    /\ grantedStamp' = [grantedStamp EXCEPT ![call[t].jti] = call[t].stamp]
    /\ evicted' = (evicted \cup Victims(call[t].stamp)) \ {call[t].jti}
    /\ lost' = lost \ {call[t].jti}
    /\ UNCHANGED clock

Reject(t) ==
    /\ call[t] # NoCall
    /\ RejectReplay(call[t].jti, call[t].stamp)
    /\ call' = [call EXCEPT ![t] = NoCall]
    /\ UNCHANGED <<clock, history>>

\* The process dies and is started again: newInMemoryReplayCache.
Restart ==
    /\ items' = [j \in Jtis |-> Absent]
    /\ last' = clock
    /\ call' = [t \in Threads |-> NoCall]
    /\ lost' = lost \cup {j \in Jtis : grantedAt[j] # Absent}
    /\ UNCHANGED <<clock, grantedAt, grantedStamp, evicted>>

Next ==
    \/ Tick
    \/ \E t \in Threads, j \in Jtis : Enter(t, j)
    \/ \E t \in Threads : Accept(t)
    \/ \E t \in Threads : Reject(t)
    \/ Restart

Spec == Init /\ [][Next]_vars

-----------------------------------------------------------------------------
(* What the cache promises.                                                *)

\* A jti is not accepted again before more than TTL has passed since the time
\* its last acceptance read, unless that entry was evicted or lost: also when
\* a purge and a late caller with an old time interleave (purgeExpired and
\* the existence test of markIfNewInMemory).
ReplayWindow ==
    [][\A t \in Threads :
          Accept(t) /\ grantedAt[call[t].jti] # Absent /\ call[t].jti \notin evicted \cup lost
            => clock - grantedStamp[call[t].jti] > TTL]_vars

\* A rejection is never more than twice the window late: whoever is refused
\* presents a jti accepted less than 2 * TTL before, although expired entries
\* are purged only once per TTL (purgeExpired).
BoundedRejection ==
    [][\A t \in Threads :
          Reject(t) => call[t].stamp - grantedAt[call[t].jti] < 2 * TTL]_vars

\* An unexpired jti is given up only under a flood: MaxEntries other jtis were
\* accepted no earlier than the time its own acceptance had read (evictOldest).
EvictionNeedsFlood ==
    \A j \in evicted :
        Cardinality({k \in Jtis \ {j} : grantedAt[k] >= grantedStamp[j]}) >= MaxEntries

\* To its callers the cache is a ledger of one-time identifiers: whatever purges
\* and late callers with old times do to one another, it drops only what is
\* older than TTL, and one of the oldest entries when MaxEntries are there
\* (markIfNewInMemory, purgeExpired, evictOldest).
Ledger == INSTANCE OneTimeLedger
            WITH Ids <- Jtis, Window <- TTL, Capacity <- MaxEntries, used <- items, now <- clock
ImplementsLedger == Ledger!Spec
=============================================================================
