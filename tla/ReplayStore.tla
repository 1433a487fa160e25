---------------------------- MODULE ReplayStore ----------------------------
(***************************************************************************)
(* The in-memory store of cache.ReplayCache (internal/cache/replay.go):    *)
(* the map from a jti to the time it was seen, and the time of the last    *)
(* purge.  Each action is the whole critical section of                    *)
(* markIfNewInMemory, called with the jti j and the time n its caller read *)
(* before it asked for the mutex.  Components that own a replay cache      *)
(* instantiate this module.                                                *)
(***************************************************************************)
EXTENDS Integers, FiniteSets

CONSTANTS
    Jtis,        \* the non-blank token or proof identifiers
    TTL,         \* replay window (ReplayCache.ttl)
    MaxEntries   \* capacity (ReplayCache.max)

ASSUME TTLAssumption == TTL \in Nat \ {0}
ASSUME MaxEntriesAssumption == MaxEntries \in Nat \ {0}

VARIABLES
    items,       \* items[j]: when j was seen, or Absent
    last         \* time of the last purge

Absent == -1

Present(f) == {j \in Jtis : f[j] # Absent}

StoreTypeOK ==
    /\ items \in [Jtis -> Nat \cup {Absent}]
    /\ last \in Nat

StoreInit(n) ==
    /\ items = [j \in Jtis |-> Absent]
    /\ last = n

\* Mutant of PurgeDue: the scan waits for two windows.
PurgeDueLate(n) == n - last > 2 * TTL

\* purgeExpired scans at most once per TTL, and keeps an entry whose age is
\* exactly TTL.
PurgeDue(n) == n - last >= TTL

\* Mutant of Purged: an entry that is exactly TTL old is dropped too.
PurgedAtTTL(n) ==
    [j \in Jtis |-> IF PurgeDue(n) /\ items[j] <= n - TTL THEN Absent ELSE items[j]]

Purged(n) ==
    [j \in Jtis |-> IF PurgeDue(n) /\ items[j] < n - TTL THEN Absent ELSE items[j]]

PurgeTime(n) == IF PurgeDue(n) THEN n ELSE last

\* Mutant of Full: one entry too many fits.
FullLate(f) == Cardinality(Present(f)) > MaxEntries

Full(f) == Cardinality(Present(f)) >= MaxEntries

\* Mutant of Oldest: the comparison is the wrong way round.
Newest(f) == {v \in Present(f) : \A k \in Present(f) : f[k] <= f[v]}

\* evictOldest takes one of the entries with the smallest time: which one of
\* several depends on the iteration order of the map.
Oldest(f) == {v \in Present(f) : \A k \in Present(f) : f[v] <= f[k]}

RejectReplay(j, n) ==
    /\ j \in Present(Purged(n))
    /\ items' = Purged(n)
    /\ last' = PurgeTime(n)

RecordNew(j, n) ==
    /\ j \notin Present(Purged(n))
    /\ \/ /\ ~Full(Purged(n))
          /\ items' = [Purged(n) EXCEPT ![j] = n]
       \/ /\ Full(Purged(n))
          /\ \E v \in Oldest(Purged(n)) :
                items' = [Purged(n) EXCEPT ![v] = Absent, ![j] = n]
    /\ last' = PurgeTime(n)

\* The jtis whose unexpired entry a RecordNew(j, n) step gave up for j.
Victims(n) == Present(Purged(n)) \ Present(items')
=============================================================================
