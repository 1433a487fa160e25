---------------------------- MODULE RateLimiter ----------------------------
(***************************************************************************)
(* RateLimiter.Allow (internal/cache/rate.go), called by concurrent Check  *)
(* goroutines through enforceRateLimit.  A call reads the clock, then      *)
(* waits for the mutex, then counts itself in the bucket of its key (the   *)
(* limit, the identity and the window together) with the time it read.     *)
(* Calls that name no identity, no limit or no window are answered before  *)
(* anything is read, so only the others appear.                            *)
(***************************************************************************)
EXTENDS Integers, FiniteSets, Sequences

CONSTANTS
    Threads,        \* goroutines that serve Check
    Keys,           \* identities under one rule's limit
    MaxRequests,    \* RateLimitDecision.MaxRequests
    Window,         \* RateLimitDecision.Window
    MaxLag,         \* longest wait for the mutex
    NoCall,         \* what a goroutine outside Allow is doing
    NoBucket,       \* the key is not in the map
    MaxTime         \* bound on the clock

ASSUME LimitAssumption ==
    /\ MaxRequests \in Nat \ {0} /\ Window \in Nat \ {0}
    /\ MaxLag \in Nat /\ MaxLag < Window /\ MaxTime \in Nat

Calls == [key : Keys, stamp : Nat]
Buckets == [startAt : Nat, count : Nat]

ASSUME NoneAssumption == NoCall \notin Calls /\ NoBucket \notin Buckets

VARIABLES
    clock,      \* time.Now()
    call,       \* call[t]: the key t counts under and the time it read
    state,      \* RateLimiter.state
    granted     \* history: granted[k]: when requests of k were allowed, in
                \* order, since the last restart

vars == <<clock, call, state, granted>>

TypeOK ==
    /\ clock \in 0..MaxTime
    /\ call \in [Threads -> Calls \cup {NoCall}]
    /\ state \in [Keys -> Buckets \cup {NoBucket}]
    /\ granted \in [Keys -> Seq(0..MaxTime)]

Init ==
    /\ clock = 0
    /\ call = [t \in Threads |-> NoCall]
    /\ state = [k \in Keys |-> NoBucket]
    /\ granted = [k \in Keys |-> <<>>]

\* No call waits for the mutex longer than MaxLag.
Tick ==
    /\ clock < MaxTime
    /\ \A t \in Threads : call[t] # NoCall => clock - call[t].stamp < MaxLag
    /\ clock' = clock + 1
    /\ UNCHANGED <<call, state, granted>>

\* Allow up to the mutex.
Enter(t, k) ==
    /\ call[t] = NoCall
    /\ call' = [call EXCEPT ![t] = [key |-> k, stamp |-> clock]]
    /\ UNCHANGED <<clock, state, granted>>

Grant(t) ==
    /\ call' = [call EXCEPT ![t] = NoCall]
    /\ granted' = [granted EXCEPT ![call[t].key] = Append(@, clock)]
    /\ UNCHANGED clock

\* Mutant of Elapsed: the boundary belongs to the old window.
ElapsedAfter(b, n) == n - b.startAt > Window

\* Mutant of Elapsed: a window is cut short by one.
ElapsedEarly(b, n) == n - b.startAt >= Window - 1

Elapsed(b, n) == n - b.startAt >= Window

\* The first request of a key, or of a new window.
OpenWindow(t) ==
    /\ call[t] # NoCall
    /\ state[call[t].key] # NoBucket => Elapsed(state[call[t].key], call[t].stamp)
    /\ state' = [state EXCEPT ![call[t].key] = [startAt |-> call[t].stamp, count |-> 1]]
    /\ Grant(t)

\* The time a late caller read may be before the start of the window.
InWindow(t) ==
    /\ call[t] # NoCall
    /\ state[call[t].key] # NoBucket
    /\ ~Elapsed(state[call[t].key], call[t].stamp)

Count(t) ==
    /\ InWindow(t)
    /\ state[call[t].key].count < MaxRequests
    /\ state' = [state EXCEPT ![call[t].key].count = @ + 1]
    /\ Grant(t)

Refuse(t) ==
    /\ InWindow(t)
    /\ state[call[t].key].count >= MaxRequests
    /\ call' = [call EXCEPT ![t] = NoCall]
    /\ UNCHANGED <<clock, state, granted>>

\* The process dies and is started again: NewRateLimiter.
Restart ==
    /\ call' = [t \in Threads |-> NoCall]
    /\ state' = [k \in Keys |-> NoBucket]
    /\ granted' = [k \in Keys |-> <<>>]
    /\ UNCHANGED clock

Next ==
    \/ Tick
    \/ \E t \in Threads, k \in Keys : Enter(t, k)
    \/ \E t \in Threads : OpenWindow(t) \/ Count(t) \/ Refuse(t)
    \/ Restart

Spec == Init /\ [][Next]_vars

-----------------------------------------------------------------------------
\* The requests of k allowed from one time to another.
Granted(k, from, to) ==
    Cardinality({i \in DOMAIN granted[k] : from <= granted[k][i] /\ granted[k][i] <= to})

\* A caller is refused only when its key has used the whole quota within one
\* window before the time it read, however late it got the mutex (Allow).
RefusalJustified ==
    [][\A t \in Threads :
          Refuse(t) => Granted(call[t].key, call[t].stamp - Window + 1, clock)
                         >= MaxRequests]_vars

\* The quota of fixed windows: no span of time that is shorter than a window
\* by the longest wait holds more than twice the quota, wherever it starts and
\* however the calls in it were delayed (Allow).
BurstBounded ==
    \A k \in Keys, n \in 0..MaxTime : Granted(k, n, n + Window - MaxLag) <= 2 * MaxRequests
=============================================================================
