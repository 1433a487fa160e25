--------------------------- MODULE OneTimeLedger ---------------------------
(***************************************************************************)
(* What a replay cache promises its callers (internal/cache/replay.go),    *)
(* without its calls, its clock readings and its purges: a ledger of the   *)
(* identifiers that were used.  An identifier on the ledger is refused, any*)
(* other is entered.  The ledger drops an identifier only when its window  *)
(* has passed, and one of the oldest that remain to make room when it is   *)
(* full; a crash loses it all.                                             *)
(***************************************************************************)
EXTENDS Integers, FiniteSets

CONSTANTS
    Ids,            \* the identifiers
    Window,         \* how long one is held
    Capacity        \* how many are

Never == -1

VARIABLES
    used,           \* used[k]: the time under which k was entered, or Never
    now

Held == {k \in Ids : used[k] # Never}
Expired(k) == now - used[k] > Window

\* The ledger with the entries of kept alone.
Only(kept) == [k \in Ids |-> IF k \in kept THEN used[k] ELSE Never]

\* Every identifier whose window has not passed is kept.
Keeps(kept) == \A k \in Held \ kept : Expired(k)

\* There is no room beside kept.
Full(kept) == Cardinality(kept) >= Capacity

Init == used = [k \in Ids |-> Never] /\ now = 0

Pass ==
    /\ now' \in Nat /\ now' > now
    /\ UNCHANGED used

\* Use of an identifier that is not held, under a time that may be past.
Grant ==
    /\ UNCHANGED now
    /\ \E kept \in SUBSET Held :
        /\ Keeps(kept)
        /\ \E k \in Ids \ kept, at \in 0..now :
            \/ /\ ~Full(kept)
               /\ used' = [Only(kept) EXCEPT ![k] = at]
            \/ /\ Full(kept)
               /\ \E v \in kept :
                    /\ \A l \in kept : used[v] <= used[l]
                    /\ used' = [Only(kept) EXCEPT ![v] = Never, ![k] = at]

\* Use of an identifier that is held.
Refuse ==
    /\ UNCHANGED now
    /\ \E kept \in SUBSET Held :
        /\ Keeps(kept) /\ kept # {}
        /\ used' = Only(kept)

Crash ==
    /\ used' = [k \in Ids |-> Never]
    /\ UNCHANGED now

Next == Pass \/ Grant \/ Refuse \/ Crash

Spec == Init /\ [][Next]_<<used, now>>
=============================================================================
