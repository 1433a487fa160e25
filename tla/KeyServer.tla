----------------------------- MODULE KeyServer -----------------------------
(***************************************************************************)
(* The IdP (Keycloak) as its readers see it: the verification keys it      *)
(* publishes, which it rotates, and outages.  For each key it is known how *)
(* long ago it was published or withdrawn, up to a horizon beyond which    *)
(* ages are not told apart.                                                *)
(***************************************************************************)
EXTENDS Integers, FiniteSets

CONSTANTS
    Kids,           \* the kids of usable keys
    InitialKids,    \* the keys the IdP starts with
    Horizon,        \* the largest age
    MaxChanges,     \* bound on rotations of the IdP's keys
    MaxOutages      \* bound on outages of the IdP

ASSUME KidAssumption == InitialKids \in (SUBSET Kids) \ {{}}
ASSUME BoundAssumption == Horizon \in Nat /\ MaxChanges \in Nat /\ MaxOutages \in Nat

VARIABLES
    published,  \* what the IdP's jwks_uri serves
    up,         \* the IdP answers with a usable key
    changes, outages,
    since,      \* history: since[k]: ticks since k was published or withdrawn
    upFor       \* history: ticks since the IdP last failed to

idp == <<published, up, changes, outages, since, upFor>>

Ages == 0..Horizon
Older(age) == IF age < Horizon THEN age + 1 ELSE age

KeyServerTypeOK ==
    /\ published \subseteq Kids /\ up \in BOOLEAN
    /\ changes \in 0..MaxChanges /\ outages \in 0..MaxOutages
    /\ since \in [Kids -> Ages] /\ upFor \in Ages

KeyServerInit ==
    /\ published = InitialKids /\ up = TRUE
    /\ changes = 0 /\ outages = 0
    /\ since = [k \in Kids |-> Horizon] /\ upFor = Horizon

Rotate ==
    /\ changes < MaxChanges
    /\ \E new \in (SUBSET Kids) \ {{}, published} :
        /\ published' = new
        /\ since' = [k \in Kids |-> IF (k \in new) = (k \in published) THEN since[k] ELSE 0]
    /\ changes' = changes + 1
    /\ UNCHANGED <<up, outages, upFor>>

Fail ==
    /\ up /\ outages < MaxOutages
    /\ up' = FALSE /\ outages' = outages + 1 /\ upFor' = 0
    /\ UNCHANGED <<published, changes, since>>

Recover ==
    /\ ~up
    /\ up' = TRUE
    /\ UNCHANGED <<published, changes, outages, since, upFor>>

\* A tick of the clock.
Age ==
    /\ since' = [k \in Kids |-> Older(since[k])]
    /\ upFor' = IF up THEN Older(upFor) ELSE 0
    /\ UNCHANGED <<published, up, changes, outages>>
=============================================================================
