----------------------------- MODULE TokenProxy -----------------------------
(***************************************************************************)
(* The DPoP token proxy (scripts/dpop-token-proxy/app.py).  Keycloak puts  *)
(* the key a claim mapper names into every token of the client.  A call    *)
(* of /token writes the key of its proof into that mapper, which all calls *)
(* share, and asks Keycloak for the token in a later request.  A token is  *)
(* of use to its client if it is bound to the client's key                 *)
(* (ValidateDPoPBinding); clients are told apart by their keys.            *)
(***************************************************************************)
EXTENDS Naturals, FiniteSets

CONSTANTS
    Threads,        \* Flask threads, one per call
    Keys,           \* keys of clients
    InitialKey,     \* what the mapper holds before the first call
    NoKey,          \* no token yet
    MaxFaults       \* bound: requests to Keycloak that fail

ASSUME NoKeyAssumption == NoKey \notin Keys \cup {InitialKey}
ASSUME FaultsAssumption == MaxFaults \in Nat

VARIABLES
    call,           \* call[t]: the call thread t serves
    mapper,         \* the key in the mapper's claim.value
    late,           \* late[k]: PUTs of k the proxy gave up and Keycloak has yet to run
    bound,          \* the clients that hold a token bound to their key
    faults,
    overlap         \* history: overlap[t]: keys of the calls and late PUTs met by t

vars == <<call, mapper, late, bound, faults, overlap>>

NoCall == [pc |-> "idle"]

Active == {t \in Threads : call[t].pc # "idle"}
LateKeys == {k \in Keys : late[k] > 0}

Go(t, pc) == call' = [call EXCEPT ![t].pc = pc]

End(t) == call' = [call EXCEPT ![t] = NoCall]

\* A request to Keycloak fails, or is given up after its timeout.
Fault ==
    /\ faults < MaxFaults
    /\ faults' = faults + 1

Init ==
    /\ call = [t \in Threads |-> NoCall]
    /\ mapper = InitialKey
    /\ late = [k \in Keys |-> 0]
    /\ bound = {}
    /\ faults = 0
    /\ overlap = [t \in Threads |-> {}]

\* A client without a token bound to its key sends a proof, or a bad one.
Send(t, k, proof) ==
    /\ call[t].pc = "idle" /\ k \notin bound
    /\ call' = [call EXCEPT ![t] = [pc |-> "received", key |-> k, proof |-> proof, token |-> NoKey]]
    /\ overlap' = [u \in Threads |->
          IF u = t THEN {k} \cup {call[v].key : v \in Active} \cup LateKeys
          ELSE overlap[u] \cup {x \in {k} : u \in Active}]
    /\ UNCHANGED <<mapper, late, bound, faults>>

\* Mutant of Validate: a key that is in the mapper already is taken for a replay.
ValidateNewKeys(t) ==
    /\ call[t].pc = "received"
    /\ IF call[t].proof = "good" /\ call[t].key # mapper THEN Go(t, "read") ELSE End(t)
    /\ UNCHANGED <<mapper, late, bound, faults, overlap>>

\* token(): validate_dpop_proof refuses with 400, or the key of the proof is
\* its thumbprint.  The jti is not recorded.
Validate(t) ==
    /\ call[t].pc = "received"
    /\ IF call[t].proof = "good" THEN Go(t, "read") ELSE End(t)
    /\ UNCHANGED <<mapper, late, bound, faults, overlap>>

\* update_keycloak_dpop_jkt: the admin's token, the client and its mapper.
Read(t) ==
    /\ call[t].pc = "read"
    /\ Go(t, "put")
    /\ UNCHANGED <<mapper, late, bound, faults, overlap>>

ReadFails(t) ==
    /\ call[t].pc = "read"
    /\ Fault
    /\ End(t)
    /\ UNCHANGED <<mapper, late, bound, overlap>>

\* The PUT of the mapper with the key in it.
Put(t) ==
    /\ call[t].pc = "put"
    /\ mapper' = call[t].key
    /\ Go(t, "ask")
    /\ UNCHANGED <<late, bound, faults, overlap>>

\* Mutant of PutFails: the failure is not raised, and the token is asked for.
PutFailsUnnoticed(t) ==
    /\ call[t].pc = "put"
    /\ Fault
    /\ Go(t, "ask")
    /\ UNCHANGED <<mapper, late, bound, overlap>>

\* The PUT fails, and the call with it; Keycloak has run it, or never will, or
\* will later.
PutFails(t) ==
    /\ call[t].pc = "put"
    /\ Fault
    /\ End(t)
    /\ \/ UNCHANGED <<mapper, late>>
       \/ mapper' = call[t].key /\ UNCHANGED late
       \/ late' = [late EXCEPT ![call[t].key] = @ + 1] /\ UNCHANGED mapper
    /\ UNCHANGED <<bound, overlap>>

LatePut(k) ==
    /\ late[k] > 0
    /\ late' = [late EXCEPT ![k] = @ - 1]
    /\ mapper' = k
    /\ UNCHANGED <<call, bound, faults, overlap>>

\* Keycloak issues the token, with the key that is in the mapper now.
Issue(t) ==
    /\ call[t].pc = "ask"
    /\ call' = [call EXCEPT ![t].pc = "answer", ![t].token = mapper]
    /\ UNCHANGED <<mapper, late, bound, faults, overlap>>

\* Keycloak refuses the credentials, or its answer does not come.
AskFails(t) ==
    /\ call[t].pc = "ask"
    /\ Fault
    /\ End(t)
    /\ UNCHANGED <<mapper, late, bound, overlap>>

\* The proxy returns the token, which is good for the client if it is bound to
\* the key the client signs with.
Answer(t) ==
    /\ call[t].pc = "answer"
    /\ bound' = IF call[t].token = call[t].key THEN bound \cup {call[t].key} ELSE bound
    /\ End(t)
    /\ UNCHANGED <<mapper, late, faults, overlap>>

\* A token expires.
Expire(k) ==
    /\ k \in bound
    /\ bound' = bound \ {k}
    /\ UNCHANGED <<call, mapper, late, faults, overlap>>

Step(t) ==
    \/ Validate(t) \/ Read(t) \/ ReadFails(t) \/ Put(t) \/ PutFails(t)
    \/ Issue(t) \/ AskFails(t) \/ Answer(t)

Next ==
    \/ \E t \in Threads : Step(t)
    \/ \E t \in Threads, k \in Keys, proof \in {"good", "bad"} : Send(t, k, proof)
    \/ \E k \in Keys : LatePut(k) \/ Expire(k)

Spec == Init /\ [][Next]_vars

\* Threads run and requests are answered or given up; a client without a token
\* asks again, with a proof that is good; Keycloak gets to what is left over.
Fairness ==
    /\ \A t \in Threads : WF_vars(Step(t))
    /\ \A k \in Keys : SF_vars(\E t \in Threads : Send(t, k, "good"))
    /\ \A k \in Keys : WF_vars(LatePut(k))

FairSpec == Spec /\ Fairness

-----------------------------------------------------------------------------
CallType ==
    {NoCall} \cup [pc : {"received", "read", "put", "ask", "answer"}, key : Keys,
                   proof : {"good", "bad"}, token : Keys \cup {InitialKey, NoKey}]

TypeOK ==
    /\ call \in [Threads -> CallType]
    /\ mapper \in Keys \cup {InitialKey}
    /\ late \in [Keys -> Nat]
    /\ bound \subseteq Keys
    /\ faults \in 0..MaxFaults
    /\ overlap \in [Threads -> SUBSET Keys]

\* A token is bound to the key of a call that overlapped the one it is issued
\* to, or of a PUT left over from before; so a call that is alone gets a token
\* bound to its own key (token, update_keycloak_dpop_jkt).
TokenExplained ==
    \A t \in Threads : call[t].pc = "answer" => call[t].token \in overlap[t]

\* Nobody but k calls, and no PUT of another is left over.
OnlyCaller(k) == LateKeys \subseteq {k} /\ \A t \in Active : call[t].key = k

\* A client that is eventually the only one to call gets a token bound to its
\* key again and again (token; the timeouts of keycloak_admin_request).
ServedWhenAlone == \A k \in Keys : <>[]OnlyCaller(k) => []<>(k \in bound)
=============================================================================
