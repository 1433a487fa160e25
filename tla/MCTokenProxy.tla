---------------------------- MODULE MCTokenProxy ----------------------------
(* The two programs that write to Keycloak, on small instances.  They write  *)
(* different things there, so a behaviour has one of them: three threads of  *)
(* the token proxy serve two clients, or three workers of the backend        *)
(* register two users.                                                       *)
EXTENDS TokenProxy, Registration

VARIABLE writerIs   \* "proxy" or "backend", for the whole behaviour

mcVars == <<vars, registration, writerIs>>

MCInit ==
    /\ Init /\ RegistrationInit
    /\ writerIs \in {"proxy", "backend"}

MCNext ==
    \/ writerIs = "proxy" /\ Next /\ UNCHANGED <<registration, writerIs>>
    \/ writerIs = "backend" /\ RegistrationNext /\ UNCHANGED <<vars, writerIs>>

MCSpec == MCInit /\ [][MCNext]_mcVars /\ (writerIs = "proxy" => Fairness)

\* ServedWhenAlone, of the proxy's clients.
ServedByProxy == writerIs = "proxy" => ServedWhenAlone
=============================================================================
