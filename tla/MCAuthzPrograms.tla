-------------------------- MODULE MCAuthzPrograms --------------------------
(* The two programs that run the pipeline, two calls at a time.  A behaviour *)
(* has one of them: ext_authz/server.go without nonces, where proofs outlive *)
(* their entry and caches are full, or cmd/server/main.go with nonces, which *)
(* expire at once.                                                           *)
EXTENDS MCAuthzCheck

VARIABLES
    programIs,      \* "server.go" or "main.go", for the whole behaviour
    answeredByMain  \* the tokens main.go allowed, which it never promised to
                    \* allow once

mcVars == <<vars, programIs, answeredByMain>>

Main == INSTANCE AuthzCheck
    WITH MarksTokens <- FALSE, NonceEnabled <- TRUE, NonceTTL <- 0, Drift <- 0, MaxTime <- 1,
         answered <- answeredByMain

MCInit ==
    /\ Init /\ answeredByMain = {}
    /\ programIs \in {"server.go", "main.go"}

\* A token that is bound to no key takes the steps of no token in main.go, which
\* does not record it: its behaviours have none.
BoundOrNone ==
    \A t \in Threads : call[t] # NoCall => call[t].token \in DPoPTokens \cup {NoToken}

MCNext ==
    \/ programIs = "server.go" /\ Next /\ UNCHANGED <<programIs, answeredByMain>>
    \/ /\ programIs = "main.go" /\ Main!Next /\ BoundOrNone'
       /\ UNCHANGED <<programIs, answered>>

MCSpec == MCInit /\ [][MCNext]_mcVars
=============================================================================
