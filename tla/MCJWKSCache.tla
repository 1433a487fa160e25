---------------------------- MODULE MCJWKSCache ----------------------------
(* The two readers of the IdP's keys on small instances.  They share nothing *)
(* but the IdP, so a behaviour has one of them: ext_authz's JWKSCache or the *)
(* backend's JWKSValidator.                                                  *)
EXTENDS JWKSCache, BackendKeys

VARIABLE readerIs   \* "ext_authz" or "backend", for the whole behaviour

mcVars == <<vars, validator, readerIs>>

MCInit ==
    /\ Init /\ ValidatorInit
    /\ readerIs \in {"ext_authz", "backend"}

MCNext ==
    \/ readerIs = "ext_authz" /\ Next /\ UNCHANGED <<validator, readerIs>>
    \/ readerIs = "backend" /\ ValidatorNext /\ UNCHANGED <<reader, readerIs>>

MCSpec == MCInit /\ [][MCNext]_mcVars /\ (readerIs = "ext_authz" => Fairness)

\* Converges, of ext_authz: the backend's cache waits for a request.
CacheConverges == readerIs = "ext_authz" => Converges
=============================================================================
