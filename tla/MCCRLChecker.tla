--------------------------- MODULE MCCRLChecker ---------------------------
(* CRLChecker on small instances: two calls contend for the mutex while    *)
(* the CA revokes, fails, and the process restarts.                        *)
EXTENDS CRLChecker, TLC

Symmetry == Permutations(Threads) \cup Permutations(Serials)
=============================================================================
