---------------------------- MODULE MCAuthzCheck ----------------------------
(* AuthzCheck on small instances: two calls at a time.                     *)
EXTENDS AuthzCheck, TLC

\* A token that is bound to a key is none that is not: the two kinds are
\* permuted apart.
Symmetry ==
    Permutations(Threads) \cup Permutations(Proofs)
      \cup Permutations(DPoPTokens) \cup Permutations(Tokens \ DPoPTokens)
=============================================================================
