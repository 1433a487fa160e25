--------------------------- MODULE MCRateLimiter ---------------------------
(* RateLimiter on a small instance: three goroutines count one identity,   *)
(* two requests a window, and the clock passes two windows and more.       *)
EXTENDS RateLimiter, TLC

Symmetry == Permutations(Threads) \cup Permutations(Keys)
=============================================================================
