--------------------------- MODULE MCReplayCache ---------------------------
(* ReplayCache on a small instance: two goroutines race on three jtis, the *)
(* store holds two entries, and the clock passes two whole windows.        *)
EXTENDS ReplayCache, TLC

Symmetry == Permutations(Threads) \cup Permutations(Jtis)
=============================================================================
