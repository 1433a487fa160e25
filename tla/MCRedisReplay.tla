--------------------------- MODULE MCRedisReplay ---------------------------
(* RedisReplay on a small instance: two goroutines, more jtis than entries, *)
(* a window that passes within the run, two faults and one restart.         *)
EXTENDS RedisReplay, TLC

Symmetry == Permutations(Threads) \cup Permutations(Jtis)
=============================================================================
