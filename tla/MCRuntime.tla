---- MODULE MCRuntime ----
EXTENDS Runtime, TLC

MCObjects == 1..MaxTurns

Symmetry == Permutations(Threads)
====
