---- MODULE MCVersionManager ----
EXTENDS VersionManager, TLC

Symmetry == Permutations(Ids)
====
