--------------------------- MODULE MCSpawnSpammer ---------------------------
(* Instances of SpawnSpammer for TLC.                                      *)
EXTENDS SpawnSpammer, TLC

Symmetry == Permutations(Keys)
=============================================================================
