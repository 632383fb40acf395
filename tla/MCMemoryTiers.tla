---------------------------- MODULE MCMemoryTiers ----------------------------
(* Instances of MemoryTiers for TLC.                                       *)
EXTENDS MemoryTiers, TLC

(* No id and no task is treated unlike another.                            *)
Symmetry == Permutations(Id) \cup Permutations(Task)
=============================================================================
