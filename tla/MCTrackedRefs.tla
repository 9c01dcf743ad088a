-------------------------- MODULE MCTrackedRefs --------------------------
(* Instances of TrackedRefs for model checking: no operation tells         *)
(* variables, lists or places in memory apart.                             *)
EXTENDS TrackedRefs, TLC

Symmetry == Permutations(Vars) \cup Permutations(Lists) \cup Permutations(Heap)
=============================================================================
