---------------------------- MODULE MCListRefs ----------------------------
(* Lists and variables are interchangeable: no order among them is used.  *)
EXTENDS ListRefs, TLC

Symmetry == Permutations(Lists) \cup Permutations(Vars)
=============================================================================
