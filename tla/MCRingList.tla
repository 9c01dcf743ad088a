---------------------------- MODULE MCRingList ----------------------------
(* Instances of RingList for model checking: no operation tells blocks     *)
(* apart.                                                                  *)
EXTENDS RingList

Symmetry == Permutations(Blocks)
=============================================================================
