--------------------------- MODULE MCMemoryPool ---------------------------
(* Instances of MemoryPool for model checking: no operation tells          *)
(* sub-threads, or places of one kind, apart.                              *)
EXTENDS MemoryPool, TLC

Symmetry ==
    Permutations(SubThreads) \cup Permutations(Small) \cup Permutations(Large)
      \cup Permutations(Heap)
=============================================================================
