---------------------------- MODULE MCBTreeIndex ----------------------------
(* Threads and values are interchangeable.                                   *)
EXTENDS BTreeIndex

Symmetry == Permutations(Threads) \cup Permutations(Ctids)
=============================================================================
