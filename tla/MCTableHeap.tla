----------------------------- MODULE MCTableHeap -----------------------------
(* Tuples for TLC: records of one byte and of twenty-four.                    *)
EXTENDS TableHeap, TLC

CONSTANTS Small, Large

Records == {Small, Large}
RecordLength == Small :> 1 @@ Large :> 24

Symmetry == Permutations(Threads)
=============================================================================
