------------------------------ MODULE DiskPages ------------------------------
(* The pages of a file, for DiskManager.                                     *)
EXTENDS Naturals

CONSTANTS Data,       \* what pages are written with, the same in every block
          Zero,       \* a block of zeros
          Unsure,     \* a page that does not hold one datum, or may not
          PAGE_SIZE,  \* in blocks
          MaxPages    \* bound on the pages allocated

ASSUME PagesAssumption == PAGE_SIZE \in Nat \ {0} /\ MaxPages \in Nat

ASSUME DataAssumption == Zero \notin Data /\ Unsure \notin Data /\ Unsure # Zero

PageNums == 0 .. MaxPages - 1
Blocks == Data \cup {Zero}
=============================================================================
