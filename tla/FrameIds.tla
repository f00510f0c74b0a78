------------------------------ MODULE FrameIds ------------------------------
(* What a replacement policy is built with: the number of frames.            *)
EXTENDS Naturals

CONSTANTS Capacity,
          None      \* evict found no victim

ASSUME CapacityAssumption == Capacity \in Nat \ {0}

\* Frame ids are below the capacity.
Frames == 0 .. Capacity - 1

ASSUME NoneAssumption == None \notin Frames
=============================================================================
