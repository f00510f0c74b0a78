----------------------------- MODULE MCPoolParts -----------------------------
(* What a pool is built over, one part at a time: one of the two policies, or *)
(* the disk manager.                                                          *)
EXTENDS ClockReplacer, DiskPages

VARIABLES
    part,
    accessQueue, lruPinned, lruAnswer, usedSince,
    file, synced, totalPages, writing, blocks, firstPage, unsure

lruVars == <<accessQueue, lruPinned, lruAnswer, usedSince>>
diskVars == <<file, synced, totalPages, writing, blocks, firstPage, unsure>>

LRU == INSTANCE LRUReplacer WITH isPinned <- lruPinned, answer <- lruAnswer
Disk == INSTANCE DiskManager WITH answer <- blocks

EitherInit ==
    /\ part \in {"lru", "clock", "disk"}
    /\ LRU!Init
    /\ Disk!Init
    /\ Init

EitherNext ==
    \/ part = "lru" /\ LRU!Next /\ UNCHANGED <<part, vars, diskVars>>
    \/ part = "clock" /\ Next /\ UNCHANGED <<part, lruVars, diskVars>>
    \/ part = "disk" /\ Disk!Next /\ UNCHANGED <<part, vars, lruVars>>

EitherSpec ==
    /\ EitherInit
    /\ [][EitherNext]_<<part, vars, lruVars, diskVars>>
    /\ WF_vars(HandStep)

-----------------------------------------------------------------------------
\* The types of all three.
PartsTypeOK == TypeOK /\ LRU!TypeOK /\ Disk!TypeOK

\* LRUReplacer's properties.
LRUEvictsLeastRecentlyUsed == LRU!EvictsLeastRecentlyUsed
LRUImplementsPolicy == LRU!ImplementsPolicy

\* DiskManager's.
ImplementsPageFile == Disk!ImplementsPageFile
=============================================================================
