----------------------------- MODULE LRUReplacer -----------------------------
(***************************************************************************)
(* wasdb_buffer/src/lru.rs.  Every call holds the mutex of LruState, so    *)
(* each is one step.  Frame ids are below the capacity, as the pool's are. *)
(***************************************************************************)
EXTENDS FrameIds, FiniteSets, SequencesExt

VARIABLES
    accessQueue,  \* access_queue, least recently used first
    isPinned,     \* is_pinned
    answer,       \* what the last evict returned
    usedSince     \* ghost: the frames accessed since a frame's last access

vars == <<accessQueue, isPinned, answer, usedSince>>

Init ==
    /\ accessQueue = <<>>
    /\ isPinned = [f \in Frames |-> FALSE]
    /\ answer = None
    /\ usedSince = [f \in Frames |-> {}]

\* Bug: a frame keeps its place when it is accessed again, as in a FIFO.
QueuedAtFirstUse(f) ==
    IF Contains(accessQueue, f) THEN accessQueue ELSE Append(accessQueue, f)

\* record_access moves the frame to the back.
MovedToBack(f) == Append(RemoveFirst(accessQueue, f), f)

RecordAccess(f) ==
    /\ accessQueue' = MovedToBack(f)
    /\ usedSince' = [g \in Frames |-> IF g = f THEN {} ELSE usedSince[g] \cup {f}]
    /\ UNCHANGED <<isPinned, answer>>

SetPin(f, pinned) ==
    /\ isPinned' = [isPinned EXCEPT ![f] = pinned]
    /\ UNCHANGED <<accessQueue, answer, usedSince>>

\* Bug: the pin flags are not looked at.
IsFront(i) == i = 1

\* The first unpinned frame from the front.
IsFirstUnpinned(i) ==
    /\ ~isPinned[accessQueue[i]]
    /\ \A j \in 1 .. i - 1 : isPinned[accessQueue[j]]

EvictFrame(i) ==
    /\ IsFirstUnpinned(i)
    /\ answer' = accessQueue[i]
    /\ accessQueue' = RemoveAt(accessQueue, i)
    /\ UNCHANGED <<isPinned, usedSince>>

EvictNone ==
    /\ \A i \in DOMAIN accessQueue : isPinned[accessQueue[i]]
    /\ answer' = None
    /\ UNCHANGED <<accessQueue, isPinned, usedSince>>

\* remove, whose pin flag stays as it was.
Release(f) ==
    /\ accessQueue' = RemoveFirst(accessQueue, f)
    /\ UNCHANGED <<isPinned, answer, usedSince>>

Next ==
    \/ \E f \in Frames : \/ RecordAccess(f)
                         \/ \E pinned \in BOOLEAN : SetPin(f, pinned)
                         \/ Release(f)
    \/ \E i \in DOMAIN accessQueue : EvictFrame(i)
    \/ EvictNone

Spec == Init /\ [][Next]_vars

-----------------------------------------------------------------------------
Tracked == ToSet(accessQueue)
Candidates == {f \in Tracked : ~isPinned[f]}

TypeOK ==
    /\ accessQueue \in Seq(Frames)
    /\ isPinned \in [Frames -> BOOLEAN]
    /\ answer \in Frames \cup {None}
    /\ usedSince \in [Frames -> SUBSET Frames]

\* evict takes the least recently used candidate: every other one was accessed
\* after the victim's last access.
EvictsLeastRecentlyUsed ==
    [][\A i \in DOMAIN accessQueue :
           EvictFrame(i) => Candidates \ {accessQueue[i]}
                                \subseteq usedSince[accessQueue[i]]]_vars

\* LRU is a replacement policy.
Policy == INSTANCE ReplacementPolicy WITH
              tracked <- Tracked, pinned <- {f \in Frames : isPinned[f]}
ImplementsPolicy == Policy!Spec
=============================================================================
