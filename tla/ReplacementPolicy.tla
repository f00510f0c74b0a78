-------------------------- MODULE ReplacementPolicy --------------------------
(***************************************************************************)
(* The contract of the trait ReplacementPolicy (wasdb_buffer/src/          *)
(* replacer.rs) on which the buffer pool relies, whatever the policy:      *)
(* evict answers some frame that is tracked and not pinned and stops       *)
(* tracking it, and answers None only when there is no such frame.         *)
(***************************************************************************)
CONSTANTS Frames,  \* frame ids below the capacity
          None     \* evict found no victim

VARIABLES tracked,  \* frames that may be evicted once they are not pinned
          pinned,   \* frames whose pin flag is set
          answer    \* what the last evict returned

policyVars == <<tracked, pinned, answer>>

Init ==
    /\ tracked = {}
    /\ pinned = {}
    /\ answer = None

RecordAccess(f) ==
    /\ tracked' = tracked \cup {f}
    /\ UNCHANGED <<pinned, answer>>

\* A policy may begin to track the frame when its flag is set.
SetPin(f, isPinned) ==
    /\ pinned' = IF isPinned THEN pinned \cup {f} ELSE pinned \ {f}
    /\ tracked' \in {tracked, tracked \cup {f}}
    /\ UNCHANGED answer

Evict ==
    \/ /\ answer' \in tracked \ pinned
       /\ tracked' = tracked \ {answer'}
       /\ UNCHANGED pinned
    \/ /\ tracked \subseteq pinned
       /\ answer' = None
       /\ UNCHANGED <<tracked, pinned>>

\* Whether the pin flag is reset is left to the policy.
Remove(f) ==
    /\ tracked' = tracked \ {f}
    /\ pinned' \in {pinned, pinned \ {f}}
    /\ UNCHANGED answer

Next ==
    \/ \E f \in Frames : \/ RecordAccess(f)
                         \/ \E isPinned \in BOOLEAN : SetPin(f, isPinned)
                         \/ Remove(f)
    \/ Evict

Spec == Init /\ [][Next]_policyVars
=============================================================================
