---------------------------- MODULE ClockReplacer ----------------------------
(***************************************************************************)
(* wasdb_buffer/src/clock.rs.  A call holds the mutex of ClockState from   *)
(* its first line to its last, so a sweep of the hand is not interleaved   *)
(* with another call; it is modelled hand step by hand step all the same,  *)
(* because what could go wrong with it is that it never ends.              *)
(***************************************************************************)
EXTENDS FrameIds, FiniteSets

VARIABLES
    refBits, isPinned, isActive, clockHand, size,  \* ClockState
    sweeping,    \* evict is in its loop
    startHand,   \* where that sweep started
    answer,      \* what the last evict returned
    refAtStart   \* ghost: refBits when the sweep started

state == <<refBits, isPinned, isActive, clockHand, size>>
sweep == <<sweeping, startHand, refAtStart>>
vars == <<state, sweep, answer>>

Init ==
    /\ refBits = [f \in Frames |-> FALSE]
    /\ isPinned = [f \in Frames |-> FALSE]
    /\ isActive = [f \in Frames |-> FALSE]
    /\ clockHand = 0
    /\ size = 0
    /\ sweeping = FALSE
    /\ startHand = 0
    /\ answer = None
    /\ refAtStart = refBits

\* Bug: a frame is counted at every access.
ActivateRecounts(f) ==
    /\ isActive' = [isActive EXCEPT ![f] = TRUE]
    /\ size' = size + 1

Activate(f) ==
    /\ isActive' = [isActive EXCEPT ![f] = TRUE]
    /\ size' = IF isActive[f] THEN size ELSE size + 1

RecordAccess(f) ==
    /\ ~sweeping
    /\ refBits' = [refBits EXCEPT ![f] = TRUE]
    /\ Activate(f)
    /\ UNCHANGED <<isPinned, clockHand, sweep, answer>>

SetPin(f, pinned) ==
    /\ ~sweeping
    /\ isPinned' = [isPinned EXCEPT ![f] = pinned]
    /\ Activate(f)
    /\ UNCHANGED <<refBits, clockHand, sweep, answer>>

Remove(f) ==
    /\ ~sweeping
    /\ isActive[f]
    /\ refBits' = [refBits EXCEPT ![f] = FALSE]
    /\ isPinned' = [isPinned EXCEPT ![f] = FALSE]
    /\ isActive' = [isActive EXCEPT ![f] = FALSE]
    /\ size' = size - 1
    /\ UNCHANGED <<clockHand, sweep, answer>>

EvictEmpty ==
    /\ ~sweeping
    /\ size = 0
    /\ answer' = None
    /\ UNCHANGED <<state, sweep>>

EvictBegin ==
    /\ ~sweeping
    /\ size # 0
    /\ sweeping' = TRUE
    /\ startHand' = clockHand
    /\ refAtStart' = refBits
    /\ UNCHANGED <<state, answer>>

\* Bug: the pin flags are not looked at.
CandidatesPinned == {f \in Frames : isActive[f]}

Candidates == {f \in Frames : isActive[f] /\ ~isPinned[f]}

\* Bug: the hand does not come round.
NextHandUnwrapped == clockHand + 1

NextHand == (clockHand + 1) % Capacity

Advance ==
    /\ sweeping
    /\ clockHand' = NextHand
    /\ UNCHANGED <<isPinned, startHand, refAtStart>>

\* Bug: the reference bits are not looked at.
AtReferenced == clockHand \in Candidates

\* An unpinned frame without its reference bit is the victim.
AtVictim == clockHand \in Candidates /\ ~refBits[clockHand]

EvictFrame ==
    /\ Advance
    /\ AtVictim
    /\ isActive' = [isActive EXCEPT ![clockHand] = FALSE]
    /\ size' = size - 1
    /\ answer' = clockHand
    /\ sweeping' = FALSE
    /\ UNCHANGED refBits

\* An unpinned frame that is passed over loses its bit.
ClearBit == refBits' = [refBits EXCEPT ![clockHand] = @ /\ clockHand \notin Candidates]

\* Bug: the sweep never gives up.
NeverInVain == FALSE

\* The hand is back where it started and every active frame is pinned.
InVain == NextHand = startHand /\ Candidates = {}

PassOver ==
    /\ Advance
    /\ ~AtVictim
    /\ ClearBit
    /\ IF InVain
       THEN sweeping' = FALSE /\ answer' = None
       ELSE UNCHANGED <<sweeping, answer>>
    /\ UNCHANGED <<isActive, size>>

HandStep == EvictFrame \/ PassOver

Next ==
    \/ \E f \in Frames : \/ RecordAccess(f)
                         \/ \E pinned \in BOOLEAN : SetPin(f, pinned)
                         \/ Remove(f)
    \/ EvictEmpty
    \/ EvictBegin
    \/ HandStep

Spec == Init /\ [][Next]_vars

\* The thread in evict runs.
FairSpec == Spec /\ WF_vars(HandStep)

-----------------------------------------------------------------------------
TypeOK ==
    /\ refBits \in [Frames -> BOOLEAN]
    /\ isPinned \in [Frames -> BOOLEAN]
    /\ isActive \in [Frames -> BOOLEAN]
    /\ clockHand \in Frames
    /\ size \in Nat
    /\ sweeping \in BOOLEAN
    /\ startHand \in Frames
    /\ answer \in Frames \cup {None}
    /\ refAtStart \in [Frames -> BOOLEAN]

\* size, which decides whether evict looks at all, is the number of frames the
\* clock manages.
SizeCountsActive == size = Cardinality({f \in Frames : isActive[f]})

\* evict takes the frame the clock algorithm defines: clockwise from where the
\* hand stood, the first candidate without a reference bit, or the first
\* candidate if all have one.
Distance(f) == (f + Capacity - startHand) % Capacity
Unreferenced == {f \in Candidates : ~refAtStart[f]}
ClockVictims == IF Unreferenced # {} THEN Unreferenced ELSE Candidates
EvictsInClockOrder ==
    [][EvictFrame =>
           /\ answer' \in ClockVictims
           /\ \A f \in ClockVictims : Distance(answer') <= Distance(f)]_vars

\* Clock is a replacement policy.
Policy == INSTANCE ReplacementPolicy WITH
              tracked <- {f \in Frames : isActive[f]},
              pinned <- {f \in Frames : isPinned[f]}
ImplementsPolicy == Policy!Spec

\* evict returns.
SweepEnds == sweeping ~> ~sweeping
=============================================================================
