--------------------------- MODULE PoolParts_proofs ----------------------------
(***************************************************************************)
(* What holds of the parts a pool is built over.  Of ClockReplacer and     *)
(* LRUReplacer, for any number of frames: the victim is the one the        *)
(* policy's algorithm defines, and both are a ReplacementPolicy.  Of       *)
(* DiskManager, for pages of any size, any number of them and any          *)
(* failures: it is a PageFile.                                             *)
(***************************************************************************)
EXTENDS MCPoolParts, SequenceTheorems, FiniteSetTheorems, WellFoundedInduction, TLAPS

-----------------------------------------------------------------------------
(* ClockReplacer *)

Active == {f \in Frames : isActive[f]}

\* In its first round the hand has left only cleared candidates behind, and what lies
\* ahead of it is as it was when the sweep started.
FirstRound ==
    \A f \in Frames :
        IF Distance(f) < Distance(clockHand)
        THEN f \in Candidates => refAtStart[f] /\ ~refBits[f]
        ELSE refBits[f] = refAtStart[f]

\* In its second there are candidates, all of them ahead, all of them cleared.
SecondRound ==
    /\ Candidates # {}
    /\ \A f \in Candidates :
           refAtStart[f] /\ ~refBits[f] /\ Distance(clockHand) <= Distance(f)

SweepFits == sweeping => FirstRound \/ SecondRound

ClockInv ==
    /\ TypeOK
    /\ SizeCountsActive
    /\ SweepFits

-----------------------------------------------------------------------------
(* Steps around the clock *)

LEMMA Remainders ==
    ASSUME NEW d \in Nat \ {0}, NEW n \in Nat, n < 2 * d
    PROVE  n % d = IF n < d THEN n ELSE n - d
<1>1. CASE n < d
  BY <1>1
<1>2. CASE d <= n
  BY <1>2
<1> QED BY <1>1, <1>2

LEMMA HandFacts ==
    ASSUME NEW h \in Frames
    PROVE  /\ (h + 1) % Capacity \in Frames
           /\ (h + 1) % Capacity = IF h + 1 < Capacity THEN h + 1 ELSE 0
<1>1. h \in Nat /\ h + 1 <= Capacity /\ Capacity \in Nat \ {0} /\ h + 1 < 2 * Capacity
  BY CapacityAssumption DEF Frames
<1> DEFINE n == h + 1
<1>2. n \in Nat /\ n < 2 * Capacity
  BY <1>1
<1> HIDE DEF n
<1>3. n % Capacity = IF n < Capacity THEN n ELSE n - Capacity
  BY <1>1, <1>2, Remainders
<1> QED BY <1>1, <1>3 DEF Frames, n

LEMMA DistanceFacts ==
    ASSUME NEW s \in Frames, NEW f \in Frames
    PROVE  /\ (f + Capacity - s) % Capacity \in 0 .. Capacity - 1
           /\ (f + Capacity - s) % Capacity = IF s <= f THEN f - s ELSE f + Capacity - s
<1>1. /\ Capacity \in Nat \ {0}
      /\ f \in Nat /\ f < Capacity /\ s \in Nat /\ s < Capacity
  BY CapacityAssumption DEF Frames
<1> DEFINE n == f + Capacity - s
<1>2. n \in Nat /\ n < 2 * Capacity
  BY <1>1
<1> HIDE DEF n
<1>3. n % Capacity = IF n < Capacity THEN n ELSE n - Capacity
  BY <1>1, <1>2, Remainders
<1> QED BY <1>1, <1>3 DEF n

\* Frames are told apart by their distances; the hand comes one further with each step
\* until it is back at the start, and then it has passed them all.
LEMMA AdvanceFacts ==
    ASSUME startHand \in Frames, clockHand \in Frames
    PROVE  /\ \A f \in Frames : Distance(f) = Distance(clockHand) => f = clockHand
           /\ NextHand \in Frames
           /\ NextHand # startHand => Distance(NextHand) = Distance(clockHand) + 1
           /\ NextHand = startHand => \A f \in Frames : Distance(f) <= Distance(clockHand)
           /\ Distance(startHand) = 0
<1>1. /\ Capacity \in Nat \ {0}
      /\ \A f \in Frames : f \in Nat /\ f < Capacity
  BY CapacityAssumption DEF Frames
<1>2. /\ NextHand \in Frames
      /\ NextHand = IF clockHand + 1 < Capacity THEN clockHand + 1 ELSE 0
  BY HandFacts DEF NextHand
<1>3. \A f \in Frames : Distance(f) = IF startHand <= f THEN f - startHand
                                                        ELSE f + Capacity - startHand
  BY DistanceFacts DEF Distance
<1> HIDE DEF NextHand
<1>4. \A f \in Frames : Distance(f) = Distance(clockHand) => f = clockHand
  BY <1>1, <1>3
<1>5. NextHand # startHand => Distance(NextHand) = Distance(clockHand) + 1
  BY <1>1, <1>2, <1>3
<1>6. NextHand = startHand => \A f \in Frames : Distance(f) <= Distance(clockHand)
  BY <1>1, <1>2, <1>3
<1>7. Distance(startHand) = 0
  BY <1>1, <1>3
<1> QED BY <1>2, <1>4, <1>5, <1>6, <1>7

-----------------------------------------------------------------------------
(* size *)

LEMMA ActiveFacts ==
    IsFiniteSet(Active) /\ Cardinality(Active) \in Nat
<1>1. IsFiniteSet(Frames)
  BY CapacityAssumption, FS_Interval DEF Frames
<1>2. IsFiniteSet(Active)
  BY <1>1, FS_Subset DEF Active
<1> QED BY <1>2, FS_CardinalityType

LEMMA ActivateKeeps ==
    ASSUME TypeOK, SizeCountsActive, NEW f \in Frames, Activate(f)
    PROVE  /\ isActive' \in [Frames -> BOOLEAN]
           /\ Active' = Active \cup {f}
           /\ size' \in Nat /\ SizeCountsActive'
<1>1. isActive' \in [Frames -> BOOLEAN] /\ Active' = Active \cup {f}
  BY DEF TypeOK, Activate, Active
<1>2. Cardinality(Active \cup {f}) =
          IF f \in Active THEN Cardinality(Active) ELSE Cardinality(Active) + 1
  BY ActiveFacts, FS_AddElement
<1>3. size = Cardinality(Active) /\ (isActive[f] <=> f \in Active)
  BY DEF SizeCountsActive, Active
<1>4. size' = Cardinality(Active')
  BY <1>1, <1>2, <1>3 DEF Activate
<1> QED BY <1>1, <1>3, <1>4, ActiveFacts DEF SizeCountsActive, Active, Activate, TypeOK

LEMMA DeactivateKeeps ==
    ASSUME TypeOK, SizeCountsActive, NEW f \in Frames, isActive[f],
           isActive' = [isActive EXCEPT ![f] = FALSE], size' = size - 1
    PROVE  /\ isActive' \in [Frames -> BOOLEAN]
           /\ Active' = Active \ {f}
           /\ size' \in Nat /\ SizeCountsActive'
<1>1. isActive' \in [Frames -> BOOLEAN] /\ Active' = Active \ {f} /\ f \in Active
  BY DEF TypeOK, Active
<1>2. Cardinality(Active \ {f}) = Cardinality(Active) - 1
  BY <1>1, ActiveFacts, FS_RemoveElement
<1>3. IsFiniteSet(Active \ {f}) /\ Cardinality(Active \ {f}) \in Nat
  BY ActiveFacts, FS_Subset, FS_CardinalityType
<1>4. size' = Cardinality(Active')
  BY <1>1, <1>2 DEF SizeCountsActive, Active
<1> QED BY <1>1, <1>3, <1>4 DEF SizeCountsActive, Active

-----------------------------------------------------------------------------
(* The sweep *)

\* A sweep starts in its first round.
LEMMA SweepStarts ==
    ASSUME TypeOK, EvictBegin
    PROVE  FirstRound'
<1>1. /\ startHand' = clockHand' /\ refAtStart' = refBits'
      /\ startHand' \in Frames /\ clockHand' \in Frames
  BY DEF EvictBegin, TypeOK, state
<1>2. (clockHand' + Capacity - startHand') % Capacity = 0
  <2>1. startHand' \in Nat
    BY <1>1 DEF Frames
  <2> QED BY <1>1, <2>1, DistanceFacts
<1>3. \A f \in Frames : Distance(f)' \in Nat
  BY <1>1, DistanceFacts DEF Distance
<1> QED BY <1>1, <1>2, <1>3 DEF FirstRound, Distance

\* A frame the hand passes over, and the rounds it is in then.
LEMMA PassOverFits ==
    ASSUME TypeOK, SweepFits, PassOver, sweeping'
    PROVE  FirstRound' \/ SecondRound'
<1> DEFINE h == clockHand
<1>1. /\ h \in Frames /\ startHand \in Frames /\ clockHand' = NextHand
      /\ UNCHANGED <<isPinned, isActive, startHand, refAtStart>>
      /\ refBits \in [Frames -> BOOLEAN]
  BY DEF TypeOK, PassOver, Advance
<1>2. \A f \in Frames : refBits'[f] = IF f = h THEN refBits[f] /\ f \notin Candidates
                                              ELSE refBits[f]
  BY <1>1 DEF PassOver, ClearBit
<1>3. Candidates' = Candidates /\ Candidates \subseteq Frames
  BY <1>1 DEF Candidates
<1>4. \A f \in Frames : Distance(f)' = Distance(f) /\ Distance(f) \in Nat
  BY <1>1, DistanceFacts DEF Distance
<1>5. Distance(clockHand)' = Distance(NextHand)
  BY <1>1 DEF Distance
<1>6. h \in Candidates => refBits[h]
  BY DEF PassOver, AtVictim
<1>7. ~InVain
  BY DEF PassOver, InVain
<1>8. FirstRound \/ SecondRound
  BY DEF SweepFits, PassOver, Advance
<1>9. CASE SecondRound
  <2>1. h \notin Candidates
    BY <1>6, <1>9 DEF SecondRound
  <2>2. \A f \in Candidates : Distance(h) + 1 <= Distance(f)
    BY <1>1, <1>3, <1>4, <1>9, <2>1, AdvanceFacts DEF SecondRound
  <2>3. Candidates # {}
    BY <1>9 DEF SecondRound
  <2>4. NextHand # startHand
    BY <1>1, <1>3, <1>4, <2>2, <2>3, AdvanceFacts
  <2>5. Distance(NextHand) = Distance(h) + 1
    BY <1>1, <2>4, AdvanceFacts
  <2> QED BY <1>1, <1>2, <1>3, <1>4, <1>5, <1>9, <2>1, <2>2, <2>5 DEF SecondRound
<1>10. CASE FirstRound /\ NextHand # startHand
  <2>1. Distance(NextHand) = Distance(h) + 1
    BY <1>1, <1>10, AdvanceFacts
  <2>2. ASSUME NEW f \in Frames, Distance(f) < Distance(h) + 1, f \in Candidates
        PROVE  refAtStart[f] /\ ~refBits'[f]
    <3>1. CASE f = h
      BY <1>1, <1>2, <1>6, <1>10, <2>2, <3>1 DEF FirstRound
    <3>2. CASE f # h
      BY <1>1, <1>2, <1>4, <1>10, <2>2, <3>2, AdvanceFacts DEF FirstRound
    <3> QED BY <3>1, <3>2
  <2>3. ASSUME NEW f \in Frames, ~(Distance(f) < Distance(h) + 1)
        PROVE  refBits'[f] = refAtStart[f]
    BY <1>1, <1>2, <1>4, <1>10, <2>3 DEF FirstRound
  <2> QED BY <1>1, <1>3, <1>4, <1>5, <2>1, <2>2, <2>3 DEF FirstRound
<1>11. CASE FirstRound /\ NextHand = startHand
  <2>1. Candidates # {}
    BY <1>7, <1>11 DEF InVain
  <2>2. Distance(NextHand) = 0
    BY <1>1, <1>11, AdvanceFacts
  <2>3. ASSUME NEW f \in Candidates
        PROVE  refAtStart[f] /\ ~refBits'[f]
    <3>1. f \in Frames /\ Distance(f) <= Distance(h)
      BY <1>1, <1>3, <1>11, AdvanceFacts
    <3>2. CASE f = h
      BY <1>1, <1>2, <1>6, <1>11, <2>3, <3>1, <3>2 DEF FirstRound
    <3>3. CASE f # h
      <4>1. Distance(f) < Distance(h)
        BY <1>1, <1>4, <3>1, <3>3, AdvanceFacts
      <4> QED BY <1>2, <1>11, <2>3, <3>1, <3>3, <4>1 DEF FirstRound
    <3> QED BY <3>2, <3>3
  <2> QED BY <1>1, <1>3, <1>4, <1>5, <2>1, <2>2, <2>3 DEF SecondRound
<1> QED BY <1>8, <1>9, <1>10, <1>11

-----------------------------------------------------------------------------
(* Invariance *)

\* Outside a sweep there is nothing to say of it.
LEMMA CallsKeep ==
    ASSUME ClockInv, NEW f \in Frames,
           RecordAccess(f) \/ (\E pinned \in BOOLEAN : SetPin(f, pinned)) \/ Remove(f)
    PROVE  ClockInv'
<1> USE DEF ClockInv
<1>1. ~sweeping' /\ UNCHANGED <<clockHand, sweep, answer>>
  BY DEF RecordAccess, SetPin, Remove, sweep
<1>2. isActive' \in [Frames -> BOOLEAN] /\ size' \in Nat /\ SizeCountsActive'
  BY ActivateKeeps, DeactivateKeeps DEF RecordAccess, SetPin, Remove
<1>3. refBits' \in [Frames -> BOOLEAN] /\ isPinned' \in [Frames -> BOOLEAN]
  BY DEF TypeOK, RecordAccess, SetPin, Remove
<1> QED BY <1>1, <1>2, <1>3 DEF TypeOK, SweepFits, sweep

LEMMA EvictEntryKeeps ==
    ASSUME ClockInv, EvictEmpty \/ EvictBegin
    PROVE  ClockInv'
<1> USE DEF ClockInv
<1>1. UNCHANGED state
  BY DEF EvictEmpty, EvictBegin
<1>2. SizeCountsActive'
  BY <1>1 DEF SizeCountsActive, state
<1>3. TypeOK'
  BY <1>1 DEF TypeOK, state, sweep, EvictEmpty, EvictBegin
<1>4. SweepFits'
  BY SweepStarts DEF SweepFits, EvictEmpty, sweep
<1> QED BY <1>2, <1>3, <1>4

LEMMA EvictFrameKeeps ==
    ASSUME ClockInv, EvictFrame
    PROVE  ClockInv'
<1> USE DEF ClockInv
<1>1. clockHand \in Frames /\ isActive[clockHand]
  BY DEF EvictFrame, AtVictim, Candidates
<1>2. isActive' \in [Frames -> BOOLEAN] /\ size' \in Nat /\ SizeCountsActive'
  BY <1>1, DeactivateKeeps DEF EvictFrame
<1>3. clockHand' \in Frames
  BY <1>1, HandFacts DEF EvictFrame, Advance, NextHand
<1>4. TypeOK'
  BY <1>1, <1>2, <1>3 DEF TypeOK, EvictFrame, Advance
<1> QED BY <1>2, <1>4 DEF SweepFits, EvictFrame

LEMMA PassOverKeeps ==
    ASSUME ClockInv, PassOver
    PROVE  ClockInv'
<1> USE DEF ClockInv
<1>1. clockHand' \in Frames
  BY HandFacts DEF TypeOK, PassOver, Advance, NextHand
<1>2. refBits' \in [Frames -> BOOLEAN]
  BY DEF TypeOK, PassOver, ClearBit
<1>3. sweeping' \in BOOLEAN /\ answer' \in Frames \cup {None}
  BY DEF TypeOK, PassOver
<1>4. TypeOK'
  BY <1>1, <1>2, <1>3 DEF TypeOK, PassOver, Advance
<1>5. SizeCountsActive'
  BY DEF SizeCountsActive, PassOver
<1> QED BY <1>4, <1>5, PassOverFits DEF SweepFits

\* The inductive invariant of the clock holds of every behaviour.
THEOREM ClockInvariance == Spec => []ClockInv
<1>1. Init => ClockInv
  <2> SUFFICES ASSUME Init
               PROVE  ClockInv
    OBVIOUS
  <2>1. 0 \in Frames /\ size \in Nat
    BY CapacityAssumption DEF Init, Frames
  <2>2. TypeOK
    BY <2>1 DEF Init, TypeOK
  <2>3. {f \in Frames : isActive[f]} = {}
    BY DEF Init
  <2>4. SizeCountsActive
    BY <2>3, FS_EmptySet DEF Init, SizeCountsActive
  <2> QED BY <2>2, <2>4 DEF ClockInv, Init, SweepFits
<1>2. ClockInv /\ [Next]_vars => ClockInv'
  <2> SUFFICES ASSUME ClockInv, [Next]_vars
               PROVE  ClockInv'
    OBVIOUS
  <2>1. CASE UNCHANGED vars
    BY <2>1 DEF ClockInv, TypeOK, SizeCountsActive, SweepFits, FirstRound, SecondRound,
                Candidates, Distance, vars, state, sweep
  <2>2. CASE Next
    BY <2>2, CallsKeep, EvictEntryKeeps, EvictFrameKeeps, PassOverKeeps DEF Next, HandStep
  <2> QED BY <2>1, <2>2
<1> QED BY <1>1, <1>2, PTL DEF Spec

\* The variables of the clock keep their types: size never falls below zero.
THEOREM ClockTypes == Spec => []TypeOK
BY ClockInvariance, PTL DEF ClockInv

\* size, kept beside is_active in four places, is the number of active frames.
THEOREM SizeIsExact == Spec => []SizeCountsActive
BY ClockInvariance, PTL DEF ClockInv

-----------------------------------------------------------------------------
\* A sweep ends at the first candidate in clock order whose bit was not set, and at
\* the first candidate if all bits were.
THEOREM VictimsInClockOrder == Spec => EvictsInClockOrder
<1> DEFINE Order == EvictFrame =>
                        /\ answer' \in ClockVictims
                        /\ \A f \in ClockVictims : Distance(answer') <= Distance(f)
<1>1. ClockInv /\ [Next]_vars => [Order]_vars
  <2> SUFFICES ASSUME ClockInv, EvictFrame
               PROVE  /\ answer' \in ClockVictims
                      /\ \A f \in ClockVictims : Distance(answer') <= Distance(f)
    OBVIOUS
  <2>1. /\ answer' = clockHand /\ clockHand \in Frames /\ startHand \in Frames
        /\ clockHand \in Candidates /\ ~refBits[clockHand]
    BY DEF EvictFrame, AtVictim, ClockInv, TypeOK
  <2>2. \A f \in Frames : Distance(f) \in Nat
    BY <2>1, DistanceFacts DEF Distance
  <2>3. Candidates \subseteq Frames
    BY DEF Candidates
  <2>4. CASE FirstRound
    <3>1. clockHand \in Unreferenced
      BY <2>1, <2>2, <2>4 DEF FirstRound, Unreferenced
    <3>2. \A f \in Unreferenced : ~(Distance(f) < Distance(clockHand))
      BY <2>3, <2>4 DEF FirstRound, Unreferenced
    <3> QED BY <2>1, <2>2, <2>3, <3>1, <3>2 DEF ClockVictims, Unreferenced
  <2>5. CASE SecondRound
    <3>1. Unreferenced = {}
      BY <2>5 DEF SecondRound, Unreferenced
    <3> QED BY <2>1, <2>5, <3>1 DEF SecondRound, ClockVictims
  <2> QED BY <2>4, <2>5 DEF ClockInv, SweepFits, EvictFrame, Advance
<1> QED BY <1>1, ClockInvariance, PTL DEF Spec, EvictsInClockOrder

\* The clock meets the contract on which the pool relies: evict takes a frame that is
\* tracked and not pinned, and answers None only if there is none.
THEOREM ClockIsAPolicy == Spec => ImplementsPolicy
<1>1. Init => Policy!Init
  BY DEF Init, Policy!Init
<1>2. ClockInv /\ [Next]_vars => [Policy!Next]_(Policy!policyVars)
  <2> SUFFICES ASSUME ClockInv, [Next]_vars
               PROVE  Policy!Next \/ UNCHANGED <<isActive, isPinned, answer>>
    BY DEF Policy!policyVars
  <2> USE DEF ClockInv
  <2>1. ASSUME NEW f \in Frames, RecordAccess(f)
        PROVE  Policy!RecordAccess(f)
    BY <2>1 DEF TypeOK, RecordAccess, Activate, Policy!RecordAccess
  <2>2. ASSUME NEW f \in Frames, NEW pinned \in BOOLEAN, SetPin(f, pinned)
        PROVE  Policy!SetPin(f, pinned)
    BY <2>2 DEF TypeOK, SetPin, Activate, Policy!SetPin
  <2>3. ASSUME NEW f \in Frames, Remove(f)
        PROVE  Policy!Remove(f)
    BY <2>3 DEF TypeOK, Remove, Policy!Remove
  <2>4. CASE EvictEmpty
    <3>1. Cardinality(Active) = 0
      BY <2>4 DEF EvictEmpty, SizeCountsActive, Active
    <3>2. Active = {}
      BY <3>1, ActiveFacts, FS_EmptySet
    <3>3. answer' = None /\ UNCHANGED <<isActive, isPinned>>
      BY <2>4 DEF EvictEmpty, state
    <3> QED BY <3>2, <3>3 DEF Active, Policy!Evict, Policy!Next
  <2>5. CASE EvictBegin
    BY <2>5 DEF EvictBegin, state
  <2>6. CASE EvictFrame
    <3>1. /\ clockHand \in Frames /\ isActive[clockHand] /\ ~isPinned[clockHand]
          /\ answer' = clockHand /\ isPinned' = isPinned
          /\ isActive' = [isActive EXCEPT ![clockHand] = FALSE]
      BY <2>6 DEF EvictFrame, Advance, AtVictim, Candidates
    <3>2. Active' = Active \ {clockHand}
      BY <3>1 DEF TypeOK, Active
    <3> QED BY <3>1, <3>2 DEF Active, Policy!Evict, Policy!Next
  <2>7. CASE PassOver
    <3>1. UNCHANGED <<isActive, isPinned>>
      BY <2>7 DEF PassOver, Advance
    <3>2. CASE InVain
      <4>1. answer' = None /\ Candidates = {}
        BY <2>7, <3>2 DEF PassOver, InVain
      <4> QED BY <3>1, <4>1 DEF Candidates, Policy!Evict, Policy!Next
    <3>3. CASE ~InVain
      BY <2>7, <3>1, <3>3 DEF PassOver
    <3> QED BY <3>2, <3>3
  <2> QED BY <2>1, <2>2, <2>3, <2>4, <2>5, <2>6, <2>7
             DEF Next, HandStep, Policy!Next, vars, state
<1> QED BY <1>1, <1>2, ClockInvariance, PTL DEF Spec, ImplementsPolicy, Policy!Spec

-----------------------------------------------------------------------------
(* LRUReplacer *)

\* No frame is queued twice, and each was accessed after those before it.
QueueIsInOrder ==
    \A i, j \in DOMAIN accessQueue : i < j =>
        /\ accessQueue[i] # accessQueue[j]
        /\ accessQueue[j] \in usedSince[accessQueue[i]]

LRUInv == LRU!TypeOK /\ QueueIsInOrder

-----------------------------------------------------------------------------
(* Removal from the queue *)

\* Every set of numbers has a least one.
Below == {p \in Nat \X Nat : p[1] < p[2]}

LEMMA LeastNumber ==
    ASSUME NEW T \in SUBSET Nat, T # {}
    PROVE  \E x \in T : \A y \in T : x <= y
<1>1. IsWellFoundedOn(Below, Nat)
  BY NatLessThanWellFounded DEF OpToRel, Below
<1>2. PICK x \in T : \A y \in T : <<y, x>> \notin Below
  BY <1>1, WFMin
<1>3. \A y \in T : ~(y < x)
  BY <1>2 DEF Below
<1> QED BY <1>2, <1>3

LEMMA RemoveAtFacts ==
    ASSUME NEW q \in Seq(LRU!Frames), NEW i \in 1 .. Len(q)
    PROVE  /\ LRU!RemoveAt(q, i) \in Seq(LRU!Frames)
           /\ Len(LRU!RemoveAt(q, i)) = Len(q) - 1
           /\ \A k \in 1 .. Len(q) - 1 :
                  LRU!RemoveAt(q, i)[k] = IF k < i THEN q[k] ELSE q[k + 1]
<1> DEFINE front == SubSeq(q, 1, i - 1)
           back == SubSeq(q, i + 1, Len(q))
<1>1. Len(q) \in Nat /\ \A k \in 1 .. Len(q) : q[k] \in LRU!Frames
  BY LenProperties, ElementOfSeq
<1>2. /\ front \in Seq(LRU!Frames) /\ Len(front) = i - 1
      /\ \A k \in 1 .. i - 1 : front[k] = q[k]
  <2>1. \A k \in 1 .. i - 1 : q[k] \in LRU!Frames
    BY <1>1
  <2> QED BY <1>1, <2>1, SubSeqProperties
<1>3. /\ back \in Seq(LRU!Frames) /\ Len(back) = Len(q) - i
      /\ \A k \in 1 .. Len(q) - i : back[k] = q[i + k]
  <2>1. \A k \in i + 1 .. Len(q) : q[k] \in LRU!Frames
    BY <1>1
  <2> QED BY <1>1, <2>1, SubSeqProperties
<1> HIDE DEF front, back
<1>4. /\ front \o back \in Seq(LRU!Frames)
      /\ Len(front \o back) = Len(front) + Len(back)
      /\ \A k \in 1 .. Len(front) + Len(back) : (front \o back)[k] =
             IF k <= Len(front) THEN front[k] ELSE back[k - Len(front)]
  BY <1>2, <1>3, ConcatProperties
<1>5. Len(front) + Len(back) = Len(q) - 1
  BY <1>1, <1>2, <1>3
<1>6. ASSUME NEW k \in 1 .. Len(q) - 1
      PROVE  (front \o back)[k] = IF k < i THEN q[k] ELSE q[k + 1]
  <2>1. CASE k < i
    BY <1>1, <1>2, <1>4, <1>5, <2>1
  <2>2. CASE i <= k
    <3> DEFINE j == k - (i - 1)
    <3>1. j \in 1 .. Len(q) - i /\ i + j = k + 1 /\ j = k - Len(front)
      BY <1>1, <1>2, <2>2
    <3>2. ~(k <= Len(front)) /\ k \in 1 .. Len(front) + Len(back)
      BY <1>1, <1>2, <1>5, <2>2
    <3> HIDE DEF j
    <3>3. (front \o back)[k] = back[j]
      BY <1>4, <3>1, <3>2
    <3>4. back[j] = q[k + 1]
      BY <1>3, <3>1
    <3>5. ~(k < i)
      BY <1>1, <2>2
    <3> QED BY <3>3, <3>4, <3>5
  <2>3. k < i \/ i <= k
    BY <1>1
  <2> QED BY <2>1, <2>2, <2>3
<1>7. LRU!RemoveAt(q, i) = front \o back
  BY DEF LRU!RemoveAt, front, back
<1> QED BY <1>4, <1>5, <1>6, <1>7

\* remove takes the frame out wherever it is.
LEMMA RemoveFirstFacts ==
    ASSUME NEW q \in Seq(LRU!Frames), NEW f
    PROVE  \/ f \notin LRU!ToSet(q) /\ LRU!RemoveFirst(q, f) = q
           \/ \E i \in 1 .. Len(q) : q[i] = f /\ LRU!RemoveFirst(q, f) = LRU!RemoveAt(q, i)
<1> DEFINE at == {i \in 1 .. Len(q) : q[i] = f}
<1>1. Len(q) \in Nat /\ DOMAIN q = 1 .. Len(q)
  BY LenProperties
<1>2. CASE at = {}
  BY <1>1, <1>2 DEF LRU!RemoveFirst, LRU!ToSet
<1>3. CASE at # {}
  <2>1. LRU!Min(at) \in at
    <3>1. at \in SUBSET Nat
      BY <1>1
    <3> QED BY <1>3, <3>1, LeastNumber DEF LRU!Min
  <2>2. LRU!RemoveFirst(q, f) = LRU!RemoveAt(q, LRU!Min(at))
    BY <1>3 DEF LRU!RemoveFirst, LRU!SelectInSeq
  <2> QED BY <2>1, <2>2
<1> QED BY <1>2, <1>3

-----------------------------------------------------------------------------
(* The queue *)

\* Ordered, used and unused: what QueueIsInOrder says of any queue.
InOrder(q, used) ==
    \A i, j \in DOMAIN q : i < j => q[i] # q[j] /\ q[j] \in used[q[i]]

LEMMA ShorterIsInOrder ==
    ASSUME NEW q \in Seq(LRU!Frames), NEW used, InOrder(q, used), NEW i \in 1 .. Len(q)
    PROVE  /\ LRU!RemoveAt(q, i) \in Seq(LRU!Frames)
           /\ InOrder(LRU!RemoveAt(q, i), used)
           /\ LRU!ToSet(LRU!RemoveAt(q, i)) = LRU!ToSet(q) \ {q[i]}
<1> DEFINE r == LRU!RemoveAt(q, i)
           from(k) == IF k < i THEN k ELSE k + 1
<1>1. Len(q) \in Nat /\ DOMAIN q = 1 .. Len(q)
  BY LenProperties
<1>2. r \in Seq(LRU!Frames) /\ Len(r) = Len(q) - 1 /\ DOMAIN r = 1 .. Len(q) - 1
  BY RemoveAtFacts, LenProperties
<1>3. \A k \in DOMAIN r : from(k) \in DOMAIN q \ {i} /\ r[k] = q[from(k)]
  <2> SUFFICES ASSUME NEW k \in DOMAIN r
               PROVE  from(k) \in DOMAIN q \ {i} /\ r[k] = q[from(k)]
    OBVIOUS
  <2>1. k \in 1 .. Len(q) - 1
    BY <1>2
  <2>2. from(k) \in DOMAIN q \ {i}
    BY <1>1, <2>1
  <2>3. r[k] = IF k < i THEN q[k] ELSE q[k + 1]
    BY <2>1, RemoveAtFacts
  <2> QED BY <2>2, <2>3
<1>4. \A k, l \in DOMAIN r : k < l => from(k) < from(l)
  BY <1>1, <1>2
<1>5. \A k \in DOMAIN q \ {i} : \E l \in DOMAIN r : k = from(l)
  <2> SUFFICES ASSUME NEW k \in DOMAIN q \ {i}
               PROVE  \E l \in DOMAIN r : k = from(l)
    OBVIOUS
  <2>1. CASE k < i
    BY <1>1, <1>2, <2>1
  <2>2. CASE i < k
    <3>1. k - 1 \in DOMAIN r /\ k = from(k - 1)
      BY <1>1, <1>2, <2>2
    <3> QED BY <3>1
  <2> QED BY <1>1, <2>1, <2>2
<1> HIDE DEF r, from
<1>6. InOrder(r, used)
  BY <1>3, <1>4 DEF InOrder
<1>7. \A k \in DOMAIN q \ {i} : q[k] # q[i]
  BY <1>1 DEF InOrder
<1>8. LRU!ToSet(r) = LRU!ToSet(q) \ {q[i]}
  BY <1>1, <1>3, <1>5, <1>7 DEF LRU!ToSet
<1> QED BY <1>2, <1>6, <1>8 DEF r

LEMMA WithoutFacts ==
    ASSUME NEW q \in Seq(LRU!Frames), NEW used, InOrder(q, used), NEW f
    PROVE  /\ LRU!RemoveFirst(q, f) \in Seq(LRU!Frames)
           /\ InOrder(LRU!RemoveFirst(q, f), used)
           /\ LRU!ToSet(LRU!RemoveFirst(q, f)) = LRU!ToSet(q) \ {f}
BY RemoveFirstFacts, ShorterIsInOrder

LEMMA MovedToBackFacts ==
    ASSUME LRUInv, NEW f \in LRU!Frames, LRU!RecordAccess(f)
    PROVE  /\ accessQueue' \in Seq(LRU!Frames)
           /\ QueueIsInOrder'
           /\ LRU!Tracked' = LRU!Tracked \cup {f}
<1> DEFINE q == LRU!RemoveFirst(accessQueue, f)
<1>1. accessQueue \in Seq(LRU!Frames) /\ InOrder(accessQueue, usedSince)
  BY DEF LRUInv, LRU!TypeOK, QueueIsInOrder, InOrder
<1>2. /\ q \in Seq(LRU!Frames) /\ InOrder(q, usedSince)
      /\ LRU!ToSet(q) = LRU!ToSet(accessQueue) \ {f}
  BY <1>1, WithoutFacts
<1>3. Len(q) \in Nat /\ DOMAIN q = 1 .. Len(q)
  BY <1>2, LenProperties
<1>4. accessQueue' = Append(q, f)
  BY DEF LRU!RecordAccess, LRU!MovedToBack
<1> HIDE DEF q
<1>5. /\ accessQueue' \in Seq(LRU!Frames) /\ DOMAIN accessQueue' = 1 .. Len(q) + 1
      /\ \A i \in 1 .. Len(q) : accessQueue'[i] = q[i]
      /\ accessQueue'[Len(q) + 1] = f
  BY <1>2, <1>4, AppendProperties, LenProperties
<1>6. \A i \in 1 .. Len(q) : q[i] # f /\ q[i] \in LRU!Frames
  BY <1>2, <1>3, ElementOfSeq DEF LRU!ToSet
<1>7. \A g \in LRU!Frames : g # f => usedSince'[g] = usedSince[g] \cup {f}
  BY DEF LRU!RecordAccess
<1>8. QueueIsInOrder'
  <2> SUFFICES ASSUME NEW i \in 1 .. Len(q) + 1, NEW j \in 1 .. Len(q) + 1, i < j
               PROVE  /\ accessQueue'[i] # accessQueue'[j]
                      /\ accessQueue'[j] \in usedSince'[accessQueue'[i]]
    BY <1>5 DEF QueueIsInOrder
  <2>1. i \in 1 .. Len(q) /\ accessQueue'[i] = q[i] /\ q[i] # f /\ q[i] \in LRU!Frames
    BY <1>3, <1>5, <1>6
  <2>2. CASE j = Len(q) + 1
    BY <1>5, <1>7, <2>1, <2>2
  <2>3. CASE j # Len(q) + 1
    <3>1. j \in 1 .. Len(q) /\ accessQueue'[j] = q[j]
      BY <1>3, <1>5, <2>3
    <3> QED BY <1>2, <1>3, <1>7, <2>1, <3>1 DEF InOrder
  <2> QED BY <2>2, <2>3
<1>9. LRU!ToSet(accessQueue') = LRU!ToSet(q) \cup {f}
  <2>1. \A x \in LRU!ToSet(accessQueue') : x \in LRU!ToSet(q) \cup {f}
    BY <1>3, <1>5 DEF LRU!ToSet
  <2>2. \A x \in LRU!ToSet(q) : x \in LRU!ToSet(accessQueue')
    BY <1>3, <1>5 DEF LRU!ToSet
  <2>3. f \in LRU!ToSet(accessQueue')
    BY <1>3, <1>5 DEF LRU!ToSet
  <2> QED BY <2>1, <2>2, <2>3
<1> QED BY <1>2, <1>5, <1>8, <1>9 DEF LRU!Tracked

-----------------------------------------------------------------------------
(* Invariance *)

\* The queue stays in the order of the last accesses.
THEOREM LRUInvariance == LRU!Spec => []LRUInv
<1>1. LRU!Init => LRUInv
  BY EmptySeq DEF LRU!Init, LRUInv, LRU!TypeOK, QueueIsInOrder
<1>2. LRUInv /\ [LRU!Next]_(LRU!vars) => LRUInv'
  <2> SUFFICES ASSUME LRUInv, [LRU!Next]_(LRU!vars)
               PROVE  LRUInv'
    OBVIOUS
  <2> USE DEF LRUInv
  <2>1. accessQueue \in Seq(LRU!Frames) /\ InOrder(accessQueue, usedSince)
    BY DEF LRU!TypeOK, QueueIsInOrder, InOrder
  <2>2. ASSUME NEW f \in LRU!Frames, LRU!RecordAccess(f)
        PROVE  LRUInv'
    <3>1. usedSince' \in [LRU!Frames -> SUBSET LRU!Frames]
      BY <2>2 DEF LRU!TypeOK, LRU!RecordAccess
    <3> QED BY <2>2, <3>1, MovedToBackFacts DEF LRU!TypeOK, LRU!RecordAccess
  <2>3. ASSUME NEW f \in LRU!Frames, NEW pinned \in BOOLEAN, LRU!SetPin(f, pinned)
        PROVE  LRUInv'
    BY <2>3 DEF LRU!TypeOK, QueueIsInOrder, LRU!SetPin
  <2>4. ASSUME NEW f \in LRU!Frames, LRU!Release(f)
        PROVE  LRUInv'
    <3>1. accessQueue' \in Seq(LRU!Frames) /\ InOrder(accessQueue', usedSince')
      BY <2>1, <2>4, WithoutFacts DEF LRU!Release
    <3> QED BY <2>4, <3>1 DEF LRU!TypeOK, QueueIsInOrder, InOrder, LRU!Release
  <2>5. ASSUME NEW i \in DOMAIN accessQueue, LRU!EvictFrame(i)
        PROVE  LRUInv'
    <3>1. i \in 1 .. Len(accessQueue) /\ accessQueue[i] \in LRU!Frames
      BY <2>1, LenProperties, ElementOfSeq
    <3>2. accessQueue' \in Seq(LRU!Frames) /\ InOrder(accessQueue', usedSince')
      BY <2>1, <2>5, <3>1, ShorterIsInOrder DEF LRU!EvictFrame
    <3> QED BY <2>5, <3>1, <3>2 DEF LRU!TypeOK, QueueIsInOrder, InOrder, LRU!EvictFrame
  <2>6. CASE LRU!EvictNone
    BY <2>6 DEF LRU!TypeOK, QueueIsInOrder, LRU!EvictNone
  <2>7. CASE UNCHANGED LRU!vars
    BY <2>7 DEF LRU!TypeOK, QueueIsInOrder, LRU!vars
  <2> QED BY <2>2, <2>3, <2>4, <2>5, <2>6, <2>7 DEF LRU!Next
<1> QED BY <1>1, <1>2, PTL DEF LRU!Spec

\* The variables of the LRU policy keep their types.
THEOREM LRUTypes == LRU!Spec => []LRU!TypeOK
BY LRUInvariance, PTL DEF LRUInv

\* evict takes the least recently used candidate.
THEOREM VictimsAreLeastRecentlyUsed == LRU!Spec => LRUEvictsLeastRecentlyUsed
<1> DEFINE Least == \A i \in DOMAIN accessQueue :
                        LRU!EvictFrame(i) => LRU!Candidates \ {accessQueue[i]}
                                             \subseteq usedSince[accessQueue[i]]
<1>1. LRUInv /\ [LRU!Next]_(LRU!vars) => [Least]_(LRU!vars)
  <2> SUFFICES ASSUME LRUInv, NEW i \in DOMAIN accessQueue, LRU!EvictFrame(i),
                      NEW f \in LRU!Candidates \ {accessQueue[i]}
               PROVE  f \in usedSince[accessQueue[i]]
    OBVIOUS
  <2>1. DOMAIN accessQueue = 1 .. Len(accessQueue) /\ Len(accessQueue) \in Nat
    BY LenProperties DEF LRUInv, LRU!TypeOK
  <2>2. PICK j \in DOMAIN accessQueue : accessQueue[j] = f /\ ~lruPinned[accessQueue[j]]
    BY DEF LRU!Candidates, LRU!Tracked, LRU!ToSet
  <2>3. i < j
    BY <2>1, <2>2 DEF LRU!EvictFrame, LRU!IsFirstUnpinned
  <2> QED BY <2>2, <2>3 DEF LRUInv, QueueIsInOrder
<1> QED BY <1>1, LRUInvariance, PTL DEF LRU!Spec, LRUEvictsLeastRecentlyUsed,
                                              LRU!EvictsLeastRecentlyUsed

\* LRU meets the contract on which the pool relies, as the clock does.
THEOREM LRUIsAPolicy == LRU!Spec => LRUImplementsPolicy
<1>1. LRU!Init => LRU!Policy!Init
  BY DEF LRU!Init, LRU!Policy!Init, LRU!Tracked, LRU!ToSet
<1>2. LRUInv /\ [LRU!Next]_(LRU!vars) => [LRU!Policy!Next]_(LRU!Policy!policyVars)
  <2> SUFFICES ASSUME LRUInv, [LRU!Next]_(LRU!vars)
               PROVE  LRU!Policy!Next \/ UNCHANGED <<accessQueue, lruPinned, lruAnswer>>
    BY DEF LRU!Policy!policyVars, LRU!Tracked
  <2> USE DEF LRUInv
  <2>1. /\ accessQueue \in Seq(LRU!Frames) /\ InOrder(accessQueue, usedSince)
        /\ DOMAIN accessQueue = 1 .. Len(accessQueue)
        /\ \A i \in DOMAIN accessQueue : accessQueue[i] \in LRU!Frames
    BY LenProperties, ElementOfSeq DEF LRU!TypeOK, QueueIsInOrder, InOrder
  <2>2. ASSUME NEW f \in LRU!Frames, LRU!RecordAccess(f)
        PROVE  LRU!Policy!RecordAccess(f)
    BY <2>2, MovedToBackFacts DEF LRU!RecordAccess, LRU!Policy!RecordAccess
  <2>3. ASSUME NEW f \in LRU!Frames, NEW pinned \in BOOLEAN, LRU!SetPin(f, pinned)
        PROVE  LRU!Policy!SetPin(f, pinned)
    BY <2>3 DEF LRU!TypeOK, LRU!SetPin, LRU!Tracked, LRU!Policy!SetPin
  <2>4. ASSUME NEW f \in LRU!Frames, LRU!Release(f)
        PROVE  LRU!Policy!Remove(f)
    <3>1. LRU!Tracked' = LRU!Tracked \ {f}
      BY <2>1, <2>4, WithoutFacts DEF LRU!Release, LRU!Tracked
    <3> QED BY <2>4, <3>1 DEF LRU!Release, LRU!Policy!Remove
  <2>5. ASSUME NEW i \in DOMAIN accessQueue, LRU!EvictFrame(i)
        PROVE  LRU!Policy!Evict
    <3>1. LRU!Tracked' = LRU!Tracked \ {accessQueue[i]}
      BY <2>1, <2>5, ShorterIsInOrder DEF LRU!EvictFrame, LRU!Tracked
    <3>2. accessQueue[i] \in LRU!Tracked /\ ~lruPinned[accessQueue[i]]
      BY <2>5 DEF LRU!EvictFrame, LRU!IsFirstUnpinned, LRU!Tracked, LRU!ToSet
    <3> QED BY <2>5, <3>1, <3>2 DEF LRU!EvictFrame, LRU!Policy!Evict
  <2>6. CASE LRU!EvictNone
    <3>1. LRU!Tracked \subseteq {f \in LRU!Frames : lruPinned[f]}
      BY <2>1, <2>6 DEF LRU!EvictNone, LRU!Tracked, LRU!ToSet
    <3>2. lruAnswer' = None /\ UNCHANGED <<accessQueue, lruPinned>>
      BY <2>6 DEF LRU!EvictNone
    <3> QED BY <3>1, <3>2 DEF LRU!Tracked, LRU!Policy!Next, LRU!Policy!Evict
  <2>7. CASE UNCHANGED LRU!vars
    BY <2>7 DEF LRU!vars
  <2> QED BY <2>2, <2>3, <2>4, <2>5, <2>6, <2>7 DEF LRU!Next, LRU!Policy!Next
<1> QED BY <1>1, <1>2, LRUInvariance, PTL
       DEF LRU!Spec, LRUImplementsPolicy, LRU!ImplementsPolicy, LRU!Policy!Spec

-----------------------------------------------------------------------------
(* DiskManager *)

\* The k-th block of a page, and what is read there.
Place(p, k) == p * PAGE_SIZE + k
At(content, i) == IF i <= Len(content) THEN content[i] ELSE Zero

\* The file ends inside the page total_pages at the latest.
FileEnds ==
    /\ Len(file) <= MaxPages * PAGE_SIZE
    /\ Len(file) < (totalPages + 1) * PAGE_SIZE

\* The page that is written was handed out, nobody counts on it, and the blocks that
\* are done hold the datum.
WriterFits ==
    writing # Disk!Nothing =>
        /\ writing.page < totalPages /\ writing.page \in unsure
        /\ \A k \in 1 .. writing.done : At(file, Place(writing.page, k)) = writing.datum

\* A page that counts as written is on disk.
SureIsSynced ==
    \A p \in Disk!PageNums \ unsure : \A k \in 1 .. PAGE_SIZE :
        At(file, Place(p, k)) = At(synced, Place(p, k))

DiskInv == Disk!TypeOK /\ FileEnds /\ WriterFits /\ SureIsSynced

-----------------------------------------------------------------------------
(* Blocks of pages *)

LEMMA Products ==
    ASSUME NEW a \in Nat, NEW b \in Nat, NEW d \in Nat, a < b
    PROVE  a * d + d <= b * d
<1>1. (b - a - 1) \in Nat
  OBVIOUS
<1>2. (b - a - 1) * d >= 0
  BY <1>1
<1>3. (b - a - 1) * d = b * d - a * d - d
  OBVIOUS
<1> QED BY <1>2, <1>3

LEMMA Quotients ==
    ASSUME NEW n \in Nat, NEW d \in Nat \ {0}
    PROVE  /\ n \div d \in Nat
           /\ (n \div d) * d <= n
           /\ n < (n \div d + 1) * d
OBVIOUS

LEMMA PlaceFacts ==
    ASSUME NEW p \in Nat, NEW k \in 1 .. PAGE_SIZE
    PROVE  /\ Place(p, k) \in Nat \ {0}
           /\ \A n \in Nat : p < n => Place(p, k) <= n * PAGE_SIZE
           /\ \A q \in Nat : \A m \in 1 .. PAGE_SIZE :
                  Place(p, k) = Place(q, m) => p = q /\ k = m
<1>1. PAGE_SIZE \in Nat /\ p * PAGE_SIZE \in Nat
  BY PagesAssumption
<1>2. \A n \in Nat : p < n => Place(p, k) <= n * PAGE_SIZE
  <2> SUFFICES ASSUME NEW n \in Nat, p < n
               PROVE  Place(p, k) <= n * PAGE_SIZE
    OBVIOUS
  <2>1. p * PAGE_SIZE + PAGE_SIZE <= n * PAGE_SIZE /\ n * PAGE_SIZE \in Nat
    BY <1>1, Products
  <2> QED BY <1>1, <2>1 DEF Place
<1>3. ASSUME NEW q \in Nat, NEW m \in 1 .. PAGE_SIZE, Place(p, k) = Place(q, m)
      PROVE  p = q /\ k = m
  <2>1. q * PAGE_SIZE \in Nat
    BY <1>1
  <2>2. ~(p < q)
    <3> SUFFICES ASSUME p < q
                 PROVE  FALSE
      OBVIOUS
    <3>1. p * PAGE_SIZE + PAGE_SIZE <= q * PAGE_SIZE
      BY <1>1, Products
    <3> QED BY <1>1, <1>3, <2>1, <3>1 DEF Place
  <2>3. ~(q < p)
    <3> SUFFICES ASSUME q < p
                 PROVE  FALSE
      OBVIOUS
    <3>1. q * PAGE_SIZE + PAGE_SIZE <= p * PAGE_SIZE
      BY <1>1, Products
    <3> QED BY <1>1, <1>3, <2>1, <3>1 DEF Place
  <2>4. p = q
    BY <2>2, <2>3
  <2> QED BY <1>1, <1>3, <2>4 DEF Place
<1> QED BY <1>1, <1>2, <1>3 DEF Place

LEMMA PlacesDiffer ==
    ASSUME NEW p \in Nat, NEW k \in 1 .. PAGE_SIZE, NEW q \in Nat, NEW m \in 1 .. PAGE_SIZE,
           p # q \/ k # m
    PROVE  Place(p, k) \in Nat \ {0, Place(q, m)}
<1>1. Place(p, k) \in Nat \ {0} /\ Place(p, k) # Place(q, m)
  BY PlaceFacts
<1> QED BY <1>1

LEMMA FunctionIsSequence ==
    ASSUME NEW S, NEW n \in Nat, NEW f \in [1 .. n -> S]
    PROVE  f \in Seq(S) /\ Len(f) = n
OBVIOUS

\* Writing a block changes what is read there and nowhere else.
LEMMA PutFacts ==
    ASSUME NEW content \in Seq(Disk!Blocks), NEW i \in Nat \ {0}, NEW d \in Data
    PROVE  /\ Disk!Put(content, i, d) \in Seq(Disk!Blocks)
           /\ Len(Disk!Put(content, i, d)) = IF i > Len(content) THEN i ELSE Len(content)
           /\ At(Disk!Put(content, i, d), i) = d
           /\ \A j \in Nat \ {0, i} : At(Disk!Put(content, i, d), j) = At(content, j)
<1> DEFINE n == IF i > Len(content) THEN i ELSE Len(content)
<1>1. n \in Nat /\ i \in 1 .. n /\ Len(content) \in Nat /\ Len(content) <= n
  OBVIOUS
<1>2. \A j \in 1 .. Len(content) : content[j] \in Disk!Blocks
  OBVIOUS
<1> HIDE DEF n
<1>3. Disk!Put(content, i, d)
          = [j \in 1 .. n |-> IF j = i THEN d
                              ELSE IF j <= Len(content) THEN content[j] ELSE Zero]
  BY DEF Disk!Put, n
<1>4. Disk!Put(content, i, d) \in [1 .. n -> Disk!Blocks]
  BY <1>1, <1>2, <1>3 DEF Disk!Blocks
<1>5. Disk!Put(content, i, d) \in Seq(Disk!Blocks) /\ Len(Disk!Put(content, i, d)) = n
  BY <1>1, <1>4, FunctionIsSequence
<1>6. At(Disk!Put(content, i, d), i) = d
  BY <1>1, <1>3, <1>5 DEF At
<1>7. \A j \in Nat \ {0, i} : At(Disk!Put(content, i, d), j) = At(content, j)
  BY <1>1, <1>3, <1>5 DEF At
<1> QED BY <1>5, <1>6, <1>7 DEF n

LEMMA PageInFacts ==
    ASSUME NEW p \in Disk!PageNums
    PROVE  Disk!PageIn(p) = [k \in 1 .. PAGE_SIZE |-> At(file, Place(p, k))]
BY DEF Disk!PageIn, At, Place

-----------------------------------------------------------------------------
LEMMA DiskFacts ==
    ASSUME Disk!TypeOK
    PROVE  /\ PAGE_SIZE \in Nat \ {0} /\ MaxPages \in Nat
           /\ Disk!PageNums \subseteq Nat /\ \A p \in Disk!PageNums : p < MaxPages
           /\ Len(file) \in Nat /\ Len(synced) \in Nat /\ totalPages \in Nat
           /\ \A i \in Nat \ {0} : At(file, i) \in Disk!Blocks
           /\ writing # Disk!Nothing =>
                  writing \in [page : Disk!PageNums, datum : Data, done : 0 .. PAGE_SIZE]
BY PagesAssumption DEF Disk!TypeOK, Disk!PageNums, At, Disk!Blocks

LEMMA WriteBlockFacts ==
    ASSUME Disk!TypeOK, Disk!WriteBlock
    PROVE  /\ writing.page \in Disk!PageNums /\ writing.datum \in Data
           /\ writing.done \in Nat /\ writing.done + 1 \in 1 .. PAGE_SIZE
           /\ writing'.page = writing.page /\ writing'.datum = writing.datum
           /\ writing'.done = writing.done + 1
           /\ file' = Disk!Put(file, Place(writing.page, writing.done + 1), writing.datum)
           /\ writing' \in [page : Disk!PageNums, datum : Data, done : 0 .. PAGE_SIZE]
           /\ UNCHANGED <<synced, totalPages, blocks, firstPage, unsure>>
<1>1. /\ writing \in [page : Disk!PageNums, datum : Data, done : 0 .. PAGE_SIZE]
      /\ writing.done < PAGE_SIZE
      /\ writing' = [writing EXCEPT !.done = @ + 1]
  BY DiskFacts DEF Disk!WriteBlock
<1>2. /\ writing'.page = writing.page /\ writing'.datum = writing.datum
      /\ writing'.done = writing.done + 1
  BY <1>1
<1>3. writing.done \in Nat /\ writing.done + 1 \in 1 .. PAGE_SIZE
  BY <1>1, DiskFacts
<1>4. file' = Disk!Put(file, Place(writing.page, writing.done + 1), writing.datum)
  BY <1>2 DEF Disk!WriteBlock, Place
<1>5. writing' \in [page : Disk!PageNums, datum : Data, done : 0 .. PAGE_SIZE]
  BY <1>1, <1>3
<1> QED BY <1>1, <1>2, <1>3, <1>4, <1>5 DEF Disk!WriteBlock

\* A block that is written is one of a page that is unsure.
LEMMA WriteBlockElsewhere ==
    ASSUME DiskInv, Disk!WriteBlock,
           NEW p \in Disk!PageNums \ unsure, NEW k \in 1 .. PAGE_SIZE
    PROVE  At(file', Place(p, k)) = At(file, Place(p, k))
<1>1. p # writing.page
  BY DEF DiskInv, WriterFits, Disk!WriteBlock
<1>2. /\ p \in Nat /\ writing.page \in Nat /\ writing.done + 1 \in 1 .. PAGE_SIZE
      /\ writing.datum \in Data /\ file \in Seq(Disk!Blocks)
      /\ file' = Disk!Put(file, Place(writing.page, writing.done + 1), writing.datum)
  BY WriteBlockFacts, DiskFacts DEF DiskInv, Disk!TypeOK
<1> DEFINE place == Place(writing.page, writing.done + 1)
<1>3. place \in Nat \ {0}
  BY <1>2, PlaceFacts
<1>4. Place(p, k) \in Nat \ {0, place}
  BY <1>1, <1>2, PlacesDiffer
<1> HIDE DEF place
<1>5. \A j \in Nat \ {0, place} : At(file', j) = At(file, j)
  <2>1. file' = Disk!Put(file, place, writing.datum)
    BY <1>2 DEF place
  <2> QED BY <1>2, <1>3, <2>1, PutFacts
<1> QED BY <1>4, <1>5

LEMMA WriteBlockKeeps ==
    ASSUME DiskInv, Disk!WriteBlock
    PROVE  DiskInv'
<1> DEFINE place == Place(writing.page, writing.done + 1)
<1> USE DEF DiskInv
<1>1. /\ writing.page \in Nat /\ writing.page < totalPages /\ totalPages \in Nat
      /\ writing.page < MaxPages /\ MaxPages \in Nat /\ totalPages + 1 \in Nat
  BY WriteBlockFacts, DiskFacts DEF WriterFits, Disk!WriteBlock
<1>2. /\ place \in Nat \ {0} /\ place <= MaxPages * PAGE_SIZE
      /\ place <= totalPages * PAGE_SIZE
  BY <1>1, WriteBlockFacts, PlaceFacts
<1>3. totalPages * PAGE_SIZE \in Nat /\ PAGE_SIZE > 0
      /\ (totalPages + 1) * PAGE_SIZE = totalPages * PAGE_SIZE + PAGE_SIZE
      /\ MaxPages * PAGE_SIZE \in Nat
  BY <1>1, DiskFacts
<1> HIDE DEF place
<1>4. /\ file \in Seq(Disk!Blocks) /\ file' = Disk!Put(file, place, writing.datum)
      /\ writing.datum \in Data
  BY WriteBlockFacts DEF Disk!TypeOK, place
<1>5. /\ file' \in Seq(Disk!Blocks)
      /\ Len(file') = IF place > Len(file) THEN place ELSE Len(file)
      /\ At(file', place) = writing.datum
      /\ \A j \in Nat \ {0, place} : At(file', j) = At(file, j)
  BY <1>2, <1>4, PutFacts
<1>6. Disk!TypeOK'
  <2>1. Len(synced) <= Len(file')
    BY <1>2, <1>5, DiskFacts DEF Disk!TypeOK
  <2> QED BY <1>5, <2>1, WriteBlockFacts DEF Disk!TypeOK
<1>7. FileEnds'
  BY <1>2, <1>3, <1>5, WriteBlockFacts, DiskFacts DEF FileEnds
<1>8. WriterFits'
  <2>1. \A k \in 1 .. writing.done : At(file', Place(writing.page, k)) = writing.datum
    <3> SUFFICES ASSUME NEW k \in 1 .. writing.done
                 PROVE  At(file', Place(writing.page, k)) = writing.datum
      OBVIOUS
    <3>1. /\ k \in 1 .. PAGE_SIZE /\ writing.done + 1 \in 1 .. PAGE_SIZE
          /\ k # writing.done + 1
      BY WriteBlockFacts, DiskFacts
    <3>2. Place(writing.page, k) \in Nat \ {0, place}
      BY <1>1, <3>1, PlacesDiffer DEF place
    <3> QED BY <1>5, <3>2 DEF WriterFits, Disk!WriteBlock
  <2>2. At(file', Place(writing.page, writing.done + 1)) = writing.datum
    BY <1>5 DEF place
  <2>3. \A k \in 1 .. writing.done + 1 : k \in 1 .. writing.done \/ k = writing.done + 1
    BY WriteBlockFacts
  <2> QED BY <2>1, <2>2, <2>3, WriteBlockFacts DEF WriterFits, Disk!WriteBlock
<1>9. SureIsSynced'
  BY WriteBlockElsewhere, WriteBlockFacts DEF SureIsSynced
<1> QED BY <1>6, <1>7, <1>8, <1>9

-----------------------------------------------------------------------------
(* The steps that leave the file alone *)

LEMMA ReadPageKeeps ==
    ASSUME DiskInv, NEW p \in Disk!PageNums, Disk!ReadPage(p)
    PROVE  DiskInv'
<1>1. /\ UNCHANGED <<file, synced, totalPages, writing, firstPage, unsure>>
      /\ blocks' = Disk!PageIn(p)
  BY DEF Disk!ReadPage
<1>2. blocks' \in [1 .. PAGE_SIZE -> Disk!Blocks]
  <2>1. p \in Nat /\ \A k \in 1 .. PAGE_SIZE : At(file, Place(p, k)) \in Disk!Blocks
    BY DiskFacts, PlaceFacts DEF DiskInv
  <2> QED BY <1>1, <2>1, PageInFacts
<1> QED BY <1>1, <1>2 DEF DiskInv, Disk!TypeOK, FileEnds, WriterFits, SureIsSynced

LEMMA AllocatePageKeeps ==
    ASSUME DiskInv, Disk!AllocatePage
    PROVE  DiskInv'
<1> USE DEF DiskInv
<1>1. /\ totalPages < MaxPages /\ totalPages' = totalPages + 1
      /\ UNCHANGED <<file, synced, writing, blocks, firstPage, unsure>>
  BY DEF Disk!AllocatePage
<1>2. Disk!TypeOK'
  BY <1>1, DiskFacts DEF Disk!TypeOK
<1>3. FileEnds'
  <2>1. (totalPages + 1) * PAGE_SIZE <= (totalPages' + 1) * PAGE_SIZE
        /\ (totalPages + 1) * PAGE_SIZE \in Nat /\ (totalPages' + 1) * PAGE_SIZE \in Nat
    BY <1>1, DiskFacts
  <2> QED BY <1>1, <2>1, DiskFacts DEF FileEnds
<1>4. WriterFits' /\ SureIsSynced'
  BY <1>1, DiskFacts DEF WriterFits, SureIsSynced
<1> QED BY <1>2, <1>3, <1>4

LEMMA WriteBeginKeeps ==
    ASSUME DiskInv, NEW p \in Disk!PageNums, NEW d \in Data, Disk!WriteBegin(p, d)
    PROVE  DiskInv'
<1> USE DEF DiskInv
<1>1. /\ p < totalPages /\ writing' = [page |-> p, datum |-> d, done |-> 0]
      /\ unsure' = unsure \cup {p}
      /\ UNCHANGED <<file, synced, totalPages, blocks, firstPage>>
  BY DEF Disk!WriteBegin
<1>2. writing'.page = p /\ writing'.done = 0
      /\ writing' \in [page : Disk!PageNums, datum : Data, done : 0 .. PAGE_SIZE]
  BY <1>1, DiskFacts
<1>3. Disk!TypeOK'
  BY <1>1, <1>2 DEF Disk!TypeOK
<1>4. FileEnds' /\ WriterFits' /\ SureIsSynced'
  BY <1>1, <1>2 DEF FileEnds, WriterFits, SureIsSynced
<1> QED BY <1>3, <1>4

LEMMA WriteEndsKeep ==
    ASSUME DiskInv, Disk!WriteReturns \/ Disk!WriteFails
    PROVE  DiskInv'
<1> USE DEF DiskInv
<1>1. /\ writing' = Disk!Nothing /\ UNCHANGED <<file, totalPages, blocks, firstPage>>
      /\ \/ synced' = file /\ unsure' \subseteq unsure
         \/ UNCHANGED <<synced, unsure>>
  BY DEF Disk!WriteReturns, Disk!WriteFails
<1>2. Disk!TypeOK'
  BY <1>1, DiskFacts DEF Disk!TypeOK
<1> QED BY <1>1, <1>2 DEF FileEnds, WriterFits, SureIsSynced

-----------------------------------------------------------------------------
(* Stops of the process *)

LEMMA SurvivingBlock ==
    ASSUME NEW content, Disk!Survives(content), NEW i \in DOMAIN content
    PROVE  content[i] \in {file[i], At(synced, i)}
BY DEF Disk!Survives, At

\* What a file is after a stop, and what it holds of the pages that count as written.
LEMMA RestartFacts ==
    ASSUME DiskInv, Disk!Restart
    PROVE  /\ file' \in Seq(Disk!Blocks) /\ Len(file') <= Len(file)
           /\ \A p \in Disk!PageNums \ unsure : \A k \in 1 .. PAGE_SIZE :
                  At(file', Place(p, k)) = At(file, Place(p, k))
           /\ synced' = file' \/ (UNCHANGED <<file, synced>>)
           /\ totalPages' = Disk!PagesOf(file') /\ firstPage' = totalPages'
           /\ writing' = Disk!Nothing /\ UNCHANGED <<blocks, unsure>>
<1> USE DEF DiskInv
<1>1. CASE Disk!Opened(file) /\ UNCHANGED synced
  BY <1>1 DEF Disk!Opened, Disk!Restart, Disk!TypeOK
<1>2. ASSUME NEW n \in Len(synced) .. Len(file), NEW content \in [1 .. n -> Disk!Blocks],
             Disk!Survives(content), Disk!Opened(content), synced' = content
      PROVE  /\ file' \in Seq(Disk!Blocks) /\ Len(file') <= Len(file)
             /\ \A p \in Disk!PageNums \ unsure : \A k \in 1 .. PAGE_SIZE :
                    At(file', Place(p, k)) = At(file, Place(p, k))
             /\ file' = content
  <2>1. file' = content /\ n \in Nat /\ Len(synced) <= n /\ n <= Len(file)
    BY <1>2, DiskFacts DEF Disk!Opened
  <2>2. content \in Seq(Disk!Blocks) /\ Len(content) = n /\ DOMAIN content = 1 .. n
    BY <2>1, FunctionIsSequence
  <2>3. ASSUME NEW p \in Disk!PageNums \ unsure, NEW k \in 1 .. PAGE_SIZE
        PROVE  At(content, Place(p, k)) = At(file, Place(p, k))
    <3> DEFINE i == Place(p, k)
    <3>1. i \in Nat \ {0}
      BY DiskFacts, PlaceFacts
    <3>2. At(file, i) = At(synced, i)
      BY DEF SureIsSynced
    <3> HIDE DEF i
    <3>3. CASE i <= n
      <4>1. i \in DOMAIN content /\ At(content, i) = content[i]
        BY <2>1, <2>2, <3>1, <3>3 DEF At
      <4>2. At(file, i) = file[i]
        BY <2>1, <3>1, <3>3, DiskFacts DEF At
      <4>3. content[i] \in {file[i], At(synced, i)}
        BY <1>2, <4>1, SurvivingBlock
      <4> QED BY <3>2, <4>1, <4>2, <4>3 DEF i
    <3>4. CASE ~(i <= n)
      <4>1. At(content, i) = Zero /\ At(synced, i) = Zero
        BY <2>1, <2>2, <3>1, <3>4, DiskFacts DEF At
      <4> QED BY <3>2, <4>1 DEF i
    <3> QED BY <3>3, <3>4
  <2> QED BY <2>1, <2>2, <2>3
<1>3. /\ totalPages' = Disk!PagesOf(file') /\ firstPage' = totalPages'
      /\ writing' = Disk!Nothing /\ UNCHANGED <<blocks, unsure>>
  BY DEF Disk!Restart, Disk!Opened
<1> QED BY <1>1, <1>2, <1>3 DEF Disk!Restart

LEMMA RestartKeeps ==
    ASSUME DiskInv, Disk!Restart
    PROVE  DiskInv'
<1> USE DEF DiskInv
<1>1. Len(file') \in Nat /\ Len(file') <= MaxPages * PAGE_SIZE
  BY RestartFacts, DiskFacts DEF FileEnds
<1>2. /\ totalPages' \in Nat
      /\ totalPages' * PAGE_SIZE <= Len(file')
      /\ Len(file') < (totalPages' + 1) * PAGE_SIZE
  BY <1>1, RestartFacts, PagesAssumption, Quotients DEF Disk!PagesOf
<1>3. totalPages' <= MaxPages
  <2> SUFFICES ASSUME MaxPages < totalPages'
               PROVE  FALSE
    BY <1>2, DiskFacts
  <2>1. MaxPages * PAGE_SIZE + PAGE_SIZE <= totalPages' * PAGE_SIZE
    BY <1>2, DiskFacts, Products
  <2>2. MaxPages * PAGE_SIZE \in Nat /\ totalPages' * PAGE_SIZE \in Nat
    BY <1>2, DiskFacts
  <2> QED BY <1>1, <1>2, <2>1, <2>2, DiskFacts
<1>4. Disk!TypeOK'
  <2>1. synced' \in Seq(Disk!Blocks) /\ Len(synced') <= Len(file')
    BY <1>1, RestartFacts DEF Disk!TypeOK
  <2> QED BY <1>2, <1>3, <2>1, RestartFacts, DiskFacts DEF Disk!TypeOK
<1>5. FileEnds' /\ WriterFits'
  BY <1>1, <1>2, RestartFacts DEF FileEnds, WriterFits
<1>6. SureIsSynced'
  BY RestartFacts DEF SureIsSynced
<1> QED BY <1>4, <1>5, <1>6

LEMMA StartsRight ==
    ASSUME Disk!Init
    PROVE  DiskInv
<1> USE DEF Disk!Init
<1>1. Len(file) = 0 /\ Len(synced) = 0 /\ file \in Seq(Disk!Blocks)
  OBVIOUS
<1>2. Disk!TypeOK
  BY <1>1, PagesAssumption DEF Disk!TypeOK, Disk!Zeros, Disk!Blocks
<1>3. FileEnds
  BY <1>1, PagesAssumption DEF FileEnds
<1>4. WriterFits /\ SureIsSynced
  BY DEF WriterFits, SureIsSynced
<1> QED BY <1>2, <1>3, <1>4 DEF DiskInv

-----------------------------------------------------------------------------
(* Invariance *)

\* The inductive invariant of the disk manager holds of every behaviour.
THEOREM DiskInvariance == Disk!Spec => []DiskInv
<1>1. Disk!Init => DiskInv
  BY StartsRight
<1>2. DiskInv /\ [Disk!Next]_(Disk!vars) => DiskInv'
  <2>1. CASE UNCHANGED Disk!vars
    BY <2>1 DEF Disk!vars, DiskInv, Disk!TypeOK, FileEnds, WriterFits, SureIsSynced
  <2> QED BY <2>1, ReadPageKeeps, WriteBeginKeeps, AllocatePageKeeps, WriteBlockKeeps,
             WriteEndsKeep, RestartKeeps DEF Disk!Next
<1> QED BY <1>1, <1>2, PTL DEF Disk!Spec

\* The variables of the disk manager keep their types: the file never grows beyond
\* the pages that were handed out.
THEOREM DiskTypes == Disk!Spec => []Disk!TypeOK
BY DiskInvariance, PTL DEF DiskInv

-----------------------------------------------------------------------------
(* The disk manager implements PageFile *)

Image ==
    [p \in Disk!PageNums |-> IF p \in unsure THEN Unsure ELSE Disk!Whole(Disk!PageIn(p))]
Given == firstPage .. totalPages - 1

\* A page in which nothing changed is the same.
LEMMA SameBlocks ==
    ASSUME NEW p \in Disk!PageNums,
           \A k \in 1 .. PAGE_SIZE : At(file', Place(p, k)) = At(file, Place(p, k))
    PROVE  Disk!PageIn(p)' = Disk!PageIn(p)
BY DEF Disk!PageIn, At, Place

LEMMA ReadPageReads ==
    ASSUME DiskInv, NEW p \in Disk!PageNums, Disk!ReadPage(p)
    PROVE  Disk!File!Read(p)
<1>1. blocks' = Disk!PageIn(p) /\ UNCHANGED <<file, totalPages, firstPage, unsure>>
  BY DEF Disk!ReadPage
<1>2. Image' = Image /\ Given' = Given
  BY <1>1 DEF Image, Given, Disk!Whole, Disk!PageIn
<1>3. Image[p] # Unsure => Disk!Whole(blocks)' = Image[p]
  BY <1>1 DEF Image, Disk!Whole
<1> QED BY <1>2, <1>3 DEF Disk!File!Read, Image, Given

\* The page handed out is the one in which the file ends, or behind it: its last
\* block is not there.
LEMMA AllocatePageAllocates ==
    ASSUME DiskInv, Disk!AllocatePage
    PROVE  totalPages \in Disk!PageNums /\ Disk!File!Allocate(totalPages)
<1> USE DEF DiskInv
<1>1. /\ totalPages < MaxPages /\ totalPages' = totalPages + 1
      /\ UNCHANGED <<file, blocks, firstPage, unsure>>
  BY DEF Disk!AllocatePage
<1>2. totalPages \in Disk!PageNums /\ totalPages \in Nat
  BY <1>1, DiskFacts DEF Disk!PageNums
<1>3. Disk!PageIn(totalPages)[PAGE_SIZE] = Zero /\ PAGE_SIZE \in 1 .. PAGE_SIZE
      /\ DOMAIN Disk!PageIn(totalPages) = 1 .. PAGE_SIZE
  <2>1. Place(totalPages, PAGE_SIZE) = (totalPages + 1) * PAGE_SIZE
    BY <1>2, DiskFacts DEF Place
  <2>2. Len(file) < Place(totalPages, PAGE_SIZE)
    BY <2>1 DEF FileEnds
  <2>3. Place(totalPages, PAGE_SIZE) \in Nat
    BY <1>2, <2>1, DiskFacts
  <2> QED BY <1>2, <2>2, <2>3, PageInFacts, DiskFacts DEF At
<1>4. Disk!Whole(Disk!PageIn(totalPages)) \notin Data
  BY <1>3, DiskFacts, DataAssumption DEF Disk!Whole
<1>5. Image[totalPages] \notin Data
  BY <1>2, <1>4, DataAssumption DEF Image
<1>6. totalPages \notin Given /\ Given' = Given \cup {totalPages}
  BY <1>1, <1>2 DEF Given, Disk!TypeOK
<1>7. Image' = Image /\ Disk!Whole(blocks)' = Disk!Whole(blocks)
  BY <1>1 DEF Image, Disk!Whole, Disk!PageIn
<1> QED BY <1>2, <1>5, <1>6, <1>7 DEF Disk!File!Allocate, Image, Given

LEMMA WriteBeginWrites ==
    ASSUME DiskInv, NEW p \in Disk!PageNums, NEW d \in Data, Disk!WriteBegin(p, d)
    PROVE  Disk!File!Write(p, Unsure)
<1>1. unsure' = unsure \cup {p} /\ UNCHANGED <<file, totalPages, blocks, firstPage>>
  BY DEF Disk!WriteBegin
<1>2. \A q \in Disk!PageNums : Disk!PageIn(q)' = Disk!PageIn(q)
  BY <1>1 DEF Disk!PageIn
<1>3. Image' = [Image EXCEPT ![p] = Unsure]
  BY <1>1, <1>2 DEF Image, Disk!Whole
<1>4. Given' = Given /\ Disk!Whole(blocks)' = Disk!Whole(blocks)
  BY <1>1 DEF Given, Disk!Whole
<1> QED BY <1>3, <1>4 DEF Disk!File!Write, Image, Given

\* When write_page returns, the page holds what was written.
LEMMA WriteReturnsWrites ==
    ASSUME DiskInv, Disk!WriteReturns
    PROVE  \E p \in Disk!PageNums, d \in Data : Disk!File!Write(p, d)
<1> USE DEF DiskInv
<1>1. /\ writing.done = PAGE_SIZE /\ unsure' = unsure \ {writing.page}
      /\ UNCHANGED <<file, totalPages, blocks, firstPage>>
      /\ writing # Disk!Nothing
  BY DEF Disk!WriteReturns
<1>2. writing.page \in Disk!PageNums /\ writing.datum \in Data
  BY <1>1, DiskFacts
<1>3. Disk!PageIn(writing.page) = [k \in 1 .. PAGE_SIZE |-> writing.datum]
  BY <1>1, <1>2, PageInFacts DEF WriterFits
<1>4. Disk!Whole(Disk!PageIn(writing.page)) = writing.datum
  BY <1>3, DiskFacts DEF Disk!Whole
<1>5. \A q \in Disk!PageNums : Disk!PageIn(q)' = Disk!PageIn(q)
  BY <1>1 DEF Disk!PageIn
<1>6. Image' = [Image EXCEPT ![writing.page] = writing.datum]
  BY <1>1, <1>2, <1>4, <1>5 DEF Image, Disk!Whole
<1>7. Given' = Given /\ Disk!Whole(blocks)' = Disk!Whole(blocks)
  BY <1>1 DEF Given, Disk!Whole
<1>8. PICK p \in Disk!PageNums, d \in Data : p = writing.page /\ d = writing.datum
  BY <1>2
<1>9. Disk!File!Write(p, d)
  BY <1>6, <1>7, <1>8 DEF Disk!File!Write, Image, Given
<1> QED BY <1>9

LEMMA QuietImage ==
    ASSUME UNCHANGED unsure,
           \A p \in Disk!PageNums \ unsure : \A k \in 1 .. PAGE_SIZE :
               At(file', Place(p, k)) = At(file, Place(p, k))
    PROVE  Image' = Image
<1>1. \A p \in Disk!PageNums \ unsure : Disk!PageIn(p)' = Disk!PageIn(p)
  BY SameBlocks
<1>2. \A p \in Disk!PageNums \ unsure : Disk!Whole(Disk!PageIn(p))' = Disk!Whole(Disk!PageIn(p))
  BY <1>1 DEF Disk!Whole
<1> QED BY <1>2 DEF Image

\* A block of an unsure page, or an error, shows in nothing the file promised.
LEMMA WritingStutters ==
    ASSUME DiskInv, Disk!WriteBlock \/ Disk!WriteFails
    PROVE  Image' = Image /\ Given' = Given /\ Disk!Whole(blocks)' = Disk!Whole(blocks)
<1>1. UNCHANGED <<totalPages, blocks, firstPage, unsure>>
  BY DEF Disk!WriteBlock, Disk!WriteFails
<1>2. Image' = Image
  BY <1>1, WriteBlockElsewhere, QuietImage DEF Disk!WriteFails
<1>3. Given' = Given /\ Disk!Whole(blocks)' = Disk!Whole(blocks)
  BY <1>1 DEF Given, Disk!Whole
<1> QED BY <1>2, <1>3

\* A stop loses nothing of the pages that count as written.
LEMMA RestartRestarts ==
    ASSUME DiskInv, Disk!Restart
    PROVE  Disk!File!Restart
<1>1. Image' = Image
  BY RestartFacts, QuietImage
<1>2. Given' = {}
  <2>1. Disk!TypeOK' /\ firstPage' = totalPages'
    BY RestartKeeps, RestartFacts DEF DiskInv
  <2>2. totalPages' \in Nat
    BY <2>1, PagesAssumption DEF Disk!TypeOK
  <2>3. \A n \in Nat : n .. n - 1 = {}
    OBVIOUS
  <2> QED BY <2>1, <2>2, <2>3 DEF Given
<1>3. Disk!Whole(blocks)' = Disk!Whole(blocks)
  BY RestartFacts DEF Disk!Whole
<1> QED BY <1>1, <1>2, <1>3 DEF Disk!File!Restart, Image, Given

\* However writes fail and the process stops, a page whose last write returned Ok is
\* read as written, and no page that holds something is handed out.
THEOREM DiskIsAPageFile == Disk!Spec => ImplementsPageFile
<1>1. Disk!Init => Disk!File!Init
  <2> SUFFICES ASSUME Disk!Init
               PROVE  Disk!File!Init
    OBVIOUS
  <2>1. file = <<>> /\ Len(file) = 0 /\ unsure = {} /\ Disk!Whole(blocks) = Zero
    BY PagesAssumption DEF Disk!Init, Disk!Whole, Disk!Zeros
  <2>2. \A p \in Disk!PageNums : Disk!PageIn(p) = [k \in 1 .. PAGE_SIZE |-> Zero]
    <3>1. \A p \in Disk!PageNums : \A k \in 1 .. PAGE_SIZE : Place(p, k) \in Nat \ {0}
      BY PagesAssumption, PlaceFacts DEF Disk!PageNums
    <3> QED BY <2>1, <3>1, PageInFacts DEF At
  <2>3. \A p \in Disk!PageNums : Disk!Whole(Disk!PageIn(p)) = Zero
    BY <2>2, PagesAssumption DEF Disk!Whole
  <2> QED BY <2>1, <2>3 DEF Disk!Init, Disk!File!Init
<1>2. DiskInv /\ [Disk!Next]_(Disk!vars) => [Disk!File!Next]_(Disk!File!vars)
  <2> SUFFICES ASSUME DiskInv, [Disk!Next]_(Disk!vars)
               PROVE  [Disk!File!Next]_(Disk!File!vars)
    OBVIOUS
  <2>1. ASSUME NEW p \in Disk!PageNums, Disk!ReadPage(p)
        PROVE  Disk!File!Next
    BY <2>1, ReadPageReads DEF Disk!File!Next
  <2>2. ASSUME NEW p \in Disk!PageNums, NEW d \in Data, Disk!WriteBegin(p, d)
        PROVE  Disk!File!Next
    BY <2>2, WriteBeginWrites DEF Disk!File!Next
  <2>3. CASE Disk!AllocatePage
    BY <2>3, AllocatePageAllocates DEF Disk!File!Next
  <2>4. CASE Disk!WriteBlock \/ Disk!WriteFails
    BY <2>4, WritingStutters DEF Disk!File!vars, Image, Given
  <2>5. CASE Disk!WriteReturns
    BY <2>5, WriteReturnsWrites DEF Disk!File!Next
  <2>6. CASE Disk!Restart
    BY <2>6, RestartRestarts DEF Disk!File!Next
  <2>7. CASE UNCHANGED Disk!vars
    <3>1. Image' = Image /\ Given' = Given /\ Disk!Whole(blocks)' = Disk!Whole(blocks)
      BY <2>7 DEF Disk!vars, Image, Given, Disk!Whole, Disk!PageIn
    <3> QED BY <3>1 DEF Disk!File!vars, Image, Given
  <2> QED BY <2>1, <2>2, <2>3, <2>4, <2>5, <2>6, <2>7 DEF Disk!Next
<1> QED BY <1>1, <1>2, DiskInvariance, PTL
       DEF Disk!Spec, ImplementsPageFile, Disk!ImplementsPageFile, Disk!File!Spec

-----------------------------------------------------------------------------
(* The parts together *)

\* The part that is run takes its steps and no others; the rest stay as they are.
THEOREM PartsFollowTheirSpecs == EitherSpec => Spec /\ LRU!Spec /\ Disk!Spec
<1>1. EitherInit => Init /\ LRU!Init /\ Disk!Init
  BY DEF EitherInit
<1>2. [EitherNext]_<<part, vars, lruVars, diskVars>>
          => [Next]_vars /\ [LRU!Next]_(LRU!vars) /\ [Disk!Next]_(Disk!vars)
  <2> SUFFICES ASSUME [EitherNext]_<<part, vars, lruVars, diskVars>>
               PROVE  [Next]_vars /\ [LRU!Next]_(LRU!vars) /\ [Disk!Next]_(Disk!vars)
    OBVIOUS
  <2>1. LRU!vars = lruVars /\ Disk!vars = diskVars
    BY DEF LRU!vars, lruVars, Disk!vars, diskVars
  <2>2. lruVars' = lruVars => LRU!vars' = LRU!vars
    BY DEF LRU!vars, lruVars
  <2>3. diskVars' = diskVars => Disk!vars' = Disk!vars
    BY DEF Disk!vars, diskVars
  <2> QED BY <2>2, <2>3 DEF EitherNext
<1> QED BY <1>1, <1>2, PTL DEF EitherSpec, Spec, LRU!Spec, Disk!Spec

\* The variables of all three keep their types, whichever is run.
THEOREM PartsTypes == EitherSpec => []PartsTypeOK
BY PartsFollowTheirSpecs, ClockTypes, LRUTypes, DiskTypes, PTL DEF PartsTypeOK
===============================================================================
