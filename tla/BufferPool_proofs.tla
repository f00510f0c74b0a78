-------------------------- MODULE BufferPool_proofs --------------------------
(***************************************************************************)
(* What holds of BufferPool for every set of pages, pool size, set of      *)
(* clients and faults, its refinement of PageStore among them.  The        *)
(* inductive invariant is TypeOK with Structure: what ties page_table, the *)
(* descriptors and the handles together.                                   *)
(***************************************************************************)
EXTENDS BufferPool, FiniteSetTheorems, TLAPS

\* A handle has a page and a frame or neither, and a closed one holds no latch
\* and owes no write.
HandleShape ==
    \A h \in Handles :
        /\ hFrame[h] = NoFrame <=> hPage[h] = NoPage
        /\ hPage[h] = NoPage => latch[h] = "none" /\ ~wrote[h]

\* The frame flush_page waits for keeps a page, and only such frames are dirty.
FlushHasPage ==
    flushKind = "page" => flushFrame \in Frames /\ pageId[flushFrame] # NoPage
DirtyHasPage == \A f \in Frames : dirty[f] => pageId[f] # NoPage

Structure ==
    /\ HandleShape
    /\ HandlesStay
    /\ TableMatchesFrames
    /\ PinsCountHandles
    /\ FlushHasPage
    /\ DirtyHasPage

IInv == TypeOK /\ Structure

-----------------------------------------------------------------------------
(* Lemmas about one state. *)

LEMMA FrameFacts == Frames \subseteq Int /\ NoFrame \notin Frames
BY PoolSizeAssumption DEF Frames, NoFrame

LEMMA PageNumFacts ==
    ASSUME NEW p \in PageIds
    PROVE  p.page_num \in PageNums /\ p # NoPage
BY PageIdsAssumption DEF PageNums

LEMMA HoldersFinite ==
    ASSUME NEW f \in Frames
    PROVE  IsFiniteSet(Holders(f)) /\ Cardinality(Holders(f)) \in Nat
<1>1. Holders(f) \subseteq Handles
  BY DEF Holders
<1> QED BY <1>1, HandlesAssumption, FS_Subset, FS_CardinalityType

\* find_victim_frame never takes a frame somebody has fetched.
LEMMA VictimIsFree ==
    ASSUME IInv, NEW f \in Frames, IsVictim(f)
    PROVE  /\ Holders(f) = {}
           /\ pinCount[f] = 0
           /\ f \notin pinned
<1> USE DEF IInv
<1>1. pinCount[f] = Cardinality(Holders(f)) /\ (f \in pinned <=> pinCount[f] > 0)
  BY DEF Structure, PinsCountHandles
<1>2. CASE EmptyFrames # {}
  <2>1. pageId[f] = NoPage
    BY <1>2 DEF IsVictim, EmptyFrames
  <2>2. ASSUME NEW h \in Holders(f) PROVE FALSE
    <3>1. h \in Handles /\ hFrame[h] = f /\ f # NoFrame
      BY <2>2, FrameFacts DEF Holders
    <3>2. hPage[h] \in PageIds /\ pageTable[hPage[h]] = f
      BY <3>1 DEF Structure, HandleShape, HandlesStay, Open, TypeOK
    <3> QED BY <2>1, <3>2, PageNumFacts DEF Structure, TableMatchesFrames
  <2>3. Holders(f) = {}
    BY <2>2
  <2> QED BY <1>1, <2>3, FS_EmptySet
<1>3. CASE EmptyFrames = {}
  <2>1. f \notin pinned
    BY <1>3 DEF IsVictim
  <2>2. pinCount[f] = 0
    BY <1>1, <2>1 DEF TypeOK
  <2>3. Holders(f) = {}
    BY <1>1, <2>2, HoldersFinite, FS_EmptySet
  <2> QED BY <2>1, <2>2, <2>3
<1> QED BY <1>2, <1>3

\* An open handle is one of the holders of the frame it was given.
LEMMA OpenHandle ==
    ASSUME IInv, NEW h \in Handles, Open(h)
    PROVE  /\ hPage[h] \in PageIds
           /\ hFrame[h] \in Frames
           /\ h \in Holders(hFrame[h])
           /\ pageTable[hPage[h]] = hFrame[h]
           /\ pageId[hFrame[h]] = hPage[h]
           /\ pinCount[hFrame[h]] > 0
<1> USE DEF IInv
<1>1. hPage[h] \in PageIds /\ hFrame[h] \in Frames /\ pageTable[hPage[h]] = hFrame[h]
  BY DEF Open, TypeOK, Structure, HandleShape, HandlesStay
<1>2. pageId[hFrame[h]] = hPage[h]
  BY <1>1 DEF Structure, TableMatchesFrames
<1>3. h \in Holders(hFrame[h])
  BY DEF Holders
<1>4. pinCount[hFrame[h]] > 0
  <2>1. Cardinality(Holders(hFrame[h])) # 0 /\ Cardinality(Holders(hFrame[h])) \in Nat
    BY <1>1, <1>3, HoldersFinite, FS_EmptySet
  <2>2. pinCount[hFrame[h]] = Cardinality(Holders(hFrame[h]))
    BY <1>1 DEF Structure, PinsCountHandles
  <2> QED BY <2>1, <2>2
<1> QED BY <1>1, <1>2, <1>3, <1>4
-----------------------------------------------------------------------------
(* Type correctness. *)

LEMMA ContentsFacts ==
    /\ ZeroPage \in Contents
    /\ BlankPage \in Contents
    /\ \A c \in Contents : [c EXCEPT !.data = TornData] \in Contents
BY DEF Contents, ZeroPage, BlankPage

LEMMA InitTypeOK == Init => TypeOK
BY ContentsFacts, MaxLsnAssumption, FrameFacts DEF Init, TypeOK

LEMMA FlushWalType ==
    ASSUME TypeOK, NEW c, FlushWal(c)
    PROVE  nextLsn' \in 1 .. MaxLsn + 1 /\ flushedLsn' \in Nat /\ durableLsn' \in Nat
BY MaxLsnAssumption DEF TypeOK, FlushWal, LogSynced, log

LEMMA WriteBackType ==
    ASSUME TypeOK, NEW f \in Frames, WriteBack(f) \/ WriteBackFails(f)
    PROVE  disk' \in [PageNums -> Contents]
BY ContentsFacts DEF TypeOK, WriteBack, WriteBackFails

LEMMA CleanVictimType ==
    ASSUME TypeOK, NEW f \in Frames, CleanVictim(f)
    PROVE  /\ disk' \in [PageNums -> Contents]
           /\ nextLsn' \in 1 .. MaxLsn + 1
           /\ flushedLsn' \in Nat
           /\ durableLsn' \in Nat
           /\ dirty' \in [Frames -> BOOLEAN]
<1>1. CASE dirty[f]
  BY <1>1, FlushWalType, WriteBackType DEF CleanVictim, TypeOK
<1>2. CASE ~dirty[f]
  BY <1>2 DEF CleanVictim, TypeOK, log
<1> QED BY <1>1, <1>2

LEMMA RemapType ==
    ASSUME TypeOK, NEW p \in PageIds, NEW f \in Frames, Remap(p, f)
    PROVE  /\ pageTable' \in [PageIds -> Frames \cup {NoFrame}]
           /\ pageId' \in [Frames -> PageIds \cup {NoPage}]
BY DEF TypeOK, Remap

LEMMA PinForType ==
    ASSUME TypeOK, NEW h \in Handles, NEW p \in PageIds, NEW f \in Frames, PinFor(h, p, f)
    PROVE  /\ pinCount' \in [Frames -> Nat]
           /\ tracked' \subseteq Frames
           /\ pinned' \subseteq Frames
           /\ hPage' \in [Handles -> PageIds \cup {NoPage}]
           /\ hFrame' \in [Handles -> Frames \cup {NoFrame}]
BY DEF TypeOK, Pin, PinFor

LEMMA NextTypeOK ==
    ASSUME IInv, [Next]_vars
    PROVE  TypeOK'
<1> USE DEF IInv
<1>1. ASSUME NEW h \in Handles, NEW p \in PageIds, FetchHit(h, p)
      PROVE  TypeOK'
  <2>1. pageTable[p] \in Frames
    BY <1>1 DEF FetchHit, TypeOK
  <2> QED BY <1>1, <2>1, PinForType DEF FetchHit, TypeOK, table, log, flush
<1>2. ASSUME NEW h \in Handles, NEW p \in PageIds, NEW f \in Frames, FetchMiss(h, p, f)
      PROVE  TypeOK'
  <2>1. frames' \in [Frames -> Contents]
    BY <1>2, CleanVictimType, PageNumFacts DEF FetchMiss, ReadPage, TypeOK
  <2> QED BY <1>2, <2>1, CleanVictimType, RemapType, PinForType
          DEF FetchMiss, TypeOK, flush
<1>3. ASSUME NEW h \in Handles, NEW p \in PageIds, NEW f \in Frames, FetchWriteFails(h, p, f)
      PROVE  TypeOK'
  BY <1>3, FlushWalType, WriteBackType DEF FetchWriteFails, TypeOK, table, clients, flush
<1>4. ASSUME NEW h \in Handles, NEW p \in PageIds, NEW f \in Frames, FetchReadFails(h, p, f)
      PROVE  TypeOK'
  BY <1>4, CleanVictimType, RemapType DEF FetchReadFails, TypeOK, clients, flush
<1>5. ASSUME NEW h \in Handles, NEW mode \in {"read", "write"}, Latch(h, mode)
      PROVE  TypeOK'
  BY <1>5 DEF Latch, TypeOK, table, policy, log, flush
<1>6. ASSUME NEW h \in Handles, NEW d \in Data, NEW logged \in BOOLEAN, Modify(h, d, logged)
      PROVE  TypeOK'
  <2>1. Open(h)
    BY <1>6 DEF Modify, Structure, HandleShape, Open
  <2>2. hFrame[h] \in Frames
    BY <2>1, OpenHandle
  <2>3. frames' \in [Frames -> Contents]
    BY <1>6, <2>2, MaxLsnAssumption DEF Modify, TypeOK, Contents
  <2>4. nextLsn' \in 1 .. MaxLsn + 1
    BY <1>6, MaxLsnAssumption DEF Modify, TypeOK
  <2> QED BY <1>6, <2>3, <2>4 DEF Modify, TypeOK, table, policy, flush
<1>7. ASSUME NEW h \in Handles, Unlatch(h)
      PROVE  TypeOK'
  BY <1>7 DEF Unlatch, TypeOK, table, policy, log, flush
<1>8. ASSUME NEW h \in Handles, NEW isDirty \in BOOLEAN, Unpin(h, isDirty)
      PROVE  TypeOK'
  <2>1. pageTable[hPage[h]] \in Frames /\ pinCount[pageTable[hPage[h]]] > 0
    BY <1>8, OpenHandle DEF Unpin
  <2>2. pinCount' \in [Frames -> Nat]
    BY <1>8, <2>1 DEF Unpin, LetGo, TypeOK
  <2>3. tracked' \subseteq Frames /\ pinned' \subseteq Frames
    BY <1>8, <2>1 DEF Unpin, LetGo, TypeOK, policy
  <2>4. dirty' \in [Frames -> BOOLEAN]
    BY <1>8 DEF Unpin, MarkDirty, TypeOK
  <2> QED BY <1>8, <2>2, <2>3, <2>4 DEF Unpin, TypeOK, table, log, flush
<1>9. ASSUME NEW p \in PageIds, FlushPageBegin(p)
      PROVE  TypeOK'
  <2>1. flushFrame' \in Nat
    BY <1>9, PoolSizeAssumption DEF FlushPageBegin, TypeOK, Frames
  <2> QED BY <1>9, <2>1 DEF FlushPageBegin, TypeOK, table, policy, log, clients
<1>10. CASE FlushAllBegin
  BY <1>10 DEF FlushAllBegin, TypeOK, table, policy, log, clients
<1>11. CASE FlushWrite
  <2>1. flushFrame \in Frames
    BY <1>11 DEF FlushWrite, MustWrite
  <2>2. flushKind' \in {"idle", "page", "all"} /\ flushFrame' \in Nat
    BY <1>11 DEF FlushWrite, FlushReturn, TypeOK
  <2> QED BY <1>11, <2>1, <2>2, FlushWalType, WriteBackType
          DEF FlushWrite, TypeOK, table, policy, clients
<1>12. CASE FlushWriteFails
  <2>1. flushFrame \in Frames
    BY <1>12 DEF FlushWriteFails, MustWrite
  <2> QED BY <1>12, <2>1, FlushWalType, WriteBackType
          DEF FlushWriteFails, FlushGivesUp, FlushReturn, TypeOK, table, policy, clients
<1>13. CASE FlushSkip
  BY <1>13 DEF FlushSkip, FlushReturn, TypeOK, table, policy, log, clients
<1>14. CASE LogAppend
  BY <1>14, MaxLsnAssumption DEF LogAppend, TypeOK, table, policy, clients, flush
<1>15. CASE LogFlush
  BY <1>15 DEF LogFlush, LogSynced, TypeOK, table, policy, clients, flush
<1>16. ASSUME NEW len \in 0 .. MaxLsn, NEW powerLoss \in BOOLEAN, Restart(len, powerLoss)
       PROVE  TypeOK'
  <2>1. nextLsn' \in 1 .. MaxLsn + 1 /\ flushedLsn' \in Nat /\ durableLsn' \in Nat
    BY <1>16, MaxLsnAssumption DEF Restart, LogReopened, TypeOK
  <2> QED BY <1>16, <2>1, ContentsFacts, FrameFacts DEF Restart, FlushReturn, TypeOK
<1>17. CASE UNCHANGED vars
  BY <1>17 DEF vars, table, policy, log, clients, flush, TypeOK
<1> QED BY <1>1, <1>2, <1>3, <1>4, <1>5, <1>6, <1>7, <1>8, <1>9, <1>10, <1>11,
           <1>12, <1>13, <1>14, <1>15, <1>16, <1>17
        DEF Next, Use, Fetch, FlushStep
-----------------------------------------------------------------------------
(* The structure of the pool. *)

LEMMA InitStructure == Init => Structure
<1> SUFFICES ASSUME Init PROVE Structure
  OBVIOUS
<1>1. \A f \in Frames : Holders(f) = {}
  BY FrameFacts DEF Init, Holders
<1>2. PinsCountHandles
  BY <1>1, FS_EmptySet DEF Init, PinsCountHandles
<1>3. TableMatchesFrames
  BY FrameFacts, PageIdsAssumption DEF Init, TableMatchesFrames
<1> QED BY <1>2, <1>3
        DEF Init, Structure, HandleShape, HandlesStay, Open, FlushHasPage, DirtyHasPage

\* A step that leaves the tables, the pins and the handles alone.
LEMMA SameHandles ==
    ASSUME IInv, UNCHANGED <<pageTable, pageId, pinCount, pinned, hPage, hFrame>>
    PROVE  HandlesStay' /\ TableMatchesFrames' /\ PinsCountHandles'
<1> USE DEF IInv, Structure
<1>1. \A f \in Frames : Holders(f)' = Holders(f)
  BY DEF Holders
<1>2. PinsCountHandles'
  BY <1>1 DEF PinsCountHandles
<1> QED BY <1>2 DEF HandlesStay, Open, TableMatchesFrames

\* The page table after the victim's page gives way.
LEMMA RemapMatches ==
    ASSUME IInv, NEW p \in PageIds, NEW f \in Frames, pageTable[p] = NoFrame, Remap(p, f)
    PROVE  TableMatchesFrames'
<1> USE DEF IInv, Structure
<1> SUFFICES ASSUME NEW q \in PageIds, NEW g \in Frames
             PROVE  (pageTable[q] = g <=> pageId[g] = q)'
  BY DEF TableMatchesFrames
<1>1. pageTable'[q] = IF q = p THEN f ELSE IF q = pageId[f] THEN NoFrame ELSE pageTable[q]
  BY DEF Remap
<1>2. pageId'[g] = IF g = f THEN p ELSE pageId[g]
  BY DEF Remap, TypeOK
<1>3. pageTable[q] = g <=> pageId[g] = q
  BY DEF TableMatchesFrames
<1>4. pageTable[p] = g <=> pageId[g] = p
  BY DEF TableMatchesFrames
<1>5. pageTable[q] = f <=> pageId[f] = q
  BY DEF TableMatchesFrames
<1> QED BY <1>1, <1>2, <1>3, <1>4, <1>5, FrameFacts

\* Remapping a frame nobody holds leaves the open handles where they are.
LEMMA RemapKeepsHandles ==
    ASSUME IInv, NEW p \in PageIds, NEW f \in Frames, pageTable[p] = NoFrame, Remap(p, f),
           Holders(f) = {}, NEW h \in Handles, Open(h)
    PROVE  pageTable'[hPage[h]] = hFrame[h]
<1>1. hPage[h] \in PageIds /\ hFrame[h] \in Frames /\ h \in Holders(hFrame[h])
      /\ pageTable[hPage[h]] = hFrame[h] /\ pageId[hFrame[h]] = hPage[h]
  BY OpenHandle
<1>2. hFrame[h] # f
  BY <1>1
<1>3. hPage[h] # p
  BY <1>1, FrameFacts
<1>4. hPage[h] # pageId[f]
  BY <1>1, <1>2 DEF IInv, Structure, TableMatchesFrames
<1> QED BY <1>1, <1>3, <1>4 DEF Remap

\* A new pin of frame f for a handle that was closed.
LEMMA PinCounts ==
    ASSUME IInv, NEW h \in Handles, NEW p \in PageIds, NEW f \in Frames,
           ~Open(h), PinFor(h, p, f)
    PROVE  PinsCountHandles'
<1> USE DEF IInv, Structure
<1>1. hFrame[h] = NoFrame
  BY DEF HandleShape, Open
<1> SUFFICES ASSUME NEW g \in Frames
             PROVE  (pinCount[g] = Cardinality(Holders(g)) /\ (g \in pinned <=> pinCount[g] > 0))'
  BY DEF PinsCountHandles
<1>2. pinCount[g] = Cardinality(Holders(g)) /\ (g \in pinned <=> pinCount[g] > 0)
  BY DEF PinsCountHandles
<1>3. CASE g = f
  <2>1. Holders(g)' = Holders(g) \cup {h} /\ h \notin Holders(g)
    BY <1>1, <1>3, FrameFacts DEF PinFor, Holders, TypeOK
  <2>2. Cardinality(Holders(g)') = Cardinality(Holders(g)) + 1
    BY <2>1, HoldersFinite, FS_AddElement
  <2>3. pinCount'[g] = pinCount[g] + 1 /\ g \in pinned' /\ pinCount[g] \in Nat
    BY <1>3 DEF Pin, PinFor, TypeOK
  <2> QED BY <1>2, <2>2, <2>3
<1>4. CASE g # f
  <2>1. Holders(g)' = Holders(g)
    BY <1>1, <1>4, FrameFacts DEF PinFor, Holders, TypeOK
  <2>2. pinCount'[g] = pinCount[g] /\ (g \in pinned' <=> g \in pinned)
    BY <1>4 DEF Pin, PinFor, TypeOK
  <2> QED BY <1>2, <2>1, <2>2
<1> QED BY <1>3, <1>4

LEMMA FetchHitStructure ==
    ASSUME IInv, NEW h \in Handles, NEW p \in PageIds, FetchHit(h, p)
    PROVE  Structure'
<1> USE DEF IInv, Structure
<1> DEFINE f == pageTable[p]
<1>1. f \in Frames /\ ~Open(h) /\ PinFor(h, p, f)
      /\ UNCHANGED <<pageTable, pageId, dirty, latch, wrote, flushKind, flushFrame>>
  BY DEF FetchHit, TypeOK, table, flush
<1>2. PinsCountHandles'
  BY <1>1, PinCounts
<1>3. HandleShape'
  BY <1>1, FrameFacts, PageNumFacts DEF HandleShape, PinFor, TypeOK
<1>4. HandlesStay'
  BY <1>1 DEF HandlesStay, Open, PinFor, TypeOK
<1>5. TableMatchesFrames' /\ FlushHasPage' /\ DirtyHasPage'
  BY <1>1 DEF TableMatchesFrames, FlushHasPage, DirtyHasPage
<1> QED BY <1>2, <1>3, <1>4, <1>5

LEMMA FetchMissStructure ==
    ASSUME IInv, NEW h \in Handles, NEW p \in PageIds, NEW f \in Frames, FetchMiss(h, p, f)
    PROVE  Structure'
<1> USE DEF IInv, Structure
<1>1. /\ ~Open(h) /\ pageTable[p] = NoFrame /\ IsVictim(f) /\ flushKind = "idle"
      /\ Remap(p, f) /\ PinFor(h, p, f) /\ CleanVictim(f)
      /\ UNCHANGED <<latch, wrote, flushKind, flushFrame>>
  BY DEF FetchMiss, Misses, flush
<1>2. PinsCountHandles'
  BY <1>1, PinCounts
<1>3. HandleShape'
  BY <1>1, FrameFacts, PageNumFacts DEF HandleShape, PinFor, TypeOK
<1>4. TableMatchesFrames'
  BY <1>1, RemapMatches
<1>5. HandlesStay'
  <2> SUFFICES ASSUME NEW g \in Handles, Open(g)' PROVE (pageTable[hPage[g]] = hFrame[g])'
    BY DEF HandlesStay
  <2>1. CASE g = h
    BY <1>1, <2>1 DEF PinFor, Remap, TypeOK
  <2>2. CASE g # h
    <3>1. hPage'[g] = hPage[g] /\ hFrame'[g] = hFrame[g] /\ Open(g)
      BY <1>1, <2>2 DEF PinFor, TypeOK, Open
    <3> QED BY <1>1, <3>1, VictimIsFree, RemapKeepsHandles
  <2> QED BY <2>1, <2>2
<1>6. FlushHasPage'
  BY <1>1 DEF FlushHasPage
<1>7. DirtyHasPage'
  BY <1>1, PageNumFacts DEF DirtyHasPage, CleanVictim, Remap, TypeOK
<1> QED BY <1>2, <1>3, <1>4, <1>5, <1>6, <1>7

LEMMA FetchReadFailsStructure ==
    ASSUME IInv, NEW h \in Handles, NEW p \in PageIds, NEW f \in Frames, FetchReadFails(h, p, f)
    PROVE  Structure'
<1> USE DEF IInv, Structure
<1>1. /\ pageTable[p] = NoFrame /\ IsVictim(f) /\ flushKind = "idle"
      /\ Remap(p, f) /\ CleanVictim(f)
      /\ UNCHANGED <<pinCount, pinned, hPage, hFrame, latch, wrote, flushKind, flushFrame>>
  BY DEF FetchReadFails, Misses, clients, flush
<1>2. PinsCountHandles'
  BY <1>1 DEF PinsCountHandles, Holders
<1>3. HandleShape'
  BY <1>1 DEF HandleShape
<1>4. TableMatchesFrames'
  BY <1>1, RemapMatches
<1>5. HandlesStay'
  BY <1>1, VictimIsFree, RemapKeepsHandles DEF HandlesStay, Open
<1>6. FlushHasPage'
  BY <1>1 DEF FlushHasPage
<1>7. DirtyHasPage'
  BY <1>1, PageNumFacts DEF DirtyHasPage, CleanVictim, Remap, TypeOK
<1> QED BY <1>2, <1>3, <1>4, <1>5, <1>6, <1>7

LEMMA UnpinStructure ==
    ASSUME IInv, NEW h \in Handles, NEW isDirty \in BOOLEAN, Unpin(h, isDirty)
    PROVE  Structure'
<1> USE DEF IInv, Structure
<1> DEFINE f == pageTable[hPage[h]]
<1>1. /\ Open(h) /\ latch[h] = "none" /\ flushKind = "idle"
      /\ dirty' = [dirty EXCEPT ![f] = @ \/ isDirty]
      /\ pinCount' = [pinCount EXCEPT ![f] = @ - 1]
      /\ IF pinCount[f] = 1 THEN pinned' = pinned \ {f} ELSE pinned' = pinned
      /\ hPage' = [hPage EXCEPT ![h] = NoPage]
      /\ hFrame' = [hFrame EXCEPT ![h] = NoFrame]
      /\ wrote' = [wrote EXCEPT ![h] = FALSE]
      /\ UNCHANGED <<pageTable, pageId, latch, flushKind, flushFrame>>
  BY DEF Unpin, MarkDirty, LetGo, table, policy, flush
<1>2. f = hFrame[h] /\ f \in Frames /\ h \in Holders(f) /\ pinCount[f] > 0
      /\ pageId[f] = hPage[h]
  BY <1>1, OpenHandle
<1>3. PinsCountHandles'
  <2> SUFFICES ASSUME NEW g \in Frames
               PROVE  (pinCount[g] = Cardinality(Holders(g))
                       /\ (g \in pinned <=> pinCount[g] > 0))'
    BY DEF PinsCountHandles
  <2>1. pinCount[g] = Cardinality(Holders(g)) /\ (g \in pinned <=> pinCount[g] > 0)
        /\ pinCount[g] \in Nat
    BY DEF PinsCountHandles, TypeOK
  <2>2. CASE g = f
    <3>1. Holders(g)' = Holders(g) \ {h}
      BY <1>1, <1>2, <2>2, FrameFacts DEF Holders, TypeOK
    <3>2. Cardinality(Holders(g)') = Cardinality(Holders(g)) - 1
      BY <1>2, <2>2, <3>1, HoldersFinite, FS_RemoveElement
    <3>3. pinCount'[g] = pinCount[g] - 1
      BY <1>1, <2>2 DEF TypeOK
    <3>4. g \in pinned' <=> pinCount[g] # 1
      BY <1>1, <1>2, <2>1, <2>2
    <3> QED BY <1>2, <2>1, <2>2, <3>2, <3>3, <3>4
  <2>3. CASE g # f
    <3>1. Holders(g)' = Holders(g)
      BY <1>1, <1>2, <2>3, FrameFacts DEF Holders, TypeOK
    <3>2. pinCount'[g] = pinCount[g] /\ (g \in pinned' <=> g \in pinned)
      BY <1>1, <2>3 DEF TypeOK
    <3> QED BY <2>1, <3>1, <3>2
  <2> QED BY <2>2, <2>3
<1>4. HandleShape'
  BY <1>1 DEF HandleShape, TypeOK
<1>5. HandlesStay'
  BY <1>1 DEF HandlesStay, Open, TypeOK
<1>6. TableMatchesFrames' /\ FlushHasPage'
  BY <1>1 DEF TableMatchesFrames, FlushHasPage
<1>7. DirtyHasPage'
  BY <1>1, <1>2, PageNumFacts DEF DirtyHasPage, Open, TypeOK
<1> QED BY <1>3, <1>4, <1>5, <1>6, <1>7

LEMMA RestartStructure ==
    ASSUME NEW len, NEW powerLoss, Restart(len, powerLoss)
    PROVE  Structure'
<1>1. \A f \in Frames : Holders(f)' = {}
  BY FrameFacts DEF Restart, Holders
<1>2. PinsCountHandles'
  <2>1. \A f \in Frames : pinCount'[f] = 0 /\ f \notin pinned'
    BY DEF Restart
  <2>2. \A f \in Frames : Cardinality(Holders(f)') = 0
    BY <1>1, FS_EmptySet
  <2> QED BY <2>1, <2>2 DEF PinsCountHandles
<1>3. TableMatchesFrames'
  BY FrameFacts, PageIdsAssumption DEF Restart, TableMatchesFrames
<1> QED BY <1>2, <1>3
        DEF Restart, FlushReturn, Structure, HandleShape, HandlesStay, Open,
            FlushHasPage, DirtyHasPage

LEMMA NextStructure ==
    ASSUME IInv, [Next]_vars
    PROVE  Structure'
<1> USE DEF IInv, Structure
<1>1. ASSUME NEW h \in Handles, NEW p \in PageIds, NEW f \in Frames, FetchWriteFails(h, p, f)
      PROVE  Structure'
  BY <1>1, SameHandles
     DEF FetchWriteFails, table, clients, flush, HandleShape, FlushHasPage, DirtyHasPage
<1>2. ASSUME NEW h \in Handles, NEW mode \in {"read", "write"}, Latch(h, mode)
      PROVE  Structure'
  BY <1>2, SameHandles
     DEF Latch, Open, TypeOK, table, policy, flush, HandleShape, FlushHasPage, DirtyHasPage
<1>3. ASSUME NEW h \in Handles, NEW d \in Data, NEW logged \in BOOLEAN, Modify(h, d, logged)
      PROVE  Structure'
  BY <1>3, SameHandles
     DEF Modify, TypeOK, table, policy, flush, HandleShape, FlushHasPage, DirtyHasPage
<1>4. ASSUME NEW h \in Handles, Unlatch(h)
      PROVE  Structure'
  BY <1>4, SameHandles
     DEF Unlatch, TypeOK, table, policy, flush, HandleShape, FlushHasPage, DirtyHasPage
<1>5. ASSUME NEW p \in PageIds, FlushPageBegin(p)
      PROVE  Structure'
  <2>1. FlushHasPage'
    BY <1>5, PageNumFacts DEF FlushPageBegin, FlushHasPage, TableMatchesFrames, TypeOK, table
  <2> QED BY <1>5, <2>1, SameHandles
          DEF FlushPageBegin, table, policy, clients, HandleShape, DirtyHasPage
<1>6. CASE FlushAllBegin
  BY <1>6, SameHandles
     DEF FlushAllBegin, table, policy, clients, HandleShape, FlushHasPage, DirtyHasPage
<1>7. CASE FlushWrite
  <2>1. FlushHasPage'
    BY <1>7 DEF FlushWrite, FlushReturn, FlushHasPage
  <2>2. DirtyHasPage'
    BY <1>7 DEF FlushWrite, DirtyHasPage, TypeOK, table
  <2> QED BY <1>7, <2>1, <2>2, SameHandles DEF FlushWrite, table, policy, clients, HandleShape
<1>8. CASE FlushWriteFails
  BY <1>8, SameHandles
     DEF FlushWriteFails, FlushGivesUp, FlushReturn, table, policy, clients, HandleShape, FlushHasPage,
         DirtyHasPage
<1>9. CASE FlushSkip
  <2>1. FlushHasPage'
    BY <1>9 DEF FlushSkip, FlushReturn, FlushHasPage
  <2> QED BY <1>9, <2>1, SameHandles
          DEF FlushSkip, table, policy, clients, HandleShape, DirtyHasPage
<1>10. CASE LogAppend
  BY <1>10, SameHandles
     DEF LogAppend, table, policy, clients, flush, HandleShape, FlushHasPage, DirtyHasPage
<1>11. CASE LogFlush
  BY <1>11, SameHandles
     DEF LogFlush, table, policy, clients, flush, HandleShape, FlushHasPage, DirtyHasPage
<1>12. CASE UNCHANGED vars
  BY <1>12, SameHandles
     DEF vars, table, policy, clients, flush, HandleShape, FlushHasPage, DirtyHasPage
<1> QED BY <1>1, <1>2, <1>3, <1>4, <1>5, <1>6, <1>7, <1>8, <1>9, <1>10, <1>11, <1>12,
           FetchHitStructure, FetchMissStructure, FetchReadFailsStructure, UnpinStructure,
           RestartStructure
        DEF Next, Use, Fetch, FlushStep

-----------------------------------------------------------------------------
THEOREM Invariance == Spec => []IInv
<1>1. Init => IInv
  BY InitTypeOK, InitStructure DEF IInv
<1>2. IInv /\ [Next]_vars => IInv'
  BY NextTypeOK, NextStructure DEF IInv
<1> QED BY <1>1, <1>2, PTL DEF Spec

\* Every variable keeps its type: no pin count goes below zero, whatever fails.
THEOREM TypeCorrect == Spec => []TypeOK
BY Invariance, PTL DEF IInv

\* page_table and the descriptors always agree.
THEOREM TableAlwaysMatches == Spec => []TableMatchesFrames
BY Invariance, PTL DEF IInv, Structure

\* A fetched page stays in its frame until it is unpinned.
THEOREM FetchedPagesStay == Spec => []HandlesStay
BY Invariance, PTL DEF IInv, Structure

\* Pin counts and the replacer's pin flags are the outstanding fetches.
THEOREM PinsAreAccounted == Spec => []PinsCountHandles
BY Invariance, PTL DEF IInv, Structure
-----------------------------------------------------------------------------
(* The write-ahead rule.  What makes it inductive is that an image in memory *)
(* the log manager takes for flushed is durable, also after a restart in     *)
(* which flushed_lsn jumps to the length of the log file.                    *)

Covered(lsn) == lsn < nextLsn /\ (lsn <= flushedLsn => lsn <= durableLsn)

WalInv ==
    /\ durableLsn < nextLsn
    /\ flushedLsn < nextLsn
    /\ \A f \in Frames : Covered(frames[f].lsn)
    /\ WriteAheadRule

LEMMA LsnIsNat ==
    ASSUME TypeOK
    PROVE  /\ \A f \in Frames : frames[f].lsn \in Nat
           /\ \A n \in PageNums : disk[n].lsn \in Nat
           /\ nextLsn \in Nat /\ flushedLsn \in Nat /\ durableLsn \in Nat
BY MaxLsnAssumption DEF TypeOK, Contents

\* flush_wal leaves an image that may go to disk, and covers what was covered.
LEMMA FlushWalCovers ==
    ASSUME TypeOK, WalInv, "sync" \notin Faults, NEW f \in Frames, FlushWal(frames[f])
    PROVE  /\ frames[f].lsn <= durableLsn'
           /\ durableLsn <= durableLsn'
           /\ durableLsn' < nextLsn' /\ flushedLsn' < nextLsn'
           /\ \A lsn \in Nat : Covered(lsn) => Covered(lsn)'
BY LsnIsNat DEF FlushWal, LogSynced, log, WalInv, Covered

LEMMA WriteBackCovers ==
    ASSUME TypeOK, WalInv, "sync" \notin Faults, NEW f \in Frames, FlushWal(frames[f]),
           WriteBack(f) \/ WriteBackFails(f)
    PROVE  /\ WriteAheadRule'
           /\ durableLsn' < nextLsn' /\ flushedLsn' < nextLsn'
           /\ \A lsn \in Nat : Covered(lsn) => Covered(lsn)'
<1>1. frames[f].lsn <= durableLsn' /\ durableLsn <= durableLsn' /\ durableLsn' \in Nat
  BY FlushWalCovers, FlushWalType
<1>2. ASSUME NEW n \in PageNums
      PROVE  disk'[n].lsn <= durableLsn'
  <2>1. disk'[n] = disk[n] \/ disk'[n].lsn = frames[f].lsn
    BY DEF WriteBack, WriteBackFails, TypeOK, Contents
  <2> QED BY <1>1, <2>1, LsnIsNat DEF WalInv, WriteAheadRule
<1> QED BY <1>2, FlushWalCovers DEF WriteAheadRule

LEMMA CleanVictimCovers ==
    ASSUME TypeOK, WalInv, "sync" \notin Faults, NEW f \in Frames, CleanVictim(f)
    PROVE  /\ WriteAheadRule'
           /\ durableLsn' < nextLsn' /\ flushedLsn' < nextLsn'
           /\ \A lsn \in Nat : Covered(lsn) => Covered(lsn)'
<1>1. CASE dirty[f]
  BY <1>1, WriteBackCovers DEF CleanVictim
<1>2. CASE ~dirty[f]
  BY <1>2 DEF CleanVictim, log, WalInv, WriteAheadRule, Covered
<1> QED BY <1>1, <1>2

LEMMA NextWalInv ==
    ASSUME IInv, TypeOK', WalInv, "sync" \notin Faults, [Next]_vars
    PROVE  WalInv'
<1> USE DEF IInv
<1>1. ASSUME UNCHANGED <<frames, disk, log>>
      PROVE  WalInv'
  BY <1>1 DEF log, WalInv, WriteAheadRule, Covered
<1>2. ASSUME NEW h \in Handles, NEW p \in PageIds, NEW f \in Frames, FetchMiss(h, p, f)
      PROVE  WalInv'
  <2>1. CleanVictim(f) /\ frames' = [frames EXCEPT ![f] = disk'[p.page_num]]
    BY <1>2 DEF FetchMiss, ReadPage
  <2>2. disk'[p.page_num].lsn <= durableLsn' /\ disk'[p.page_num].lsn \in Nat
        /\ durableLsn' \in Nat /\ nextLsn' \in Nat
    BY <2>1, CleanVictimCovers, PageNumFacts, MaxLsnAssumption
       DEF WriteAheadRule, TypeOK, Contents
  <2>3. Covered(disk[p.page_num].lsn)'
    BY <2>1, <2>2, CleanVictimCovers DEF Covered
  <2>4. \A g \in Frames : Covered(frames[g].lsn)'
    BY <2>1, <2>3, CleanVictimCovers, LsnIsNat DEF WalInv, TypeOK, Covered
  <2> QED BY <2>1, <2>4, CleanVictimCovers DEF WalInv
<1>3. ASSUME NEW f \in Frames, FlushWal(frames[f]), WriteBack(f) \/ WriteBackFails(f),
             UNCHANGED frames
      PROVE  WalInv'
  <2>1. \A g \in Frames : Covered(frames[g].lsn)'
    BY <1>3, WriteBackCovers, LsnIsNat DEF WalInv, Covered
  <2> QED BY <1>3, <2>1, WriteBackCovers DEF WalInv
<1>4. ASSUME NEW h \in Handles, NEW p \in PageIds, NEW f \in Frames, FetchReadFails(h, p, f)
      PROVE  WalInv'
  <2>1. CleanVictim(f) /\ UNCHANGED frames
    BY <1>4 DEF FetchReadFails
  <2>2. \A g \in Frames : Covered(frames[g].lsn)'
    BY <2>1, CleanVictimCovers, LsnIsNat DEF WalInv, Covered
  <2> QED BY <2>1, <2>2, CleanVictimCovers DEF WalInv
<1>5. ASSUME NEW h \in Handles, NEW d \in Data, NEW logged \in BOOLEAN, Modify(h, d, logged)
      PROVE  WalInv'
  <2> DEFINE f == hFrame[h]
  <2>1. f \in Frames
    BY <1>5, OpenHandle DEF Modify, Open, Structure, HandleShape
  <2>2. /\ UNCHANGED <<disk, flushedLsn, durableLsn>>
        /\ nextLsn' \in {nextLsn, nextLsn + 1}
        /\ \A g \in Frames : g # f => frames'[g] = frames[g]
        /\ frames'[f].lsn = frames[f].lsn
           \/ (frames'[f].lsn = nextLsn /\ nextLsn' = nextLsn + 1)
    BY <1>5, <2>1 DEF Modify, TypeOK
  <2>3. \A g \in Frames : Covered(frames[g].lsn)'
    BY <2>1, <2>2, LsnIsNat DEF WalInv, Covered
  <2> QED BY <2>2, <2>3, LsnIsNat DEF WalInv, WriteAheadRule
<1>6. CASE LogAppend
  BY <1>6, LsnIsNat DEF LogAppend, WalInv, WriteAheadRule, Covered
<1>7. CASE LogFlush
  <2>1. \A g \in Frames : Covered(frames[g].lsn)'
    BY <1>7, LsnIsNat DEF LogFlush, LogSynced, WalInv, Covered
  <2>2. WriteAheadRule'
    BY <1>7, LsnIsNat DEF LogFlush, LogSynced, WalInv, WriteAheadRule
  <2> QED BY <1>7, <2>1, <2>2, LsnIsNat DEF LogFlush, LogSynced, WalInv
<1>8. ASSUME NEW len \in 0 .. MaxLsn, NEW powerLoss \in BOOLEAN, Restart(len, powerLoss)
      PROVE  WalInv'
  <2>1. /\ nextLsn' = len + 1 /\ flushedLsn' = len /\ disk' = disk
        /\ durableLsn' \in {len, durableLsn} /\ durableLsn <= len /\ len \in Nat
        /\ \A f \in Frames : frames'[f].lsn = 0
    BY <1>8, LsnIsNat, MaxLsnAssumption DEF Restart, LogReopened, BlankPage
  <2>2. \A g \in Frames : Covered(frames[g].lsn)'
    BY <2>1, LsnIsNat DEF Covered
  <2>3. WriteAheadRule'
    BY <2>1, LsnIsNat DEF WalInv, WriteAheadRule
  <2> QED BY <2>1, <2>2, <2>3, LsnIsNat DEF WalInv
<1>9. ASSUME NEW h \in Handles, NEW p \in PageIds, NEW f \in Frames, FetchWriteFails(h, p, f)
      PROVE  WalInv'
  BY <1>3, <1>9 DEF FetchWriteFails
<1>10. CASE FlushWrite \/ FlushWriteFails
  BY <1>3, <1>10 DEF FlushWrite, FlushWriteFails, MustWrite
<1> QED BY <1>1, <1>2, <1>4, <1>5, <1>6, <1>7, <1>8, <1>9, <1>10
        DEF Next, Use, Fetch, FlushStep, FetchHit, Latch, Unlatch, Unpin, FlushPageBegin,
            FlushAllBegin, FlushSkip, vars

\* A page image is on disk only if the log is up to its sequence number, through
\* evictions, flushes and restarts, as long as no sync of the log fails.
THEOREM WriteAhead ==
    ASSUME "sync" \notin Faults
    PROVE  Spec => []WriteAheadRule
<1>1. Init => WalInv
  BY DEF Init, WalInv, Covered, WriteAheadRule, BlankPage, ZeroPage
<1>2. IInv /\ IInv' /\ WalInv /\ [Next]_vars => WalInv'
  BY NextWalInv DEF IInv
<1>3. WalInv => WriteAheadRule
  BY DEF WalInv
<1> QED BY <1>1, <1>2, <1>3, Invariance, PTL DEF Spec
-----------------------------------------------------------------------------
(* Stranded frames.  A frame with a client is tracked, so the unpin that makes  *)
(* it free leaves it where evict finds it.                                     *)

PinnedAreTracked == pinned \subseteq tracked

LEMMA NextPinnedAreTracked ==
    ASSUME IInv, PinnedAreTracked, [Next]_vars
    PROVE  PinnedAreTracked'
<1> USE DEF PinnedAreTracked
<1>1. ASSUME NEW h \in Handles, NEW p \in PageIds, NEW f \in Frames,
             FetchWriteFails(h, p, f) \/ FetchReadFails(h, p, f)
      PROVE  PinnedAreTracked'
  BY <1>1, VictimIsFree DEF FetchWriteFails, FetchReadFails, Misses
<1>2. ASSUME NEW f \in Frames, Pin(f) \/ LetGo(f)
      PROVE  PinnedAreTracked'
  BY <1>2 DEF Pin, LetGo, policy
<1>3. ASSUME NEW h \in Handles, NEW isDirty \in BOOLEAN, Unpin(h, isDirty)
      PROVE  PinnedAreTracked'
  BY <1>2, <1>3, OpenHandle DEF Unpin
<1>4. ASSUME NEW h \in Handles, NEW p \in PageIds, FetchHit(h, p)
      PROVE  PinnedAreTracked'
  BY <1>4, <1>2 DEF FetchHit, PinFor, IInv, TypeOK
<1>5. ASSUME NEW len \in 0 .. MaxLsn, NEW powerLoss \in BOOLEAN, Restart(len, powerLoss)
      PROVE  PinnedAreTracked'
  BY <1>5 DEF Restart
<1> QED BY <1>1, <1>2, <1>3, <1>4, <1>5
        DEF Next, Use, Fetch, FlushStep, FetchMiss, PinFor, Latch, Modify, Unlatch,
            FlushPageBegin, FlushAllBegin, FlushWrite, FlushWriteFails, FlushSkip,
            LogAppend, LogFlush, vars, policy

\* What a step that strands a frame looks like.
Strands(f) == f \in Stranded' /\ f \notin Stranded
OnlyTheFetchFailed(f) ==
    /\ UNCHANGED <<clients, pinCount, flush>>
    /\ \E p \in PageIds : pageTable[p] = NoFrame /\ IsVictim(f)

LEMMA NextStrands ==
    ASSUME IInv, PinnedAreTracked, [Next]_vars, NEW f \in Frames, Strands(f)
    PROVE  OnlyTheFetchFailed(f)
<1> USE DEF IInv
<1>1. ASSUME UNCHANGED <<pageId, pinCount, tracked>>
      PROVE  FALSE
  BY <1>1 DEF Strands, Stranded
<1>2. ASSUME NEW h \in Handles, NEW p \in PageIds, FetchHit(h, p)
      PROVE  FALSE
  <2>1. /\ \A g \in Frames : pinCount'[g] = pinCount[g] \/ pinCount'[g] = pinCount[g] + 1
        /\ UNCHANGED pageId /\ tracked \subseteq tracked'
    BY <1>2, FrameFacts DEF FetchHit, PinFor, Pin, TypeOK, table
  <2> QED BY <2>1 DEF Strands, Stranded, TypeOK
<1>3. ASSUME NEW h \in Handles, NEW p \in PageIds, NEW g \in Frames, FetchMiss(h, p, g)
      PROVE  FALSE
  <2>1. Remap(p, g) /\ Pin(g)
    BY <1>3 DEF FetchMiss, PinFor
  <2>2. CASE f = g
    BY <2>1, <2>2 DEF Pin, Strands, Stranded, TypeOK
  <2>3. CASE f # g
    BY <2>1, <2>3 DEF Remap, Pin, Strands, Stranded, TypeOK
  <2> QED BY <2>2, <2>3
<1>4. ASSUME NEW h \in Handles, NEW p \in PageIds, NEW g \in Frames,
             FetchWriteFails(h, p, g) \/ FetchReadFails(h, p, g)
      PROVE  OnlyTheFetchFailed(f)
  <2>1. /\ UNCHANGED <<clients, pinCount, flush>> /\ tracked' = tracked \ {g}
        /\ pageTable[p] = NoFrame /\ IsVictim(g)
        /\ f = g \/ pageId'[f] = pageId[f]
    BY <1>4 DEF FetchWriteFails, FetchReadFails, Misses, Remap, TypeOK, table
  <2>2. f = g
    BY <2>1 DEF Strands, Stranded
  <2> QED BY <2>1, <2>2 DEF OnlyTheFetchFailed
<1>5. ASSUME NEW h \in Handles, NEW isDirty \in BOOLEAN, Unpin(h, isDirty)
      PROVE  FALSE
  <2> DEFINE g == pageTable[hPage[h]]
  <2>1. g \in Frames /\ g \in pinned
    BY <1>5, OpenHandle DEF Unpin, Structure, PinsCountHandles
  <2>2. LetGo(g) /\ UNCHANGED pageId
    BY <1>5 DEF Unpin, table
  <2>3. g \in tracked /\ tracked \subseteq tracked'
    BY <2>1, <2>2 DEF LetGo, PinnedAreTracked, policy
  <2>4. CASE f = g
    BY <2>3, <2>4 DEF Strands, Stranded
  <2>5. CASE f # g
    BY <2>2, <2>3, <2>5 DEF LetGo, Strands, Stranded, TypeOK
  <2> QED BY <2>4, <2>5
<1>6. ASSUME NEW len \in 0 .. MaxLsn, NEW powerLoss \in BOOLEAN, Restart(len, powerLoss)
      PROVE  FALSE
  BY <1>6 DEF Restart, Strands, Stranded
<1> QED BY <1>1, <1>2, <1>3, <1>4, <1>5, <1>6
        DEF Next, Use, Fetch, FlushStep, Latch, Modify, Unlatch, FlushPageBegin,
            FlushAllBegin, FlushWrite, FlushWriteFails, FlushSkip, LogAppend, LogFlush,
            vars, table, policy

\* Only a fetch_page that returns an error takes a frame out of circulation.
THEOREM FramesStayUsable == Spec => OnlyFailedFetchesStrand
<1>1. Init => PinnedAreTracked
  BY DEF Init, PinnedAreTracked
<1>2. IInv /\ PinnedAreTracked /\ [Next]_vars => PinnedAreTracked'
  BY NextPinnedAreTracked
<1>3. IInv /\ PinnedAreTracked /\ [Next]_vars
          => [\A f \in Frames :
                  f \in Stranded' /\ f \notin Stranded =>
                      /\ UNCHANGED <<clients, pinCount, flush>>
                      /\ \E p \in PageIds : pageTable[p] = NoFrame /\ IsVictim(f)]_vars
  BY NextStrands DEF Strands, OnlyTheFetchFailed
<1> QED BY <1>1, <1>2, <1>3, Invariance, PTL DEF Spec, OnlyFailedFetchesStrand

-----------------------------------------------------------------------------
(* The pool implements PageStore when reads of the database file succeed,   *)
(* writes to it are done or not done, and all pages are of one file.        *)

Reliable == SingleFile /\ "read" \notin Faults /\ "tear" \notin Faults

\* Frame f holds what its page is on disk, or the difference is on record.
InStep(f) ==
    pageId[f] # NoPage /\ frames[f] # disk[Number(f)]
        => dirty[f] \/ \E h \in Holders(f) : wrote[h]

LEMMA DistinctNumbers ==
    ASSUME IInv, SingleFile, NEW f \in Frames, NEW g \in Frames,
           pageId[f] # NoPage, pageId[g] # NoPage, Number(f) = Number(g)
    PROVE  f = g
<1>1. pageId[f] \in PageIds /\ pageId[g] \in PageIds
  BY DEF IInv, TypeOK
<1>2. pageId[f] = pageId[g]
  BY <1>1 DEF SingleFile, Number
<1> QED BY <1>1, <1>2 DEF IInv, Structure, TableMatchesFrames

LEMMA NumberInPages ==
    ASSUME TypeOK, NEW f \in Frames, pageId[f] # NoPage
    PROVE  Number(f) \in PageNums /\ pageId[f] \in PageIds
BY PageNumFacts DEF TypeOK, Number

\* The write-back of a frame: its own page is in step afterwards, if it was
\* written, and the others are where they were.
LEMMA WriteBackInStep ==
    ASSUME IInv, SingleFile, "tear" \notin Faults, NEW f \in Frames, pageId[f] # NoPage,
           WriteBack(f) \/ WriteBackFails(f)
    PROVE  /\ disk' = disk \/ WriteBack(f)
           /\ WriteBack(f) => disk'[Number(f)] = frames[f]
           /\ disk'[Number(f)] \in {disk[Number(f)], frames[f]}
           /\ \A g \in Frames \ {f} :
                  pageId[g] # NoPage => disk'[Number(g)] = disk[Number(g)]
<1>1. disk' = disk \/ WriteBack(f)
  BY DEF WriteBackFails
<1>2. Number(f) \in PageNums /\ disk \in [PageNums -> Contents]
  BY NumberInPages DEF IInv, TypeOK
<1>3. ASSUME NEW g \in Frames \ {f}, pageId[g] # NoPage
      PROVE  Number(g) # Number(f)
  BY <1>3, DistinctNumbers
<1>4. WriteBack(f) => /\ disk'[Number(f)] = frames[f]
                      /\ \A g \in Frames \ {f} :
                             pageId[g] # NoPage => disk'[Number(g)] = disk[Number(g)]
  BY <1>2, <1>3 DEF WriteBack
<1> QED BY <1>1, <1>4

\* A frame the step leaves alone stays in step.
LEMMA StaysInStep ==
    ASSUME NEW g \in Frames, InStep(g), pageId'[g] = pageId[g], frames'[g] = frames[g],
           pageId[g] # NoPage => disk'[Number(g)] = disk[Number(g)],
           dirty[g] => dirty'[g],
           \A h \in Holders(g) : wrote[h] => h \in Holders(g)' /\ wrote'[h]
    PROVE  InStep(g)'
BY DEF InStep, Number

LEMMA NextInStep ==
    ASSUME IInv, IInv', Reliable, CleanFramesMatchDisk, [Next]_vars
    PROVE  CleanFramesMatchDisk'
<1> USE DEF IInv
<1>1. \A g \in Frames : InStep(g)
  BY DEF CleanFramesMatchDisk, InStep
<1> SUFFICES ASSUME NEW g \in Frames PROVE InStep(g)'
  BY DEF CleanFramesMatchDisk, InStep
<1>2. ASSUME UNCHANGED <<pageId, frames, disk, dirty, hFrame, wrote>>
      PROVE  InStep(g)'
  BY <1>1, <1>2 DEF InStep, Number, Holders
<1>3. ASSUME NEW h \in Handles, NEW p \in PageIds, FetchHit(h, p)
      PROVE  InStep(g)'
  <2>1. hFrame[h] = NoFrame
    BY <1>3 DEF FetchHit, Open, Structure, HandleShape
  <2>2. \A k \in Holders(g) : k \in Holders(g)'
    BY <1>3, <2>1, FrameFacts DEF FetchHit, PinFor, Holders, TypeOK
  <2> QED BY <1>1, <1>3, <2>2, StaysInStep DEF FetchHit, table
<1>4. ASSUME NEW h \in Handles, NEW p \in PageIds, NEW f \in Frames, FetchMiss(h, p, f)
      PROVE  InStep(g)'
  <2>1. /\ ~Open(h) /\ IsVictim(f) /\ CleanVictim(f) /\ Remap(p, f) /\ PinFor(h, p, f)
        /\ frames' = [frames EXCEPT ![f] = disk'[p.page_num]] /\ UNCHANGED wrote
    BY <1>4 DEF FetchMiss, ReadPage, Misses
  <2>2. CASE g = f
    BY <2>1, <2>2 DEF InStep, Number, Remap, TypeOK
  <2>3. CASE g # f
    <3>1. hFrame[h] = NoFrame
      BY <2>1 DEF Open, Structure, HandleShape
    <3>2. \A k \in Holders(g) : k \in Holders(g)'
      BY <2>1, <3>1, FrameFacts DEF PinFor, Holders, TypeOK
    <3>3. pageId[g] # NoPage => disk'[Number(g)] = disk[Number(g)]
      <4>1. CASE dirty[f]
        <5>1. pageId[f] # NoPage
          BY <4>1 DEF Structure, DirtyHasPage
        <5> QED BY <2>1, <2>3, <4>1, <5>1, WriteBackInStep DEF CleanVictim, Reliable
      <4>2. CASE ~dirty[f]
        BY <2>1, <4>2 DEF CleanVictim
      <4> QED BY <4>1, <4>2
    <3>4. pageId'[g] = pageId[g] /\ frames'[g] = frames[g] /\ dirty'[g] = dirty[g]
      BY <2>1, <2>3 DEF Remap, CleanVictim, TypeOK
    <3> QED BY <1>1, <2>1, <3>2, <3>3, <3>4, StaysInStep
  <2> QED BY <2>2, <2>3
<1>5. ASSUME NEW f \in Frames, pageId[f] # NoPage, WriteBack(f) \/ WriteBackFails(f),
             UNCHANGED <<pageId, frames, hFrame, wrote>>,
             \A k \in Frames \ {f} : dirty'[k] = dirty[k],
             WriteBack(f) \/ dirty'[f] = dirty[f]
      PROVE  InStep(g)'
  <2>1. Holders(g)' = Holders(g)
    BY <1>5 DEF Holders
  <2>2. CASE g = f
    <3>1. CASE WriteBack(f)
      BY <1>5, <2>2, <3>1, WriteBackInStep DEF InStep, Number, Reliable
    <3>2. CASE ~WriteBack(f)
      BY <1>1, <1>5, <2>1, <2>2, <3>2, WriteBackInStep DEF InStep, Number, Reliable
    <3> QED BY <3>1, <3>2
  <2>3. CASE g # f
    BY <1>1, <1>5, <2>1, <2>3, WriteBackInStep, StaysInStep DEF Reliable
  <2> QED BY <2>2, <2>3
<1>6. ASSUME NEW h \in Handles, NEW p \in PageIds, NEW f \in Frames, FetchWriteFails(h, p, f)
      PROVE  InStep(g)'
  BY <1>5, <1>6 DEF FetchWriteFails, table, clients, Structure, DirtyHasPage
<1>7. ASSUME NEW h \in Handles, NEW d \in Data, NEW logged \in BOOLEAN, Modify(h, d, logged)
      PROVE  InStep(g)'
  <2>1. hFrame[h] \in Frames
    BY <1>7, OpenHandle DEF Modify, Open, Structure, HandleShape
  <2>2. /\ UNCHANGED <<pageId, disk, dirty, hFrame>>
        /\ wrote' = [wrote EXCEPT ![h] = TRUE]
        /\ \A k \in Frames \ {hFrame[h]} : frames'[k] = frames[k]
    BY <1>7, <2>1 DEF Modify, TypeOK, table
  <2>3. Holders(g)' = Holders(g) /\ \A k \in Handles : wrote[k] => wrote'[k]
    BY <2>2 DEF Holders, TypeOK
  <2>4. CASE g = hFrame[h]
    <3>1. h \in Holders(g)' /\ wrote'[h]
      BY <2>2, <2>4 DEF Holders, TypeOK
    <3> QED BY <3>1 DEF InStep
  <2>5. CASE g # hFrame[h]
    BY <1>1, <2>2, <2>3, <2>5 DEF InStep, Number, Holders
  <2> QED BY <2>4, <2>5
<1>8. ASSUME NEW h \in Handles, NEW isDirty \in BOOLEAN, Unpin(h, isDirty)
      PROVE  InStep(g)'
  <2>1. Open(h) /\ pageTable[hPage[h]] = hFrame[h] /\ hFrame[h] \in Frames
    BY <1>8, OpenHandle DEF Unpin
  <2>2. /\ UNCHANGED <<pageId, frames, disk>>
        /\ dirty' = [dirty EXCEPT ![hFrame[h]] = @ \/ isDirty]
        /\ wrote[h] => isDirty
        /\ hFrame' = [hFrame EXCEPT ![h] = NoFrame]
        /\ wrote' = [wrote EXCEPT ![h] = FALSE]
    BY <1>8, <2>1 DEF Unpin, MarkDirty, table
  <2>3. dirty[g] => dirty'[g]
    BY <2>2 DEF TypeOK
  <2>4. CASE g = hFrame[h] /\ isDirty
    BY <2>1, <2>2, <2>4 DEF InStep, TypeOK
  <2>5. CASE g # hFrame[h] \/ ~isDirty
    <3>1. \A k \in Holders(g) : wrote[k] => k \in Holders(g)' /\ wrote'[k]
      BY <2>2, <2>5 DEF Holders, TypeOK
    <3> QED BY <1>1, <2>2, <2>3, <3>1, StaysInStep
  <2> QED BY <2>4, <2>5
<1>9. CASE FlushWrite \/ FlushWriteFails
  <2>1. flushFrame \in Frames /\ pageId[flushFrame] # NoPage
    BY <1>9 DEF FlushWrite, FlushWriteFails, MustWrite, Structure, FlushHasPage, TypeOK
  <2> QED BY <1>5, <1>9, <2>1 DEF FlushWrite, FlushWriteFails, table, clients, TypeOK
<1>10. ASSUME NEW len \in 0 .. MaxLsn, NEW powerLoss \in BOOLEAN, Restart(len, powerLoss)
       PROVE  InStep(g)'
  BY <1>10 DEF Restart, InStep
<1>11. ASSUME NEW h \in Handles, NEW p \in PageIds, NEW f \in Frames, FetchReadFails(h, p, f)
       PROVE  FALSE
  BY <1>11 DEF FetchReadFails, Reliable
<1> QED BY <1>2, <1>3, <1>4, <1>6, <1>7, <1>8, <1>9, <1>10, <1>11
        DEF Next, Use, Fetch, FlushStep, Latch, Unlatch, FlushPageBegin, FlushAllBegin,
            FlushSkip, LogAppend, LogFlush, vars, table, clients

\* A clean frame is what its page is on disk, so evicting it loses nothing.
THEOREM CleanFramesMatch ==
    ASSUME Reliable
    PROVE  Spec => []CleanFramesMatchDisk
<1>1. Init => CleanFramesMatchDisk
  BY DEF Init, CleanFramesMatchDisk
<1>2. IInv /\ IInv' /\ CleanFramesMatchDisk /\ [Next]_vars => CleanFramesMatchDisk'
  BY NextInStep
<1> QED BY <1>1, <1>2, Invariance, PTL DEF Spec
-----------------------------------------------------------------------------
(* flush_all_pages. *)

\* Frame f is on disk but for what a client that still has it fetched changed.
Stored(f) ==
    pageId[f] # NoPage /\ frames[f] # disk[Number(f)] => \E h \in Holders(f) : wrote[h]

LEMMA NextFlushAll ==
    ASSUME IInv, Reliable, CleanFramesMatchDisk, FlushAllStores, [Next]_vars
    PROVE  FlushAllStores'
<1> USE DEF IInv
<1>1. SUFFICES ASSUME flushKind' = "all", NEW g \in Frames, g < flushFrame'
               PROVE  Stored(g)'
  BY DEF FlushAllStores, Stored
<1>2. flushKind = "all" /\ g < flushFrame => Stored(g)
  BY DEF FlushAllStores, Stored
<1>3. ASSUME UNCHANGED <<pageId, frames, disk, hFrame, wrote, flush>>
      PROVE  Stored(g)'
  BY <1>1, <1>2, <1>3 DEF Stored, Number, Holders, flush
<1>4. CASE flushKind = "idle"
  <2>1. FlushAllBegin \/ UNCHANGED flushKind
    BY <1>1, <1>4 DEF Next, Use, Fetch, FlushStep, FetchHit, FetchMiss, FetchWriteFails,
       FetchReadFails, Latch, Modify, Unlatch, Unpin, FlushPageBegin, FlushWrite,
       FlushWriteFails, FlushSkip, FlushGivesUp, FlushReturn, MustWrite, LogAppend,
       LogFlush, Restart, vars, flush
  <2>2. flushFrame' = 0
    BY <1>1, <1>4, <2>1 DEF FlushAllBegin
  <2> QED BY <1>1, <2>2 DEF Frames
<1>5. ASSUME NEW h \in Handles, NEW d \in Data, NEW logged \in BOOLEAN, Modify(h, d, logged)
      PROVE  Stored(g)'
  <2>1. hFrame[h] \in Frames
    BY <1>5, OpenHandle DEF Modify, Open, Structure, HandleShape
  <2>2. /\ UNCHANGED <<pageId, disk, hFrame, flush>>
        /\ wrote' = [wrote EXCEPT ![h] = TRUE]
        /\ \A k \in Frames \ {hFrame[h]} : frames'[k] = frames[k]
    BY <1>5, <2>1 DEF Modify, TypeOK, table
  <2>3. Holders(g)' = Holders(g) /\ \A k \in Handles : wrote[k] => wrote'[k]
    BY <2>2 DEF Holders, TypeOK
  <2>4. CASE g = hFrame[h]
    <3>1. h \in Holders(g)' /\ wrote'[h]
      BY <2>2, <2>4 DEF Holders, TypeOK
    <3> QED BY <3>1 DEF Stored
  <2>5. CASE g # hFrame[h]
    BY <1>1, <1>2, <2>2, <2>3, <2>5 DEF Stored, Number, Holders, flush
  <2> QED BY <2>4, <2>5
<1>6. CASE FlushWrite
  <2>1. /\ flushKind = "all" /\ flushFrame' = flushFrame + 1 /\ flushFrame \in Frames
        /\ pageId[flushFrame] # NoPage /\ WriteBack(flushFrame)
        /\ UNCHANGED <<pageId, frames, hFrame, wrote>>
    BY <1>1, <1>6 DEF FlushWrite, MustWrite, FlushReturn, table, clients
  <2>2. Holders(g)' = Holders(g)
    BY <2>1 DEF Holders
  <2>3. CASE g = flushFrame
    BY <2>1, <2>3, WriteBackInStep DEF Stored, Number, Reliable
  <2>4. CASE g # flushFrame
    <3>1. g < flushFrame
      BY <1>1, <2>1, <2>4 DEF Frames
    <3> QED BY <1>2, <2>1, <2>2, <2>4, <3>1, WriteBackInStep DEF Stored, Number, Reliable
  <2> QED BY <2>3, <2>4
<1>7. CASE FlushSkip
  <2>1. /\ flushKind = "all" /\ ~MustWrite /\ flushFrame \in Frames
        /\ flushFrame' = flushFrame + 1 /\ UNCHANGED <<pageId, frames, disk, hFrame, wrote>>
    BY <1>1, <1>7 DEF FlushSkip, FlushReturn, table, clients
  <2>2. CASE g = flushFrame
    BY <2>1, <2>2 DEF MustWrite, CleanFramesMatchDisk, Stored, Number, Holders
  <2>3. CASE g # flushFrame
    <3>1. g < flushFrame
      BY <1>1, <2>1, <2>3 DEF Frames
    <3> QED BY <1>2, <2>1, <3>1 DEF Stored, Number, Holders
  <2> QED BY <2>2, <2>3
<1>8. ASSUME flushKind' = "idle"
      PROVE  FALSE
  BY <1>1, <1>8
<1> QED BY <1>3, <1>4, <1>5, <1>6, <1>7, <1>8
        DEF Next, Use, Fetch, FlushStep, FetchHit, FetchMiss, FetchWriteFails,
            FetchReadFails, Misses, Latch, Unlatch, Unpin, FlushPageBegin, FlushAllBegin,
            FlushWriteFails, FlushGivesUp, FlushReturn, LogAppend, LogFlush, Restart, vars,
            table, clients, TypeOK

\* When flush_all_pages has passed a frame, that frame is on disk.
THEOREM FlushAllIsComplete ==
    ASSUME Reliable
    PROVE  Spec => []FlushAllStores
<1>1. Init => FlushAllStores
  BY DEF Init, FlushAllStores
<1>2. IInv /\ CleanFramesMatchDisk /\ FlushAllStores /\ [Next]_vars => FlushAllStores'
  BY NextFlushAll
<1> QED BY <1>1, <1>2, Invariance, CleanFramesMatch, PTL DEF Spec
-----------------------------------------------------------------------------
(* The refinement of PageStore. *)

LEMMA CurrentCached ==
    ASSUME IInv, SingleFile, NEW f \in Frames, pageId[f] # NoPage
    PROVE  Number(f) \in PageNums /\ Current[Number(f)] = frames[f]
<1> DEFINE IsFrame(g) == pageId[g] # NoPage /\ Number(g) = Number(f)
<1>1. Number(f) \in PageNums
  BY NumberInPages DEF IInv
<1>2. Cached(Number(f))
  BY DEF Cached
<1>3. FrameOf(Number(f)) = f
  <2>1. FrameOf(Number(f)) = CHOOSE g \in Frames : IsFrame(g)
    BY DEF FrameOf
  <2>2. IsFrame(f) /\ \A g \in Frames : IsFrame(g) => g = f
    BY DistinctNumbers
  <2> HIDE DEF IsFrame
  <2> QED BY <2>1, <2>2
<1> QED BY <1>1, <1>2, <1>3 DEF Current

\* The same of the next state.
CachedAreCurrent ==
    \A f \in Frames : pageId[f] # NoPage => Current[Number(f)] = frames[f]

LEMMA CurrentCachedNext == IInv' /\ SingleFile => CachedAreCurrent'
<1>1. IInv /\ SingleFile => CachedAreCurrent
  BY CurrentCached DEF CachedAreCurrent
<1>2. SingleFile => SingleFile'
  BY DEF SingleFile
<1> QED BY <1>1, <1>2, PTL

LEMMA CurrentUncached ==
    ASSUME NEW n \in PageNums, \A f \in Frames : pageId[f] # NoPage => Number(f) # n
    PROVE  Current[n] = disk[n]
BY DEF Current, Cached

LEMMA SameCurrent ==
    ASSUME UNCHANGED <<pageId, frames, disk>>
    PROVE  Current' = Current
BY DEF Current, Cached, FrameOf, Number

LEMMA SameWriting ==
    ASSUME UNCHANGED latch,
           \A h \in Handles : latch[h] = "write" => hPage'[h] = hPage[h]
    PROVE  Writing' = Writing
BY DEF Writing

\* A fetch of a closed handle, and an unpin, leave the write guards alone.
LEMMA PinForKeepsWriting ==
    ASSUME IInv, NEW h \in Handles, ~Open(h), NEW p, NEW f, PinFor(h, p, f), UNCHANGED latch
    PROVE  Writing' = Writing
<1>1. latch[h] # "write"
  BY DEF IInv, Structure, HandleShape, Open
<1>2. \A g \in Handles \ {h} : hPage'[g] = hPage[g]
  BY DEF PinFor, IInv, TypeOK
<1> QED BY <1>1, <1>2, SameWriting

LEMMA UnpinKeepsWriting ==
    ASSUME IInv, NEW h \in Handles, NEW isDirty \in BOOLEAN, Unpin(h, isDirty)
    PROVE  Writing' = Writing
<1>1. latch[h] # "write" /\ UNCHANGED latch
  BY DEF Unpin
<1>2. \A g \in Handles \ {h} : hPage'[g] = hPage[g]
  BY DEF Unpin, IInv, TypeOK
<1> QED BY <1>1, <1>2, SameWriting

\* The RwLock of a frame: a writer is alone.
WritersAreAlone ==
    \A g, h \in Handles :
        g # h /\ latch[h] = "write" /\ hFrame[g] = hFrame[h] => latch[g] = "none"

LEMMA NextWritersAreAlone ==
    ASSUME IInv, WritersAreAlone, [Next]_vars
    PROVE  WritersAreAlone'
<1> USE DEF IInv
<1>1. ASSUME NEW h \in Handles, NEW mode \in {"read", "write"}, Latch(h, mode)
      PROVE  WritersAreAlone'
  <2>1. hFrame[h] \in Frames /\ UNCHANGED hFrame
    BY <1>1, OpenHandle DEF Latch
  <2>2. \A g \in Handles : hFrame[g] = hFrame[h] =>
            latch[g] # "write" /\ (mode = "write" => latch[g] = "none")
    BY <1>1, <2>1 DEF Latch, Unlatched, NoWriter, Holders
  <2>3. latch'[h] = mode /\ \A g \in Handles \ {h} : latch'[g] = latch[g]
    BY <1>1 DEF Latch, TypeOK
  <2> QED BY <2>1, <2>2, <2>3 DEF WritersAreAlone
<1>2. ASSUME NEW h \in Handles, Unlatch(h)
      PROVE  WritersAreAlone'
  BY <1>2 DEF Unlatch, WritersAreAlone, TypeOK
<1>3. ASSUME NEW h \in Handles, NEW p \in PageIds, NEW f \in Frames, ~Open(h), PinFor(h, p, f),
             UNCHANGED latch
      PROVE  WritersAreAlone'
  <2>1. latch[h] = "none"
    BY <1>3 DEF Open, Structure, HandleShape
  <2>2. \A g \in Handles \ {h} : hFrame'[g] = hFrame[g]
    BY <1>3 DEF PinFor, TypeOK
  <2> QED BY <1>3, <2>1, <2>2 DEF WritersAreAlone
<1>4. ASSUME NEW h \in Handles, NEW p \in PageIds, FetchHit(h, p)
      PROVE  WritersAreAlone'
  BY <1>3, <1>4 DEF FetchHit, TypeOK
<1>5. ASSUME NEW h \in Handles, NEW p \in PageIds, NEW f \in Frames, FetchMiss(h, p, f)
      PROVE  WritersAreAlone'
  BY <1>3, <1>5 DEF FetchMiss, Misses
<1>6. ASSUME NEW h \in Handles, NEW isDirty \in BOOLEAN, Unpin(h, isDirty)
      PROVE  WritersAreAlone'
  <2>1. latch[h] = "none" /\ UNCHANGED latch
    BY <1>6 DEF Unpin
  <2>2. \A g \in Handles \ {h} : hFrame'[g] = hFrame[g]
    BY <1>6 DEF Unpin, TypeOK
  <2> QED BY <2>1, <2>2 DEF WritersAreAlone
<1>7. ASSUME NEW len \in 0 .. MaxLsn, NEW powerLoss \in BOOLEAN, Restart(len, powerLoss)
      PROVE  WritersAreAlone'
  BY <1>7 DEF Restart, WritersAreAlone
<1>8. ASSUME UNCHANGED <<latch, hFrame>>
      PROVE  WritersAreAlone'
  BY <1>8 DEF WritersAreAlone
<1> QED BY <1>1, <1>2, <1>4, <1>5, <1>6, <1>7, <1>8
        DEF Next, Use, Fetch, FlushStep, FetchWriteFails, FetchReadFails, Modify, FlushWrite,
            FlushWriteFails, FlushPageBegin, FlushAllBegin, FlushSkip, LogAppend, LogFlush,
            vars, clients

\* No two open handles of one page have different frames: with one file, the
\* guard of a frame is the guard of its page.
LEMMA LatchImplements ==
    ASSUME IInv, WritersAreAlone, SingleFile, NEW h \in Handles,
           NEW mode \in {"read", "write"}, Latch(h, mode)
    PROVE  [Store!Next]_(Store!storeVars)
<1> USE DEF IInv
<1> DEFINE n == hPage[h].page_num
<1>1. /\ hPage[h] \in PageIds /\ hFrame[h] \in Frames
      /\ UNCHANGED <<pageId, frames, disk, hPage>>
      /\ n \in PageNums
  BY OpenHandle, PageNumFacts DEF Latch, table
<1>2. Current' = Current /\ disk' = disk
  BY <1>1, SameCurrent
<1>3. latch'[h] = mode /\ latch[h] = "none" /\ \A g \in Handles \ {h} : latch'[g] = latch[g]
  BY DEF Latch, TypeOK
<1>4. CASE mode = "read"
  <2>1. Writing' = Writing
    BY <1>1, <1>3, <1>4 DEF Writing
  <2> QED BY <1>2, <2>1 DEF Store!storeVars
<1>5. CASE mode = "write"
  <2>1. n \notin Writing
    <3> SUFFICES ASSUME NEW g \in Handles, latch[g] = "write", hPage[g].page_num = n
                 PROVE  FALSE
      BY DEF Writing
    <3>1. Open(g)
      BY DEF Open, Structure, HandleShape
    <3>2. hPage[g] = hPage[h]
      BY <1>1, <3>1, OpenHandle DEF SingleFile
    <3>3. hFrame[g] = hFrame[h]
      BY <3>1, <3>2, OpenHandle DEF Latch
    <3> QED BY <1>5, <3>3 DEF Latch, Unlatched, Holders
  <2>2. Writing' = Writing \cup {n}
    BY <1>1, <1>3, <1>5 DEF Writing
  <2> QED BY <1>1, <1>2, <2>1, <2>2 DEF Store!Next, Store!Take
<1> QED BY <1>4, <1>5

LEMMA UnlatchImplements ==
    ASSUME IInv, WritersAreAlone, SingleFile, NEW h \in Handles, Unlatch(h)
    PROVE  [Store!Next]_(Store!storeVars)
<1> USE DEF IInv
<1> DEFINE n == hPage[h].page_num
<1>1. UNCHANGED <<pageId, frames, disk, hPage>>
  BY DEF Unlatch, table
<1>2. Current' = Current /\ disk' = disk
  BY <1>1, SameCurrent
<1>3. latch'[h] = "none" /\ \A g \in Handles \ {h} : latch'[g] = latch[g]
  BY DEF Unlatch, TypeOK
<1>4. CASE latch[h] # "write"
  <2>1. Writing' = Writing
    BY <1>1, <1>3, <1>4 DEF Writing
  <2> QED BY <1>2, <2>1 DEF Store!storeVars
<1>5. CASE latch[h] = "write"
  <2>1. Open(h)
    BY <1>5 DEF Open, Structure, HandleShape
  <2>2. n \in PageNums /\ n \in Writing
    BY <1>5, <2>1, OpenHandle, PageNumFacts DEF Writing
  <2>3. ASSUME NEW g \in Handles \ {h}, latch[g] = "write"
        PROVE  hPage[g].page_num # n
    <3>1. Open(g)
      BY <2>3 DEF Open, Structure, HandleShape
    <3>2. hFrame[g] # hFrame[h]
      BY <1>5, <2>3 DEF WritersAreAlone
    <3>3. hPage[g] # hPage[h]
      BY <2>1, <3>1, <3>2, OpenHandle
    <3> QED BY <2>1, <3>1, <3>3, OpenHandle DEF SingleFile
  <2>4. Writing' = Writing \ {n}
    BY <1>1, <1>3, <2>3 DEF Writing
  <2> QED BY <1>2, <2>2, <2>4 DEF Store!Next, Store!Drop
<1> QED BY <1>4, <1>5

\* What a write-back does to the two images.
LEMMA WriteBackIsSync ==
    ASSUME IInv, IInv', SingleFile, NEW f \in Frames, pageId[f] # NoPage, WriteBack(f),
           UNCHANGED <<pageId, frames, hPage, latch>>
    PROVE  Store!Sync(Number(f))
<1>1. Number(f) \in PageNums /\ Current[Number(f)] = frames[f]
  BY CurrentCached
<1>2. disk' = [disk EXCEPT ![Number(f)] = Current[Number(f)]]
  BY <1>1 DEF WriteBack
<1>3. ASSUME NEW n \in PageNums
      PROVE  Current'[n] = Current[n]
  <2>1. CASE \E g \in Frames : pageId[g] # NoPage /\ Number(g) = n
    <3>1. PICK g \in Frames : pageId[g] # NoPage /\ Number(g) = n
      BY <2>1
    <3>2. Current[n] = frames[g]
      BY <3>1, CurrentCached
    <3>3. (Current[Number(g)] = frames[g])'
      BY <3>1, CurrentCachedNext DEF CachedAreCurrent
    <3>4. Number(g)' = n
      BY <3>1 DEF Number
    <3> QED BY <3>2, <3>3, <3>4
  <2>2. CASE \A g \in Frames : pageId[g] # NoPage => Number(g) # n
    <3>1. n # Number(f)
      BY <2>2
    <3>2. Current[n] = disk[n]
      BY <2>2, CurrentUncached
    <3>3. Current'[n] = disk'[n]
      BY <2>2 DEF Current, Cached, Number
    <3> QED BY <3>1, <3>2, <3>3 DEF WriteBack, IInv, TypeOK
  <2> QED BY <2>1, <2>2
<1>4. Current' = Current /\ Writing' = Writing
  BY <1>3, SameWriting DEF Current
<1> QED BY <1>2, <1>4 DEF Store!Sync

LEMMA FetchMissImplements ==
    ASSUME IInv, IInv', Reliable, CleanFramesMatchDisk,
           NEW h \in Handles, NEW p \in PageIds, NEW f \in Frames, FetchMiss(h, p, f)
    PROVE  [Store!Next]_(Store!storeVars)
<1> USE DEF IInv
<1>1. /\ pageTable[p] = NoFrame /\ IsVictim(f) /\ CleanVictim(f) /\ Remap(p, f)
      /\ frames' = [frames EXCEPT ![f] = disk'[p.page_num]]
  BY DEF FetchMiss, ReadPage, Misses
<1>2. p.page_num \in PageNums /\ p # NoPage
  BY PageNumFacts
<1>3. pageId' = [pageId EXCEPT ![f] = p]
  BY <1>1 DEF Remap
\* p is in no frame before the step.
<1>4. \A g \in Frames : pageId[g] # NoPage => Number(g) # p.page_num
  <2> SUFFICES ASSUME NEW g \in Frames, pageId[g] # NoPage, Number(g) = p.page_num
               PROVE  FALSE
    OBVIOUS
  <2>1. pageId[g] = p
    BY NumberInPages DEF Reliable, SingleFile, Number
  <2> QED BY <1>1, <2>1, FrameFacts DEF Structure, TableMatchesFrames
\* The victim's image is on disk after the step.
<1>5. ASSUME pageId[f] # NoPage
      PROVE  disk'[Number(f)] = frames[f]
  <2>1. CASE dirty[f]
    BY <1>1, <1>5, <2>1, NumberInPages DEF CleanVictim, WriteBack, TypeOK
  <2>2. CASE ~dirty[f]
    BY <1>1, <1>5, <2>2, VictimIsFree DEF CleanVictim, CleanFramesMatchDisk
  <2> QED BY <2>1, <2>2
<1>6. ASSUME NEW n \in PageNums, ~(pageId[f] # NoPage /\ Number(f) = n)
      PROVE  disk'[n] = disk[n]
  <2>1. CASE dirty[f]
    BY <1>1, <1>6, <2>1 DEF CleanVictim, WriteBack, TypeOK, Structure, DirtyHasPage
  <2>2. CASE ~dirty[f]
    BY <1>1, <2>2 DEF CleanVictim
  <2> QED BY <2>1, <2>2
<1>7. ASSUME NEW n \in PageNums
      PROVE  Current'[n] = Current[n]
  <2>1. CASE n = p.page_num
    <3>1. Number(f)' = n /\ pageId'[f] # NoPage
      BY <1>2, <1>3, <2>1 DEF Number, TypeOK
    <3>2. (Current[Number(f)] = frames[f])'
      BY <3>1, CurrentCachedNext DEF CachedAreCurrent, Reliable
    <3>3. frames'[f] = disk'[n]
      BY <1>1, <2>1 DEF TypeOK
    <3>4. Current[n] = disk[n]
      BY <1>4, <2>1, CurrentUncached
    <3>5. disk'[n] = disk[n]
      BY <1>4, <1>6, <2>1
    <3> QED BY <3>1, <3>2, <3>3, <3>4, <3>5
  <2>2. CASE n # p.page_num /\ pageId[f] # NoPage /\ Number(f) = n
    <3>1. Current[n] = frames[f] /\ disk'[n] = frames[f]
      BY <1>5, <2>2, CurrentCached DEF Reliable
    <3>2. ASSUME NEW g \in Frames, pageId'[g] # NoPage
          PROVE  Number(g)' # n
      <4>1. CASE g = f
        BY <1>3, <2>2, <4>1 DEF Number, TypeOK
      <4>2. CASE g # f
        <5>1. pageId'[g] = pageId[g]
          BY <1>3, <4>2 DEF TypeOK
        <5>2. Number(g) # Number(f)
          BY <2>2, <3>2, <4>2, <5>1, DistinctNumbers DEF Reliable
        <5> QED BY <2>2, <5>1, <5>2 DEF Number
      <4> QED BY <4>1, <4>2
    <3>3. Current'[n] = disk'[n]
      BY <3>2 DEF Current, Cached
    <3> QED BY <3>1, <3>3
  <2>3. CASE n # p.page_num /\ ~(pageId[f] # NoPage /\ Number(f) = n)
    <3>1. disk'[n] = disk[n]
      BY <1>6, <2>3
    <3>2. CASE \E g \in Frames : pageId[g] # NoPage /\ Number(g) = n
      <4>1. PICK g \in Frames : pageId[g] # NoPage /\ Number(g) = n
        BY <3>2
      <4>2. g # f
        BY <2>3, <4>1
      <4>3. pageId'[g] = pageId[g] /\ frames'[g] = frames[g] /\ Number(g)' = n
        BY <1>1, <1>3, <4>1, <4>2 DEF Number, TypeOK
      <4>4. Current[n] = frames[g]
        BY <4>1, CurrentCached DEF Reliable
      <4>5. (Current[Number(g)] = frames[g])'
        BY <4>1, <4>3, CurrentCachedNext DEF CachedAreCurrent, Reliable
      <4> QED BY <4>3, <4>4, <4>5
    <3>3. CASE \A g \in Frames : pageId[g] # NoPage => Number(g) # n
      <4>1. Current[n] = disk[n]
        BY <3>3, CurrentUncached
      <4>2. ASSUME NEW g \in Frames, pageId'[g] # NoPage
            PROVE  Number(g)' # n
        BY <1>3, <2>3, <3>3, <4>2 DEF Number, TypeOK
      <4>3. Current'[n] = disk'[n]
        BY <4>2 DEF Current, Cached
      <4> QED BY <3>1, <4>1, <4>3
    <3> QED BY <3>2, <3>3
  <2> QED BY <2>1, <2>2, <2>3
<1>8. Current' = Current /\ Writing' = Writing
  BY <1>7, PinForKeepsWriting DEF Current, FetchMiss, Misses
<1>9. CASE dirty[f]
  <2>1. pageId[f] # NoPage
    BY <1>9 DEF Structure, DirtyHasPage
  <2>2. Number(f) \in PageNums /\ Current[Number(f)] = frames[f]
    BY <2>1, CurrentCached DEF Reliable
  <2>3. disk' = [disk EXCEPT ![Number(f)] = Current[Number(f)]]
    BY <1>1, <1>9, <2>2 DEF CleanVictim, WriteBack
  <2> QED BY <1>8, <2>2, <2>3 DEF Store!Next, Store!Sync
<1>10. CASE ~dirty[f]
  BY <1>1, <1>8, <1>10 DEF CleanVictim, Store!storeVars
<1> QED BY <1>9, <1>10

LEMMA ModifyImplements ==
    ASSUME IInv, IInv', SingleFile, NEW h \in Handles, NEW d \in Data,
           NEW logged \in BOOLEAN, Modify(h, d, logged)
    PROVE  Store!Next
<1> USE DEF IInv
<1> DEFINE f == hFrame[h]
           n == Number(f)
<1>1. f \in Frames /\ pageId[f] # NoPage
  BY OpenHandle DEF Modify, Open, Structure, HandleShape
<1>2. n \in PageNums
  BY <1>1, NumberInPages
<1>3. UNCHANGED <<pageId, disk>> /\ \A g \in Frames \ {f} : frames'[g] = frames[g]
  BY <1>1 DEF Modify, TypeOK, table
<1>4. Current'[n] = frames'[f]
  <2>1. (Current[Number(f)] = frames[f])' /\ hFrame' = hFrame
    BY <1>1, <1>3, CurrentCachedNext DEF CachedAreCurrent, Modify
  <2> QED BY <1>3, <2>1 DEF Number
<1>5. ASSUME NEW m \in PageNums, m # n
      PROVE  Current'[m] = Current[m]
  <2>1. CASE \E g \in Frames : pageId[g] # NoPage /\ Number(g) = m
    <3>1. PICK g \in Frames : pageId[g] # NoPage /\ Number(g) = m
      BY <2>1
    <3>2. g # f /\ frames'[g] = frames[g] /\ Number(g)' = m
      BY <1>3, <1>5, <3>1 DEF Number
    <3>3. Current[m] = frames[g]
      BY <3>1, CurrentCached
    <3>4. (Current[Number(g)] = frames[g])'
      BY <1>3, <3>1, CurrentCachedNext DEF CachedAreCurrent
    <3> QED BY <3>2, <3>3, <3>4
  <2>2. CASE \A g \in Frames : pageId[g] # NoPage => Number(g) # m
    <3>1. Current[m] = disk[m]
      BY <2>2, CurrentUncached
    <3>2. Current'[m] = disk'[m]
      BY <1>3, <2>2 DEF Current, Cached, Number
    <3> QED BY <1>3, <3>1, <3>2
  <2> QED BY <2>1, <2>2
<1>6. Current' = [Current EXCEPT ![n] = Current'[n]]
  BY <1>2, <1>5 DEF Current
<1>7. Current'[n] \in Contents
  BY <1>1, <1>4 DEF TypeOK
<1>8. n \in Writing /\ Writing' = Writing
  <2>1. hPage[h] = pageId[f] /\ latch[h] = "write" /\ UNCHANGED <<hPage, latch>>
    BY OpenHandle DEF Modify, Open, Structure, HandleShape
  <2> QED BY <2>1, SameWriting DEF Writing, Number
<1> QED BY <1>2, <1>3, <1>6, <1>7, <1>8 DEF Store!Next, Store!Write

LEMMA NextImplements ==
    ASSUME IInv, IInv', Reliable, CleanFramesMatchDisk, WritersAreAlone, [Next]_vars
    PROVE  [Store!Next]_(Store!storeVars)
<1> USE DEF IInv
<1>1. ASSUME UNCHANGED <<pageId, frames, disk>>, Writing' = Writing
      PROVE  [Store!Next]_(Store!storeVars)
  BY <1>1, SameCurrent DEF Store!storeVars
<1>2. ASSUME UNCHANGED <<pageId, frames, disk, hPage, latch>>
      PROVE  [Store!Next]_(Store!storeVars)
  BY <1>1, <1>2, SameWriting
<1>3. ASSUME NEW f \in Frames, pageId[f] # NoPage, WriteBack(f) \/ WriteBackFails(f),
             UNCHANGED <<pageId, frames, hPage, latch>>
      PROVE  [Store!Next]_(Store!storeVars)
  <2>1. CASE WriteBack(f)
    BY <1>3, <2>1, WriteBackIsSync, NumberInPages DEF Store!Next, Reliable
  <2>2. CASE disk' = disk
    BY <1>2, <1>3, <2>2
  <2> QED BY <1>3, <2>1, <2>2 DEF WriteBackFails, Reliable
<1>4. ASSUME NEW h \in Handles, NEW p \in PageIds, NEW f \in Frames, FetchWriteFails(h, p, f)
      PROVE  [Store!Next]_(Store!storeVars)
  BY <1>3, <1>4 DEF FetchWriteFails, table, clients, Structure, DirtyHasPage
<1>5. CASE FlushWrite \/ FlushWriteFails
  <2>1. flushFrame \in Frames /\ pageId[flushFrame] # NoPage
    BY <1>5 DEF FlushWrite, FlushWriteFails, MustWrite, Structure, FlushHasPage, TypeOK
  <2> QED BY <1>3, <1>5, <2>1 DEF FlushWrite, FlushWriteFails, table, clients
<1>6. ASSUME NEW len \in 0 .. MaxLsn, NEW powerLoss \in BOOLEAN, Restart(len, powerLoss)
      PROVE  [Store!Next]_(Store!storeVars)
  <2>1. Current' = disk' /\ disk' = disk
    BY <1>6 DEF Restart, Current, Cached, TypeOK
  <2>2. Writing' = {}
    BY <1>6 DEF Restart, Writing
  <2> QED BY <2>1, <2>2 DEF Store!Next, Store!Crash
<1>7. ASSUME NEW h \in Handles, NEW p \in PageIds, NEW f \in Frames, FetchReadFails(h, p, f)
      PROVE  FALSE
  BY <1>7 DEF FetchReadFails, Reliable
<1>8. ASSUME NEW h \in Handles, NEW p \in PageIds, FetchHit(h, p)
      PROVE  [Store!Next]_(Store!storeVars)
  BY <1>1, <1>8, PinForKeepsWriting DEF FetchHit, table
<1>9. ASSUME NEW h \in Handles, NEW isDirty \in BOOLEAN, Unpin(h, isDirty)
      PROVE  [Store!Next]_(Store!storeVars)
  BY <1>1, <1>9, UnpinKeepsWriting DEF Unpin, table
<1>10. CASE \/ \E p \in PageIds : FlushPageBegin(p)
            \/ FlushAllBegin \/ FlushSkip \/ LogAppend \/ LogFlush \/ UNCHANGED vars
  BY <1>2, <1>10 DEF FlushPageBegin, FlushAllBegin, FlushSkip, LogAppend, LogFlush, vars,
                     table, clients
<1>11. ASSUME NEW h \in Handles, Use(h)
       PROVE  [Store!Next]_(Store!storeVars)
  BY <1>9, <1>11, LatchImplements, UnlatchImplements, ModifyImplements DEF Use, Reliable
<1>12. ASSUME NEW h \in Handles, NEW p \in PageIds, Fetch(h, p)
       PROVE  [Store!Next]_(Store!storeVars)
  BY <1>4, <1>7, <1>8, <1>12, FetchMissImplements DEF Fetch
<1> QED BY <1>5, <1>6, <1>10, <1>11, <1>12 DEF Next, FlushStep

\* Caching, eviction, write-back, failing writes and restarts are invisible: the
\* pool and the disk together are one store of pages.
THEOREM Caching ==
    ASSUME Reliable
    PROVE  Spec => CachingIsTransparent
<1>1. Init => Store!Init /\ WritersAreAlone
  BY DEF Init, Store!Init, Current, Cached, Writing, WritersAreAlone
<1>2. IInv /\ WritersAreAlone /\ [Next]_vars => WritersAreAlone'
  BY NextWritersAreAlone
<1>3. IInv /\ IInv' /\ CleanFramesMatchDisk /\ WritersAreAlone /\ [Next]_vars
          => [Store!Next]_(Store!storeVars)
  BY NextImplements
<1> QED BY <1>1, <1>2, <1>3, Invariance, CleanFramesMatch, PTL
        DEF Spec, CachingIsTransparent, Store!Spec
=============================================================================
