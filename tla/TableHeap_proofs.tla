--------------------------- MODULE TableHeap_proofs ---------------------------
(***************************************************************************)
(* What holds of TableHeap for every page size, every set of tuples and    *)
(* threads, every pool and every number of inserts.  The inductive         *)
(* invariant ties the calls of the threads to the pages, the file's length *)
(* and the pins.                                                           *)
(***************************************************************************)
EXTENDS TableHeap, FiniteSetTheorems, TLAPS

\* A call that is past its beginning and inserts has a tuple.
Inserting == {"walk", "look", "append", "link", "linking", "place", "insert"}
CallsHaveTuples == \A t \in Threads : pc[t] \in Inserting => call[t].tuple # NoTuple

\* A link leads to a page of the file.
LinksStayInFile == \A n \in PageNums : pages[n].next \in PageNums \cup {End}

\* The threads whose call may yet append a page; it does so once.
Walking == {t \in Threads : pc[t] \in {"walk", "look", "append"}}
AppendsAreBounded == totalPages + Cardinality(Walking) <= FirstPages + inserts

\* A page in use is pinned.
UsedPagesArePinned == \A n \in PageNums : Leaked(n) >= 0

IInv ==
    /\ TypeOK
    /\ PagesAreWellFormed
    /\ CallsHaveTuples
    /\ LinksStayInFile
    /\ AppendsAreBounded
    /\ UsedPagesArePinned

-----------------------------------------------------------------------------
(* One page. *)

LEMMA FormattedFacts ==
    ASSUME NEW to \in Int
    PROVE  LET page == [FormattedPage EXCEPT !.next = to] IN
           page \in Pages /\ WellFormed(page) /\ page.next = to
<1> DEFINE page == [FormattedPage EXCEPT !.next = to]
<1>1. page = [next |-> to, lower |-> HeaderSize, upper |-> PageSize, slots |-> <<>>]
  BY DEF FormattedPage
<1> HIDE DEF page
<1>2. page \in Pages
  BY <1>1, PageSizeAssumption DEF Pages, HeaderSize
<1>3. Len(page.slots) = 0 /\ DOMAIN page.slots = {}
  BY <1>1
<1>4. WellFormed(page)
  BY <1>1, <1>3, PageSizeAssumption DEF WellFormed, HeaderSize, SlotSize
<1> QED BY <1>1, <1>2, <1>4 DEF page

LEMMA ZeroedFacts ==
    ZeroedPage \in Pages /\ WellFormed(ZeroedPage) /\ ZeroedPage.next = 0
BY DEF ZeroedPage, Pages, WellFormed

LEMMA SpaceIsNat ==
    ASSUME NEW page \in Pages, WellFormed(page)
    PROVE  FreeSpace(page) \in Nat
BY DEF WellFormed, Pages, FreeSpace

\* insert_record keeps the tuples of a page apart.
LEMMA InsertedFacts ==
    ASSUME NEW page \in Pages, WellFormed(page), NEW t \in Tuples, Fits(page, t)
    PROVE  /\ Inserted(page, t) \in Pages
           /\ WellFormed(Inserted(page, t))
           /\ Inserted(page, t).next = page.next
           /\ Len(Inserted(page, t).slots) = Len(page.slots) + 1
           /\ \A i \in DOMAIN page.slots : Inserted(page, t).slots[i] = page.slots[i]
           /\ Inserted(page, t).slots[Len(page.slots) + 1].tuple = t
<1> DEFINE offset == page.upper - TotalLength(t)
           new == [offset |-> offset, length |-> TotalLength(t), tuple |-> t]
           result == Inserted(page, t)
<1>1. TotalLength(t) \in Nat /\ TotalLength(t) >= 16
  BY LengthAssumption DEF TotalLength, TupleHeaderSize
<1>2. page.lower \in Nat /\ page.upper \in Nat /\ page.slots \in Seq(Slots)
  BY DEF Pages
<1>3. TotalLength(t) + 4 <= page.upper - page.lower
  BY DEF Fits, FreeSpace, SlotSize
<1>4. offset \in Nat /\ page.lower + 4 <= offset
  BY <1>1, <1>2, <1>3
<1>5. new \in Slots /\ new.offset = offset /\ new.length = TotalLength(t) /\ new.tuple = t
  BY <1>1, <1>4 DEF Slots
<1>6. result = [page EXCEPT !.lower = page.lower + 4, !.upper = offset,
                            !.slots = Append(page.slots, new)]
  BY DEF Inserted, SlotSize
<1> HIDE DEF result, new
<1>7. Append(page.slots, new) \in Seq(Slots)
  BY <1>2, <1>5
<1>8. /\ result.next = page.next
      /\ result.lower = page.lower + 4
      /\ result.upper = offset
      /\ result.slots = Append(page.slots, new)
  BY <1>6 DEF Pages
<1>9. result \in Pages
  <2>1. result = [next |-> page.next, lower |-> page.lower + 4, upper |-> offset,
                  slots |-> Append(page.slots, new)]
    BY <1>6 DEF Pages
  <2>2. page.next \in Int /\ page.lower + 4 \in Nat
    BY <1>2 DEF Pages
  <2> QED BY <2>1, <2>2, <1>4, <1>7 DEF Pages
<1>10. /\ Len(result.slots) = Len(page.slots) + 1
       /\ \A i \in DOMAIN page.slots : result.slots[i] = page.slots[i]
       /\ result.slots[Len(page.slots) + 1] = new
       /\ DOMAIN page.slots = 1 .. Len(page.slots)
       /\ DOMAIN result.slots = 1 .. Len(page.slots) + 1
       /\ Len(page.slots) \in Nat
  BY <1>2, <1>5, <1>8
<1>11. /\ page.lower = HeaderSize + SlotSize * Len(page.slots)
       /\ page.upper <= PageSize
       /\ \A i \in DOMAIN page.slots :
              /\ page.slots[i].length = TotalLength(page.slots[i].tuple)
              /\ page.upper <= page.slots[i].offset
              /\ page.slots[i].offset + page.slots[i].length <= PageSize
              /\ \A j \in 1 .. i - 1 :
                     page.slots[i].offset + page.slots[i].length <= page.slots[j].offset
  BY <1>1, <1>3 DEF WellFormed
<1>12. \A i \in DOMAIN page.slots : page.slots[i].offset \in Nat
  <2>1. ASSUME NEW i \in DOMAIN page.slots
        PROVE  page.slots[i] \in Slots
    BY <1>2, <1>10
  <2> QED BY <2>1 DEF Slots
<1>13. WellFormed(result)
  <2>1. result.lower = HeaderSize + SlotSize * Len(result.slots)
    BY <1>8, <1>10, <1>11 DEF HeaderSize, SlotSize
  <2>2. result.lower <= result.upper /\ result.upper <= PageSize
    BY <1>1, <1>2, <1>4, <1>8, <1>11, PageSizeAssumption
  <2>3. ASSUME NEW i \in DOMAIN result.slots
        PROVE  /\ result.slots[i].length = TotalLength(result.slots[i].tuple)
               /\ result.upper <= result.slots[i].offset
               /\ result.slots[i].offset + result.slots[i].length <= PageSize
               /\ \A j \in 1 .. i - 1 :
                      result.slots[i].offset + result.slots[i].length
                          <= result.slots[j].offset
    <3>1. CASE i \in DOMAIN page.slots
      <4>1. \A j \in 1 .. i - 1 : j \in DOMAIN page.slots
        BY <3>1, <1>10
      <4>2. offset <= page.slots[i].offset
        BY <3>1, <1>1, <1>2, <1>11, <1>12
      <4> QED BY <3>1, <4>1, <4>2, <1>8, <1>10, <1>11
    <3>2. CASE i = Len(page.slots) + 1
      <4>1. result.slots[i] = new
        BY <3>2, <1>10
      <4>2. /\ new.offset + new.length = page.upper /\ page.upper <= PageSize
            /\ result.upper <= new.offset
            /\ new.length = TotalLength(new.tuple)
        BY <1>1, <1>2, <1>4, <1>5, <1>8, <1>11
      <4>3. \A j \in 1 .. i - 1 : page.upper <= result.slots[j].offset
        BY <3>2, <1>10, <1>11
      <4> QED BY <4>1, <4>2, <4>3
    <3> QED BY <3>1, <3>2, <1>10
  <2> QED BY <2>1, <2>2, <2>3 DEF WellFormed
<1> QED BY <1>5, <1>8, <1>9, <1>10, <1>13 DEF result

\* A link does not touch what is stored.
LEMMA LinkedFacts ==
    ASSUME NEW page \in Pages, NEW new \in Int
    PROVE  /\ Linked(page, new) \in Pages
           /\ Linked(page, new).next = new
           /\ Linked(page, new).slots = page.slots
           /\ FreeSpace(Linked(page, new)) = FreeSpace(page)
           /\ WellFormed(page) => WellFormed(Linked(page, new))
BY DEF Linked, Pages, FreeSpace, WellFormed

-----------------------------------------------------------------------------
(* The threads. *)

LEMMA FileFacts ==
    /\ FirstPages \in Nat \ {0} /\ Formatted \in Nat /\ MaxInserts \in Nat
    /\ Formatted <= FirstPages
    /\ PageNums = 0 .. FirstPages + MaxInserts - 1
    /\ 0 \in PageNums
BY HeapAssumption DEF FirstPages, PageNums

LEMMA IdleIsCall == Idle \in Calls
BY FileFacts DEF Idle, Calls

LEMMA GoesType ==
    ASSUME TypeOK, NEW t \in Threads, NEW to \in Points, NEW c \in Calls, Goes(t, to, c)
    PROVE  /\ pc' \in [Threads -> Points]
           /\ call' \in [Threads -> Calls]
           /\ answer' \in [Threads -> {"none", "Ok", "error"}]
           /\ pc'[t] = to /\ call'[t] = c
           /\ \A u \in Threads \ {t} : pc'[u] = pc[u] /\ call'[u] = call[u]
BY DEF TypeOK, Goes

LEMMA ReturnsType ==
    ASSUME TypeOK, NEW t \in Threads, NEW result \in {"Ok", "error"}, Returns(t, result)
    PROVE  /\ pc' \in [Threads -> Points]
           /\ call' \in [Threads -> Calls]
           /\ answer' \in [Threads -> {"none", "Ok", "error"}]
           /\ pc'[t] = "idle" /\ call'[t] = Idle /\ answer'[t] = result
           /\ \A u \in Threads \ {t} : pc'[u] = pc[u] /\ call'[u] = call[u]
BY IdleIsCall DEF TypeOK, Returns, Points

LEMMA CallFacts ==
    ASSUME IInv, NEW t \in Threads
    PROVE  /\ call[t] \in Calls
           /\ call[t].page \in PageNums /\ call[t].last \in PageNums
           /\ call[t].new \in PageNums /\ call[t].slot \in Nat
           /\ pc[t] \in Inserting => call[t].tuple \in Tuples
           /\ \A n \in PageNums : pages[n] \in Pages /\ WellFormed(pages[n])
BY DEF IInv, TypeOK, Calls, CallsHaveTuples, PagesAreWellFormed

\* What get_tuple may be asked for.
LEMMA ReadFacts ==
    ASSUME IInv, NEW n \in 0 .. totalPages - 1, NEW slot \in 0 .. Len(pages[n].slots)
    PROVE  n \in PageNums /\ slot \in Nat
<1>1. n \in PageNums
  BY FileFacts DEF IInv, TypeOK
<1>2. pages[n].slots \in Seq(Slots)
  BY <1>1 DEF IInv, TypeOK, Pages
<1> QED BY <1>1, <1>2

-----------------------------------------------------------------------------
(* How far the file grows. *)

LEMMA WalkingIsFinite == IsFiniteSet(Walking) /\ Cardinality(Walking) \in Nat
BY HeapAssumption, FS_Subset, FS_CardinalityType DEF Walking

LEMMA RoomToAppend ==
    ASSUME IInv, NEW t \in Threads, pc[t] = "append"
    PROVE  totalPages \in PageNums /\ totalPages + 1 \in FirstPages .. FirstPages + MaxInserts
<1>1. t \in Walking
  BY DEF Walking
<1>2. Cardinality(Walking) # 0
  BY <1>1, WalkingIsFinite, FS_EmptySet
<1> QED BY <1>2, WalkingIsFinite, FileFacts DEF IInv, TypeOK, AppendsAreBounded

LEMMA NextAppends ==
    ASSUME IInv, [Next]_vars
    PROVE  AppendsAreBounded'
<1> USE WalkingIsFinite DEF IInv, AppendsAreBounded
<1>0. totalPages \in Nat /\ inserts \in Nat /\ FirstPages \in Nat
  BY FileFacts DEF TypeOK
\* A thread that begins to walk has counted its insert.
<1>1. ASSUME NEW t \in Threads, NEW tuple \in Tuples, InsertBegin(t, tuple)
      PROVE  AppendsAreBounded'
  <2>1. Walking' \in {Walking, Walking \cup {t}}
    BY <1>1 DEF InsertBegin, Goes, Walking, TypeOK
  <2>2. Cardinality(Walking \cup {t}) \in {Cardinality(Walking), Cardinality(Walking) + 1}
    BY FS_AddElement
  <2>3. totalPages' = totalPages /\ inserts' = inserts + 1
    BY <1>1 DEF InsertBegin, file
  <2>4. Cardinality(Walking') <= Cardinality(Walking) + 1 /\ Cardinality(Walking') \in Nat
    BY <2>1, <2>2
  <2> QED BY <2>3, <2>4, <1>0
<1>2. ASSUME NEW t \in Threads, Extend(t)
      PROVE  AppendsAreBounded'
  <2>1. t \in Walking /\ Walking' = Walking \ {t}
    BY <1>2 DEF Extend, Goes, Returns, Walking, TypeOK
  <2>2. Cardinality(Walking') = Cardinality(Walking) - 1
    BY <2>1, FS_RemoveElement
  <2> QED BY <2>2, <1>0, <1>2 DEF Extend
\* What else a thread does never takes it back to the walk.
<1>3. ASSUME Walking' \subseteq Walking, UNCHANGED <<totalPages, inserts>>
      PROVE  AppendsAreBounded'
  <2>1. Cardinality(Walking') <= Cardinality(Walking) /\ Cardinality(Walking') \in Nat
    BY <1>3, FS_Subset, FS_CardinalityType
  <2> QED BY <2>1, <1>0, <1>3
<1>4. ASSUME NEW t \in Threads,
             Fetch(t) \/ Look(t) \/ LinkFetch(t) \/ Link(t) \/ Insert(t) \/ InsertFails(t)
                 \/ GetRead(t) \/ \E n \in PageNums, slot \in Nat : GetBegin(t, n, slot)
      PROVE  AppendsAreBounded'
  <2>1. Walking' \subseteq Walking
    <3> USE DEF Goes, Returns, Walking, TypeOK
    <3>1. CASE Fetch(t)
      BY <3>1 DEF Fetch, Step, Fetches
    <3>2. CASE Look(t)
      BY <3>2 DEF Look
    <3>3. CASE LinkFetch(t) \/ Link(t)
      BY <3>3 DEF LinkFetch, Link
    <3>4. CASE Insert(t) \/ InsertFails(t)
      BY <3>4 DEF Insert, InsertFails
    <3>5. CASE GetRead(t) \/ \E n \in PageNums, slot \in Nat : GetBegin(t, n, slot)
      BY <3>5 DEF GetRead, GetBegin
    <3> QED BY <1>4, <3>1, <3>2, <3>3, <3>4, <3>5
  <2>2. UNCHANGED <<totalPages, inserts>>
    BY <1>4 DEF Fetch, Look, LinkFetch, Link, Insert, InsertFails, GetRead, GetBegin, file
  <2> QED BY <2>1, <2>2, <1>3
<1>5. CASE UNCHANGED vars
  BY <1>5, <1>3 DEF vars, Walking
<1> QED BY <1>1, <1>2, <1>4, <1>5, ReadFacts DEF Next, Continue

-----------------------------------------------------------------------------
(* Who has pinned what. *)

Holdings == [Threads -> SUBSET (Roles \X PageNums)]

\* Of two holdings, the second differs from the first in what t holds.
Takes(H, H2, t, used) ==
    /\ used \notin H[t] /\ H2[t] = H[t] \cup {used}
    /\ \A u \in Threads \ {t} : H2[u] = H[u]
LetsGo(H, H2, t, used) ==
    /\ used \in H[t] /\ H2[t] = H[t] \ {used}
    /\ \A u \in Threads \ {t} : H2[u] = H[u]

LEMMA PinnersFinite ==
    ASSUME NEW H, NEW n
    PROVE  IsFiniteSet(Pinners(H, n)) /\ Cardinality(Pinners(H, n)) \in Nat
<1>1. IsFiniteSet(Roles)
  <2>1. Roles = {"page"} \cup {"last"} \cup {"new"}
    BY DEF Roles
  <2> QED BY <2>1, FS_Singleton, FS_AddElement
<1>2. IsFiniteSet(Threads \X Roles)
  BY <1>1, HeapAssumption, FS_Product
<1>3. Pinners(H, n) \subseteq Threads \X Roles
  BY DEF Pinners
<1> QED BY <1>2, <1>3, FS_Subset, FS_CardinalityType

LEMMA PinnerAdded ==
    ASSUME NEW H \in Holdings, NEW H2, NEW t \in Threads, NEW r \in Roles, NEW n \in PageNums,
           Takes(H, H2, t, <<r, n>>), NEW m \in PageNums
    PROVE  Cardinality(Pinners(H2, m))
               = Cardinality(Pinners(H, m)) + (IF m = n THEN 1 ELSE 0)
<1>1. \A u \in Threads : H2[u] = IF u = t THEN H[t] \cup {<<r, n>>} ELSE H[u]
  BY DEF Takes
<1>2. CASE m = n
  <2>1. Pinners(H2, m) = Pinners(H, m) \cup {<<t, r>>}
    BY <1>1, <1>2 DEF Pinners
  <2>2. <<t, r>> \notin Pinners(H, m)
    BY <1>2 DEF Pinners, Takes
  <2> QED BY <2>1, <2>2, <1>2, PinnersFinite, FS_AddElement
<1>3. CASE m # n
  <2>1. Pinners(H2, m) = Pinners(H, m)
    BY <1>1, <1>3 DEF Pinners
  <2> QED BY <2>1, <1>3, PinnersFinite
<1> QED BY <1>2, <1>3

LEMMA PinnerRemoved ==
    ASSUME NEW H \in Holdings, NEW H2, NEW t \in Threads, NEW r \in Roles, NEW n \in PageNums,
           LetsGo(H, H2, t, <<r, n>>), NEW m \in PageNums
    PROVE  Cardinality(Pinners(H2, m))
               = Cardinality(Pinners(H, m)) - (IF m = n THEN 1 ELSE 0)
<1>1. \A u \in Threads : H2[u] = IF u = t THEN H[t] \ {<<r, n>>} ELSE H[u]
  BY DEF LetsGo
<1>2. CASE m = n
  <2>1. Pinners(H2, m) = Pinners(H, m) \ {<<t, r>>}
    BY <1>1, <1>2 DEF Pinners
  <2>2. <<t, r>> \in Pinners(H, m)
    BY <1>2 DEF Pinners, LetsGo
  <2> QED BY <2>1, <2>2, <1>2, PinnersFinite, FS_RemoveElement
<1>3. CASE m # n
  <2>1. Pinners(H2, m) = Pinners(H, m)
    BY <1>1, <1>3 DEF Pinners
  <2> QED BY <2>1, <1>3, PinnersFinite
<1> QED BY <1>2, <1>3

LEMMA HeldType ==
    ASSUME IInv
    PROVE  held \in Holdings
BY CallFacts DEF held, Holdings, Holding, Roles

\* A step of thread t changes what t holds and nothing else.
LEMMA OthersHold ==
    ASSUME IInv, NEW t \in Threads,
           \A u \in Threads \ {t} : pc'[u] = pc[u] /\ call'[u] = call[u]
    PROVE  held'[t] = Holding(t)' /\ \A u \in Threads \ {t} : held'[u] = held[u]
BY DEF held, Holding

\* Between two calls, and before a fetch, a thread holds nothing.
LEMMA HoldingAt ==
    ASSUME IInv, NEW t \in Threads
    PROVE  /\ pc[t] \notin {"look", "insert", "read", "link", "linking"} => held[t] = {}
           /\ pc[t] \in {"look", "insert", "read"} => held[t] = {<<"page", call[t].page>>}
           /\ pc[t] = "link" => held[t] = {<<"new", call[t].new>>}
           /\ pc[t] = "linking" =>
                  held[t] = {<<"new", call[t].new>>, <<"last", call[t].last>>}
BY DEF held, Holding

PinsAreInts == pins' \in [PageNums -> Int]
LeaksNothing == \A m \in PageNums : Leaked(m)' = Leaked(m)

LEMMA LeakedIsInt ==
    ASSUME IInv, NEW m \in PageNums
    PROVE  Leaked(m) \in Int /\ pins[m] \in Nat
BY PinnersFinite DEF Leaked, IInv, TypeOK

LEMMA TakesPin ==
    ASSUME IInv, NEW t \in Threads, NEW r \in Roles, NEW n \in PageNums,
           Takes(held, held', t, <<r, n>>), Pin(n)
    PROVE  PinsAreInts /\ LeaksNothing
<1>1. pins' \in [PageNums -> Int]
  BY DEF Pin, IInv, TypeOK
<1>2. ASSUME NEW m \in PageNums
      PROVE  Leaked(m)' = Leaked(m)
  <2>1. Cardinality(Pinners(held, m)') = Cardinality(Pinners(held, m)) + (IF m = n THEN 1 ELSE 0)
    <3>1. Pinners(held, m)' = Pinners(held', m)
      BY DEF Pinners
    <3> QED BY <3>1, HeldType, PinnerAdded
  <2>2. pins'[m] = pins[m] + (IF m = n THEN 1 ELSE 0)
    BY LeakedIsInt DEF Pin, IInv, TypeOK
  <2> QED BY <2>1, <2>2, LeakedIsInt, PinnersFinite DEF Leaked
<1> QED BY <1>1, <1>2 DEF PinsAreInts, LeaksNothing

LEMMA DropsPin ==
    ASSUME IInv, NEW t \in Threads, NEW r \in Roles, NEW n \in PageNums,
           LetsGo(held, held', t, <<r, n>>), Unpin(n)
    PROVE  PinsAreInts /\ LeaksNothing
<1>1. pins' \in [PageNums -> Int]
  BY DEF Unpin, IInv, TypeOK
<1>2. ASSUME NEW m \in PageNums
      PROVE  Leaked(m)' = Leaked(m)
  <2>1. Cardinality(Pinners(held, m)') = Cardinality(Pinners(held, m)) - (IF m = n THEN 1 ELSE 0)
    <3>1. Pinners(held, m)' = Pinners(held', m)
      BY DEF Pinners
    <3> QED BY <3>1, HeldType, PinnerRemoved
  <2>2. pins'[m] = pins[m] - (IF m = n THEN 1 ELSE 0)
    BY LeakedIsInt DEF Unpin, IInv, TypeOK
  <2> QED BY <2>1, <2>2, LeakedIsInt, PinnersFinite DEF Leaked
<1> QED BY <1>1, <1>2 DEF PinsAreInts, LeaksNothing

\* A thread that gives up holding a page without unpinning it leaks a pin.
LEMMA LeavesPin ==
    ASSUME IInv, NEW t \in Threads, NEW r \in Roles, NEW n \in PageNums,
           LetsGo(held, held', t, <<r, n>>), UNCHANGED pins
    PROVE  PinsAreInts /\ \A m \in PageNums : Leaked(m)' >= Leaked(m)
<1>1. pins' \in [PageNums -> Int]
  BY DEF IInv, TypeOK
<1>2. ASSUME NEW m \in PageNums
      PROVE  Leaked(m)' >= Leaked(m)
  <2>1. Cardinality(Pinners(held, m)') = Cardinality(Pinners(held, m)) - (IF m = n THEN 1 ELSE 0)
    <3>1. Pinners(held, m)' = Pinners(held', m)
      BY DEF Pinners
    <3> QED BY <3>1, HeldType, PinnerRemoved
  <2> QED BY <2>1, LeakedIsInt, PinnersFinite DEF Leaked
<1> QED BY <1>1, <1>2 DEF PinsAreInts

LEMMA SamePins ==
    ASSUME IInv, held' = held, pins' = pins
    PROVE  PinsAreInts /\ LeaksNothing
BY DEF PinsAreInts, LeaksNothing, Leaked, Pinners, IInv, TypeOK

\* A page is unpinned as the page linked from, the other one as the new page.
LEMMA DropsBoth ==
    ASSUME IInv, NEW t \in Threads, NEW last \in PageNums, NEW new \in PageNums,
           held[t] = {<<"new", new>>, <<"last", last>>},
           held'[t] = {}, \A u \in Threads \ {t} : held'[u] = held[u],
           UnpinBoth(last, new)
    PROVE  PinsAreInts /\ LeaksNothing
<1>1. pins' \in [PageNums -> Int]
  BY DEF UnpinBoth, IInv, TypeOK
<1>2. ASSUME NEW m \in PageNums
      PROVE  Leaked(m)' = Leaked(m)
  <2> DEFINE H == [held EXCEPT ![t] = {<<"new", new>>}]
  <2>1. H \in Holdings /\ LetsGo(held, H, t, <<"last", last>>)
    BY HeldType DEF Holdings, LetsGo, Roles
  <2>2. LetsGo(H, held', t, <<"new", new>>)
    BY HeldType DEF Holdings, LetsGo
  <2> HIDE DEF H
  <2>3. "last" \in Roles /\ "new" \in Roles
    BY DEF Roles
  <2>4. Cardinality(Pinners(H, m)) = Cardinality(Pinners(held, m)) - (IF m = last THEN 1 ELSE 0)
    BY <2>1, <2>3, HeldType, PinnerRemoved
  <2>5. Cardinality(Pinners(held', m)) = Cardinality(Pinners(H, m)) - (IF m = new THEN 1 ELSE 0)
    BY <2>1, <2>2, <2>3, PinnerRemoved
  <2>6. pins'[m] = pins[m] - (IF m = last THEN 1 ELSE 0) - (IF m = new THEN 1 ELSE 0)
    BY DEF UnpinBoth
  <2>7. Pinners(held, m)' = Pinners(held', m)
    BY DEF Pinners
  <2>8. /\ Cardinality(Pinners(held, m)) \in Nat /\ Cardinality(Pinners(H, m)) \in Nat
        /\ pins[m] \in Nat
    BY PinnersFinite, LeakedIsInt
  <2>9. Leaked(m)' = pins'[m] - Cardinality(Pinners(held', m))
    BY <2>7 DEF Leaked
  <2> QED BY <2>4, <2>5, <2>6, <2>8, <2>9 DEF Leaked
<1> QED BY <1>1, <1>2 DEF PinsAreInts, LeaksNothing

-----------------------------------------------------------------------------
(* What the actions do to the pins. *)

\* What a thread does from one call to the next.
Moves(t) ==
    \/ Continue(t)
    \/ \E tuple \in Tuples : InsertBegin(t, tuple)
    \/ \E n \in PageNums, slot \in Nat : GetBegin(t, n, slot)

LEMMA NextMoves ==
    ASSUME IInv, Next
    PROVE  \E t \in Threads : Moves(t)
BY ReadFacts DEF Next, Moves

LeaksOnError(t) ==
    \A m \in PageNums :
        /\ Leaked(m)' >= Leaked(m)
        /\ Leaked(m)' > Leaked(m) => pc[t] # "idle" /\ pc'[t] = "idle" /\ answer'[t] = "error"

LEMMA MovesPins ==
    ASSUME IInv, NEW t \in Threads, Moves(t)
    PROVE  PinsAreInts /\ LeaksOnError(t)
<1> USE HoldingAt
<1>1. ASSUME PinsAreInts, LeaksNothing
      PROVE  PinsAreInts /\ LeaksOnError(t)
  BY <1>1, LeakedIsInt DEF LeaksNothing, LeaksOnError
<1>2. TypeOK
  BY DEF IInv
<1>3. \A u \in Threads \ {t} : pc'[u] = pc[u] /\ call'[u] = call[u]
  BY <1>2 DEF Moves, Continue, Fetch, Look, Extend, LinkFetch, Link, Insert, InsertFails, GetRead,
              InsertBegin, GetBegin, Goes, Returns, TypeOK
<1>4. held'[t] = Holding(t)' /\ \A u \in Threads \ {t} : held'[u] = held[u]
  BY <1>3, OthersHold
<1>5. CASE Fetch(t)
  <2>1. CASE Fetched(call[t].page) /\ Goes(t, Step(pc[t]), call[t])
    <3>1. held[t] = {} /\ Holding(t)' = {<<"page", call[t].page>>}
      BY <1>2, <1>5, <2>1 DEF Fetch, Fetches, Step, Goes, Holding, TypeOK
    <3>2. Takes(held, held', t, <<"page", call[t].page>>)
      BY <1>4, <3>1 DEF Takes
    <3> QED BY <1>1, <2>1, <3>2, CallFacts, TakesPin DEF Fetched, Roles
  <2>2. CASE FetchFails(call[t].page) /\ Returns(t, "error")
    <3>1. held'[t] = {} /\ held[t] = {}
      BY <1>2, <1>4, <1>5, <2>2 DEF Fetch, Fetches, Returns, Holding, TypeOK
    <3>2. held' = held
      BY <1>4, <3>1 DEF held
    <3> QED BY <1>1, <2>2, <3>2, SamePins DEF FetchFails
  <2> QED BY <1>5, <2>1, <2>2 DEF Fetch
<1>6. CASE Look(t)
  <2>1. held[t] = {<<"page", call[t].page>>} /\ Holding(t)' = {}
    BY <1>2, <1>6 DEF Look, Goes, Holding, TypeOK
  <2>2. LetsGo(held, held', t, <<"page", call[t].page>>)
    BY <1>4, <2>1 DEF LetsGo
  <2> QED BY <1>1, <1>6, <2>2, CallFacts, DropsPin DEF Look, LetGo, Roles
<1>7. CASE Extend(t)
  <2>1. CASE Fetched(totalPages) /\ Goes(t, "link", [call[t] EXCEPT !.new = totalPages])
    <3>1. held[t] = {} /\ Holding(t)' = {<<"new", totalPages>>}
      <4>1. call'[t].new = totalPages
        BY <1>2, <2>1, CallFacts DEF Goes, TypeOK, Calls
      <4> QED BY <1>2, <1>7, <2>1, <4>1 DEF Extend, Goes, Holding, TypeOK
    <3>2. Takes(held, held', t, <<"new", totalPages>>)
      BY <1>4, <3>1 DEF Takes
    <3> QED BY <1>1, <1>7, <2>1, <3>2, RoomToAppend, TakesPin DEF Extend, Fetched, Roles
  <2>2. CASE FetchFails(totalPages) /\ Returns(t, "error")
    <3>1. held'[t] = {} /\ held[t] = {}
      BY <1>2, <1>4, <1>7, <2>2 DEF Extend, Returns, Holding, TypeOK
    <3>2. held' = held
      BY <1>4, <3>1 DEF held
    <3> QED BY <1>1, <2>2, <3>2, SamePins DEF FetchFails
  <2> QED BY <1>7, <2>1, <2>2 DEF Extend
<1>8. CASE LinkFetch(t)
  <2>1. held[t] = {<<"new", call[t].new>>}
    BY <1>8 DEF LinkFetch
  <2>2. CASE Fetched(call[t].last) /\ Goes(t, "linking", call[t])
    <3>1. Holding(t)' = held[t] \cup {<<"last", call[t].last>>}
      BY <1>2, <2>1, <2>2 DEF Goes, Holding, TypeOK
    <3>2. Takes(held, held', t, <<"last", call[t].last>>)
      BY <1>4, <2>1, <3>1 DEF Takes
    <3> QED BY <1>1, <2>2, <3>2, CallFacts, TakesPin DEF Fetched, Roles
  <2>3. CASE FetchFails(call[t].last) /\ Returns(t, "error")
    <3>1. Holding(t)' = {} /\ pc'[t] = "idle" /\ answer'[t] = "error"
      BY <1>2, <2>3 DEF Returns, Holding, TypeOK
    <3>2. LetsGo(held, held', t, <<"new", call[t].new>>)
      BY <1>4, <2>1, <3>1 DEF LetsGo
    <3> QED BY <1>8, <2>3, <3>1, <3>2, CallFacts, LeavesPin
            DEF LinkFetch, FetchFails, Roles, LeaksOnError
  <2> QED BY <1>8, <2>2, <2>3 DEF LinkFetch
<1>9. CASE Link(t)
  <2>1. held'[t] = {}
    BY <1>2, <1>4, <1>9 DEF Link, Goes, Holding, TypeOK
  <2>2. held[t] = {<<"new", call[t].new>>, <<"last", call[t].last>>}
    BY <1>9 DEF Link
  <2> QED BY <1>1, <1>4, <1>9, <2>1, <2>2, CallFacts, DropsBoth DEF Link
<1>10. CASE Insert(t) \/ GetRead(t)
  <2>1. held[t] = {<<"page", call[t].page>>} /\ Holding(t)' = {}
    BY <1>2, <1>10 DEF Insert, GetRead, Returns, Holding, TypeOK
  <2>2. LetsGo(held, held', t, <<"page", call[t].page>>)
    BY <1>4, <2>1 DEF LetsGo
  <2> QED BY <1>1, <1>10, <2>2, CallFacts, DropsPin DEF Insert, GetRead, Roles
<1>11. CASE InsertFails(t)
  <2>1. /\ held[t] = {<<"page", call[t].page>>} /\ Holding(t)' = {}
        /\ pc'[t] = "idle" /\ answer'[t] = "error"
    BY <1>2, <1>11 DEF InsertFails, Returns, Holding, TypeOK
  <2>2. LetsGo(held, held', t, <<"page", call[t].page>>)
    BY <1>4, <2>1 DEF LetsGo
  <2> QED BY <1>11, <2>1, <2>2, CallFacts, LeavesPin DEF InsertFails, Roles, LeaksOnError
<1>12. ASSUME NEW tuple \in Tuples, InsertBegin(t, tuple)
       PROVE  PinsAreInts /\ LeaksOnError(t)
  <2>1. held[t] = {} /\ held'[t] = {}
    BY <1>2, <1>4, <1>12 DEF InsertBegin, Goes, Holding, TypeOK
  <2>2. held' = held
    BY <1>4, <2>1 DEF held
  <2> QED BY <1>1, <1>12, <2>2, SamePins DEF InsertBegin
<1>13. ASSUME NEW n \in PageNums, NEW slot \in Nat, GetBegin(t, n, slot)
       PROVE  PinsAreInts /\ LeaksOnError(t)
  <2>1. held[t] = {} /\ held'[t] = {}
    BY <1>2, <1>4, <1>13 DEF GetBegin, Goes, Holding, TypeOK
  <2>2. held' = held
    BY <1>4, <2>1 DEF held
  <2> QED BY <1>1, <1>13, <2>2, SamePins DEF GetBegin
<1> QED BY <1>5, <1>6, <1>7, <1>8, <1>9, <1>10, <1>11, <1>12, <1>13 DEF Moves, Continue

-----------------------------------------------------------------------------
(* What the actions do to the pages. *)

\* A step changes no page but one, by a link or by a tuple that fits.
LEMMA MovesPages ==
    ASSUME IInv, NEW t \in Threads, Moves(t)
    PROVE  \/ UNCHANGED pages /\ UNCHANGED <<spaceMap, stored>>
           \/ /\ pages' = [pages EXCEPT ![call[t].last] = Linked(@, call[t].new)]
              /\ UNCHANGED <<spaceMap, stored>>
           \/ Insert(t)
BY DEF Moves, Continue, Fetch, Look, Extend, LinkFetch, Link, InsertFails, GetRead, InsertBegin,
       GetBegin, file

LEMMA InsertPages ==
    ASSUME IInv, NEW t \in Threads, Insert(t)
    PROVE  LET n == call[t].page
               page == Inserted(pages[n], call[t].tuple)
           IN  /\ n \in PageNums /\ call[t].tuple \in Tuples
               /\ pages' \in [PageNums -> Pages]
               /\ pages'[n] = page
               /\ \A m \in PageNums \ {n} : pages'[m] = pages[m]
               /\ WellFormed(page)
               /\ FreeSpace(page) \in Nat
               /\ page.next = pages[n].next
               /\ Len(page.slots) - 1 = Len(pages[n].slots)
               /\ Len(pages[n].slots) \in Nat
               /\ \A i \in DOMAIN pages[n].slots : page.slots[i] = pages[n].slots[i]
               /\ page.slots[Len(pages[n].slots) + 1].tuple = call[t].tuple
<1> DEFINE n == call[t].page
           page == Inserted(pages[n], call[t].tuple)
<1>1. n \in PageNums /\ call[t].tuple \in Tuples /\ pages[n] \in Pages /\ WellFormed(pages[n])
  BY CallFacts DEF Insert, Inserting
<1>2. Fits(pages[n], call[t].tuple) /\ pages' = [pages EXCEPT ![n] = page]
  BY DEF Insert
<1>3. /\ page \in Pages /\ WellFormed(page) /\ page.next = pages[n].next
      /\ Len(page.slots) = Len(pages[n].slots) + 1
      /\ \A i \in DOMAIN pages[n].slots : page.slots[i] = pages[n].slots[i]
      /\ page.slots[Len(pages[n].slots) + 1].tuple = call[t].tuple
  BY <1>1, <1>2, InsertedFacts
<1>4. FreeSpace(page) \in Nat
  BY <1>3, SpaceIsNat
<1>5. Len(pages[n].slots) \in Nat
  BY <1>1 DEF Pages
<1> HIDE DEF page
<1>6. /\ pages' \in [PageNums -> Pages] /\ pages'[n] = page
      /\ \A m \in PageNums \ {n} : pages'[m] = pages[m]
  BY <1>1, <1>2, <1>3 DEF IInv, TypeOK
<1>7. Len(page.slots) - 1 = Len(pages[n].slots)
  BY <1>3, <1>5
<1> QED BY <1>1, <1>3, <1>4, <1>5, <1>6, <1>7, Zenon DEF page

LEMMA LinkPages ==
    ASSUME IInv, NEW last \in PageNums, NEW new \in PageNums,
           pages' = [pages EXCEPT ![last] = Linked(@, new)]
    PROVE  /\ pages' \in [PageNums -> Pages]
           /\ \A n \in PageNums :
                  /\ pages'[n].next \in {pages[n].next, new}
                  /\ pages'[n].slots = pages[n].slots
                  /\ FreeSpace(pages'[n]) = FreeSpace(pages[n])
                  /\ WellFormed(pages'[n])
<1>1. new \in Int /\ pages[last] \in Pages
  BY FileFacts DEF IInv, TypeOK
<1>2. /\ Linked(pages[last], new) \in Pages
      /\ Linked(pages[last], new).next = new
      /\ Linked(pages[last], new).slots = pages[last].slots
      /\ FreeSpace(Linked(pages[last], new)) = FreeSpace(pages[last])
      /\ WellFormed(Linked(pages[last], new))
  BY <1>1, LinkedFacts DEF IInv, PagesAreWellFormed
<1>3. ASSUME NEW n \in PageNums
      PROVE  pages'[n] = IF n = last THEN Linked(pages[last], new) ELSE pages[n]
  BY DEF IInv, TypeOK
<1> QED BY <1>2, <1>3 DEF IInv, TypeOK, PagesAreWellFormed

LEMMA MovesKeepPages ==
    ASSUME IInv, NEW t \in Threads, Moves(t)
    PROVE  pages' \in [PageNums -> Pages] /\ PagesAreWellFormed' /\ LinksStayInFile'
<1>1. CASE UNCHANGED pages
  BY <1>1 DEF IInv, TypeOK, PagesAreWellFormed, LinksStayInFile
<1>2. CASE pages' = [pages EXCEPT ![call[t].last] = Linked(@, call[t].new)]
  <2>1. call[t].last \in PageNums /\ call[t].new \in PageNums
    BY CallFacts
  <2>2. /\ pages' \in [PageNums -> Pages]
        /\ \A n \in PageNums : /\ WellFormed(pages'[n])
                               /\ pages'[n].next \in {pages[n].next, call[t].new}
    BY <1>2, <2>1, LinkPages
  <2> QED BY <2>1, <2>2 DEF IInv, PagesAreWellFormed, LinksStayInFile
<1>3. CASE Insert(t)
  <2>1. pages' \in [PageNums -> Pages]
    BY <1>3, InsertPages
  <2>2. \A m \in PageNums : WellFormed(pages'[m]) /\ pages'[m].next = pages[m].next
    BY <1>3, InsertPages DEF IInv, PagesAreWellFormed
  <2> QED BY <2>1, <2>2 DEF IInv, PagesAreWellFormed, LinksStayInFile
<1>4. \/ UNCHANGED pages
      \/ pages' = [pages EXCEPT ![call[t].last] = Linked(@, call[t].new)]
      \/ Insert(t)
  BY MovesPages, Zenon
<1> QED BY <1>1, <1>2, <1>3, <1>4, Zenon

LEMMA MovesCalls ==
    ASSUME IInv, NEW t \in Threads, Moves(t)
    PROVE  /\ pc' \in [Threads -> Points]
           /\ call' \in [Threads -> Calls]
           /\ answer' \in [Threads -> {"none", "Ok", "error"}]
           /\ CallsHaveTuples'
<1>1. TypeOK
  BY DEF IInv
<1>2. ASSUME NEW to \in Points, NEW c \in Calls, Goes(t, to, c),
             to \in Inserting => c.tuple # NoTuple
      PROVE  /\ pc' \in [Threads -> Points]
             /\ call' \in [Threads -> Calls]
             /\ answer' \in [Threads -> {"none", "Ok", "error"}]
             /\ CallsHaveTuples'
  BY <1>1, <1>2, GoesType DEF IInv, CallsHaveTuples
<1>3. ASSUME NEW result \in {"Ok", "error"}, Returns(t, result)
      PROVE  /\ pc' \in [Threads -> Points]
             /\ call' \in [Threads -> Calls]
             /\ answer' \in [Threads -> {"none", "Ok", "error"}]
             /\ CallsHaveTuples'
  BY <1>1, <1>3, ReturnsType DEF IInv, CallsHaveTuples, Inserting
<1> DEFINE c == call[t]
<1>4. c \in Calls /\ (pc[t] \in Inserting => c.tuple # NoTuple)
  BY CallFacts DEF IInv, CallsHaveTuples
<1>5. CASE Fetch(t)
  <2>1. Step(pc[t]) \in Points /\ (Step(pc[t]) \in Inserting => pc[t] \in Inserting)
    BY <1>5 DEF Fetch, Fetches, Step, Points, Inserting
  <2> QED BY <1>2, <1>3, <1>4, <1>5, <2>1 DEF Fetch
<1>6. CASE Look(t)
  <2>1. pc[t] \in Inserting /\ {"place", "append", "walk"} \subseteq Points
    BY <1>6 DEF Look, Inserting, Points
  <2>2. CASE pages[c.page].next # End
    <3>1. pages[c.page].next \in PageNums
      BY <2>2, CallFacts DEF IInv, LinksStayInFile
    <3>2. /\ [c EXCEPT !.last = c.page, !.page = pages[c.page].next] \in Calls
          /\ [c EXCEPT !.last = c.page, !.page = pages[c.page].next].tuple = c.tuple
      BY <3>1, <1>4 DEF Calls
    <3> QED BY <1>2, <1>4, <1>6, <2>1, <3>2 DEF Look
  <2>3. CASE pages[c.page].next = End
    BY <1>2, <1>4, <1>6, <2>1, <2>3 DEF Look
  <2> QED BY <2>2, <2>3
<1>7. CASE Extend(t)
  <2>1. [c EXCEPT !.new = totalPages] \in Calls /\ [c EXCEPT !.new = totalPages].tuple = c.tuple
    BY <1>4, <1>7, RoomToAppend DEF Extend, Calls
  <2>2. pc[t] \in Inserting /\ "link" \in Points
    BY <1>7 DEF Extend, Inserting, Points
  <2> QED BY <1>2, <1>3, <1>4, <1>7, <2>1, <2>2 DEF Extend
<1>8. CASE LinkFetch(t)
  <2>1. pc[t] \in Inserting /\ "linking" \in Points
    BY <1>8 DEF LinkFetch, Inserting, Points
  <2> QED BY <1>2, <1>3, <1>4, <1>8, <2>1 DEF LinkFetch
<1>9. CASE Link(t)
  <2>1. [c EXCEPT !.page = c.new] \in Calls /\ [c EXCEPT !.page = c.new].tuple = c.tuple
    BY <1>4 DEF Calls
  <2>2. pc[t] \in Inserting /\ "place" \in Points
    BY <1>9 DEF Link, Inserting, Points
  <2> QED BY <1>2, <1>4, <1>9, <2>1, <2>2 DEF Link
<1>10. CASE Insert(t) \/ InsertFails(t) \/ GetRead(t)
  BY <1>3, <1>10 DEF Insert, InsertFails, GetRead
<1>11. ASSUME NEW tuple \in Tuples, InsertBegin(t, tuple)
       PROVE  \E to \in Points, d \in Calls : Goes(t, to, d) /\ d.tuple # NoTuple
  <2>1. "place" \in Points /\ "walk" \in Points
    BY DEF Points
  <2>2. ASSUME NEW n \in PageNums
        PROVE  /\ [Idle EXCEPT !.tuple = tuple, !.page = n] \in Calls
               /\ [Idle EXCEPT !.tuple = tuple] \in Calls
               /\ [Idle EXCEPT !.tuple = tuple, !.page = n].tuple # NoTuple
               /\ [Idle EXCEPT !.tuple = tuple].tuple # NoTuple
    BY FileFacts, HeapAssumption DEF Idle, Calls
  <2> QED BY <1>11, <2>1, <2>2, FileFacts DEF InsertBegin
<1>12. ASSUME NEW n \in PageNums, NEW slot \in Nat, GetBegin(t, n, slot)
       PROVE  \E to \in Points, d \in Calls : Goes(t, to, d) /\ to \notin Inserting
  <2>1. [Idle EXCEPT !.page = n, !.slot = slot] \in Calls
    BY FileFacts DEF Idle, Calls
  <2> QED BY <1>12, <2>1 DEF GetBegin, Points, Inserting
<1> QED BY <1>2, <1>5, <1>6, <1>7, <1>8, <1>9, <1>10, <1>11, <1>12 DEF Moves, Continue

-----------------------------------------------------------------------------
(* The inductive invariant. *)

LEMMA InitIInv == Init => IInv
<1> SUFFICES ASSUME Init PROVE IInv
  OBVIOUS
<1> USE DEF Init
<1>1. ASSUME NEW n \in PageNums
      PROVE  /\ pages[n] \in Pages /\ WellFormed(pages[n])
             /\ pages[n].next \in PageNums \cup {End}
  <2>1. CASE n >= Formatted
    BY <2>1, ZeroedFacts, FileFacts
  <2>2. CASE ~(n >= Formatted)
    <3> DEFINE to == IF n + 1 < Formatted THEN n + 1 ELSE End
    <3>1. to \in Int /\ to \in PageNums \cup {End}
      BY <2>2, FileFacts DEF End
    <3>2. pages[n] = [FormattedPage EXCEPT !.next = to]
      BY <2>2
    <3> HIDE DEF to
    <3> QED BY <3>1, <3>2, FormattedFacts
  <2> QED BY <2>1, <2>2
<1>2. pages \in [PageNums -> Pages]
  BY <1>1
<1>3. TypeOK
  BY <1>2, FileFacts, IdleIsCall DEF TypeOK, Points, Unknown
<1>4. Walking = {}
  BY DEF Walking
<1>5. AppendsAreBounded
  BY <1>4, FS_EmptySet, FileFacts DEF AppendsAreBounded
<1>6. ASSUME NEW n \in PageNums
      PROVE  Leaked(n) >= 0
  <2>1. \A t \in Threads : held[t] = {}
    BY DEF held, Holding
  <2>2. Pinners(held, n) = {}
    BY <2>1 DEF Pinners
  <2> QED BY <2>2, FS_EmptySet DEF Leaked
<1> QED BY <1>1, <1>3, <1>5, <1>6
        DEF IInv, PagesAreWellFormed, CallsHaveTuples, Inserting, LinksStayInFile,
            UsedPagesArePinned

LEMMA MovesOthers ==
    ASSUME IInv, NEW t \in Threads, Moves(t)
    PROVE  /\ totalPages' \in FirstPages .. FirstPages + MaxInserts
           /\ spaceMap' \in [PageNums -> Nat \cup {Unknown}]
           /\ stored' \subseteq [page : PageNums, slot : Nat, tuple : Tuples]
           /\ inserts' \in 0 .. MaxInserts
<1> USE DEF IInv, TypeOK
<1>1. totalPages' \in FirstPages .. FirstPages + MaxInserts
  <2>1. CASE Extend(t)
    BY <2>1, RoomToAppend DEF Extend
  <2>2. CASE ~Extend(t)
    BY <2>2 DEF Moves, Continue, Fetch, Look, LinkFetch, Link, Insert, InsertFails, GetRead,
                InsertBegin, GetBegin, file
  <2> QED BY <2>1, <2>2
<1>2. inserts' \in 0 .. MaxInserts
  <2>1. ASSUME NEW tuple \in Tuples, InsertBegin(t, tuple)
        PROVE  inserts' \in 0 .. MaxInserts
    <3>1. inserts < MaxInserts /\ inserts' = inserts + 1
      BY <2>1 DEF InsertBegin
    <3> QED BY <3>1, FileFacts
  <2>2. CASE Continue(t)
    <3> HIDE DEF IInv, TypeOK
    <3>1. ASSUME Fetch(t) \/ Look(t) \/ LinkFetch(t)
          PROVE  inserts' = inserts
      BY <3>1 DEF Fetch, Look, LinkFetch
    <3>2. ASSUME Extend(t) \/ Link(t)
          PROVE  inserts' = inserts
      BY <3>2 DEF Extend, Link
    <3>3. ASSUME Insert(t) \/ InsertFails(t) \/ GetRead(t)
          PROVE  inserts' = inserts
      BY <3>3 DEF Insert, InsertFails, GetRead
    <3>4. inserts' = inserts
      BY <2>2, <3>1, <3>2, <3>3 DEF Continue
    <3> QED BY <3>4 DEF IInv, TypeOK
  <2>3. CASE \E n \in PageNums, slot \in Nat : GetBegin(t, n, slot)
    BY <2>3 DEF GetBegin
  <2> QED BY <2>1, <2>2, <2>3 DEF Moves
<1>3. CASE UNCHANGED <<spaceMap, stored>>
  BY <1>1, <1>2, <1>3
<1>4. CASE Insert(t)
  <2> DEFINE n == call[t].page
             page == Inserted(pages[n], call[t].tuple)
  <2>1. /\ n \in PageNums /\ call[t].tuple \in Tuples /\ FreeSpace(page) \in Nat
        /\ Len(page.slots) - 1 \in Nat
    BY <1>4, InsertPages
  <2>2. /\ spaceMap' = [spaceMap EXCEPT ![n] = FreeSpace(page)]
        /\ stored' = stored \cup {[page |-> n, slot |-> Len(page.slots) - 1,
                                   tuple |-> call[t].tuple]}
    BY <1>4 DEF Insert, RecordSpace
  <2> HIDE DEF page
  <2> QED BY <1>1, <1>2, <2>1, <2>2
<1> QED BY <1>3, <1>4, MovesPages

LEMMA NextIInv ==
    ASSUME IInv, [Next]_vars
    PROVE  IInv'
<1>1. AppendsAreBounded'
  BY NextAppends
<1>2. ASSUME NEW t \in Threads, Moves(t)
      PROVE  IInv'
  <2>1. PinsAreInts /\ LeaksOnError(t)
    BY <1>2, MovesPins
  <2>2. ASSUME NEW n \in PageNums
        PROVE  Leaked(n)' >= 0 /\ pins'[n] \in Nat
    <3>1. Leaked(n) \in Int /\ Leaked(n) >= 0 /\ Leaked(n)' >= Leaked(n) /\ pins'[n] \in Int
      BY <2>1, LeakedIsInt DEF IInv, UsedPagesArePinned, LeaksOnError, PinsAreInts
    <3>2. Leaked(n)' = pins'[n] - Cardinality(Pinners(held', n))
      BY DEF Leaked, Pinners
    <3> QED BY <3>1, <3>2, PinnersFinite
  <2>3. pins' \in [PageNums -> Nat]
    BY <2>1, <2>2 DEF PinsAreInts
  <2>4. UsedPagesArePinned'
    BY <2>2 DEF UsedPagesArePinned
  <2> QED BY <1>1, <1>2, <2>3, <2>4, MovesKeepPages, MovesCalls, MovesOthers DEF IInv, TypeOK
<1>3. CASE UNCHANGED vars
  <2>1. held' = held
    BY <1>3 DEF held, Holding, vars
  <2>2. \A n \in PageNums : Leaked(n)' = Leaked(n)
    BY <1>3, <2>1 DEF Leaked, Pinners, vars
  <2>3. UsedPagesArePinned'
    BY <2>2 DEF IInv, UsedPagesArePinned
  <2> QED BY <1>1, <1>3, <2>3
          DEF vars, IInv, TypeOK, PagesAreWellFormed, CallsHaveTuples, LinksStayInFile
<1> QED BY <1>2, <1>3, NextMoves

THEOREM HeapInvariance == Spec => []IInv
BY InitIInv, NextIInv, PTL DEF Spec

-----------------------------------------------------------------------------
(* The properties. *)

\* The variables keep their types; the pool is never asked to unpin a page more
\* often than it was fetched.
THEOREM HeapTypes == Spec => []TypeOK
BY HeapInvariance, PTL DEF IInv

\* However inserts race, and whatever the free space map said, no tuple is
\* written over another one, over the slots or over the header.
THEOREM TuplesNeverOverlap == Spec => []PagesAreWellFormed
BY HeapInvariance, PTL DEF IInv

LEMMA NextStored ==
    ASSUME IInv, StoredTuplesStay, [Next]_vars
    PROVE  StoredTuplesStay'
<1>1. ASSUME NEW t \in Threads, Insert(t)
      PROVE  StoredTuplesStay'
  <2> DEFINE n == call[t].page
             page == Inserted(pages[n], call[t].tuple)
  <2>1. /\ pages'[n] = page /\ \A m \in PageNums \ {n} : pages'[m] = pages[m]
        /\ Len(page.slots) - 1 = Len(pages[n].slots)
        /\ Len(pages[n].slots) \in Nat
        /\ \A i \in DOMAIN pages[n].slots : page.slots[i] = pages[n].slots[i]
        /\ page.slots[Len(pages[n].slots) + 1].tuple = call[t].tuple
        /\ n \in PageNums
    BY <1>1, InsertPages
  <2>2. stored' = stored \cup {[page |-> n, slot |-> Len(page.slots) - 1, tuple |-> call[t].tuple]}
    BY <1>1 DEF Insert
  <2>3. page \in Pages /\ pages[n] \in Pages
    <3>1. pages' \in [PageNums -> Pages] /\ pages \in [PageNums -> Pages]
      BY <1>1, InsertPages DEF IInv, TypeOK
    <3> HIDE DEF page, n
    <3> QED BY <2>1, <3>1
  <2>4. Len(page.slots) = Len(pages[n].slots) + 1 /\ DOMAIN pages[n].slots = 1 .. Len(pages[n].slots)
    BY <2>1, <2>3 DEF Pages
  <2> HIDE DEF page
  <2>5. ASSUME NEW s \in stored
        PROVE  Holds(pages'[s.page], s.slot, s.tuple)
    <3>1. s.page \in PageNums /\ s.slot \in Nat /\ Holds(pages[s.page], s.slot, s.tuple)
      BY DEF IInv, TypeOK, StoredTuplesStay
    <3>2. CASE s.page = n
      <4>1. s.slot < Len(pages[n].slots) /\ pages[n].slots[s.slot + 1].tuple = s.tuple
        BY <3>1, <3>2 DEF Holds
      <4>2. s.slot + 1 \in DOMAIN pages[n].slots
        BY <2>1, <2>4, <3>1, <4>1
      <4>3. page.slots[s.slot + 1].tuple = s.tuple
        BY <2>1, <4>1, <4>2
      <4>4. s.slot < Len(page.slots)
        BY <2>1, <2>4, <3>1, <4>1
      <4>5. pages'[s.page] = page
        BY <2>1, <3>2
      <4> QED BY <4>3, <4>4, <4>5 DEF Holds
    <3> QED BY <2>1, <3>1, <3>2
  <2>6. Holds(pages'[n], Len(page.slots) - 1, call[t].tuple)
    BY <2>1, <2>4 DEF Holds
  <2> QED BY <2>2, <2>5, <2>6 DEF StoredTuplesStay
<1>2. ASSUME NEW t \in Threads, UNCHANGED stored,
             pages' = [pages EXCEPT ![call[t].last] = Linked(@, call[t].new)]
      PROVE  StoredTuplesStay'
  <2>1. \A n \in PageNums : pages'[n].slots = pages[n].slots
    BY <1>2, CallFacts, LinkPages
  <2> QED BY <1>2, <2>1 DEF StoredTuplesStay, Holds, IInv, TypeOK
<1>3. CASE UNCHANGED <<pages, stored>>
  BY <1>3 DEF StoredTuplesStay
<1>4. CASE UNCHANGED vars
  BY <1>3, <1>4 DEF vars
<1> QED BY <1>1, <1>2, <1>3, <1>4, NextMoves, MovesPages

\* The CTID that insert_tuple returned leads to its tuple ever after.
THEOREM CtidsKeepTheirTuples == Spec => []StoredTuplesStay
<1>1. Init => StoredTuplesStay
  BY DEF Init, StoredTuplesStay
<1> QED BY <1>1, NextStored, HeapInvariance, PTL DEF Spec

LEMMA NextSpaceMap ==
    ASSUME IInv, SpaceMapIsExact, [Next]_vars
    PROVE  SpaceMapIsExact'
<1>1. ASSUME NEW t \in Threads, Insert(t)
      PROVE  SpaceMapIsExact'
  <2> DEFINE n == call[t].page
             page == Inserted(pages[n], call[t].tuple)
  <2>1. /\ pages'[n] = page /\ \A m \in PageNums \ {n} : pages'[m] = pages[m]
        /\ n \in PageNums
    BY <1>1, InsertPages
  <2>2. spaceMap' = [spaceMap EXCEPT ![n] = FreeSpace(page)]
    BY <1>1 DEF Insert, RecordSpace
  <2> HIDE DEF page
  <2> QED BY <2>1, <2>2 DEF SpaceMapIsExact, IInv, TypeOK
<1>2. ASSUME NEW t \in Threads, UNCHANGED spaceMap,
             pages' = [pages EXCEPT ![call[t].last] = Linked(@, call[t].new)]
      PROVE  SpaceMapIsExact'
  <2>1. \A n \in PageNums : FreeSpace(pages'[n]) = FreeSpace(pages[n])
    BY <1>2, CallFacts, LinkPages
  <2> QED BY <1>2, <2>1 DEF SpaceMapIsExact
<1>3. CASE UNCHANGED <<pages, spaceMap>>
  BY <1>3 DEF SpaceMapIsExact
<1>4. CASE UNCHANGED vars
  BY <1>3, <1>4 DEF vars
<1> QED BY <1>1, <1>2, <1>3, <1>4, NextMoves, MovesPages

\* Where the free space map knows a page it knows its free space, not an
\* approximation of it.
THEOREM SpaceMapStaysExact == Spec => []SpaceMapIsExact
<1>1. Init => SpaceMapIsExact
  BY DEF Init, SpaceMapIsExact
<1> QED BY <1>1, NextSpaceMap, HeapInvariance, PTL DEF Spec

LEMMA NextLeaks ==
    ASSUME IInv, [Next]_vars
    PROVE  \A n \in PageNums :
               /\ Leaked(n)' >= Leaked(n)
               /\ Leaked(n)' > Leaked(n) =>
                      \E t \in Threads : pc[t] # "idle" /\ pc'[t] = "idle" /\ answer'[t] = "error"
<1>1. ASSUME NEW t \in Threads, Moves(t)
      PROVE  LeaksOnError(t)
  BY <1>1, MovesPins
<1>2. ASSUME UNCHANGED vars, NEW n \in PageNums
      PROVE  Leaked(n)' = Leaked(n)
  BY <1>2 DEF vars, Leaked, Pinners, held, Holding
<1> QED BY <1>1, <1>2, NextMoves, LeakedIsInt DEF LeaksOnError

\* A pin outlives the call it was taken for only if the call returned an error.
THEOREM PinsLeakOnlyWithErrors == Spec => OnlyErrorsLeakPins
<1>1. IInv /\ [Next]_vars =>
          [\A n \in PageNums :
              /\ Leaked(n)' >= Leaked(n)
              /\ Leaked(n)' > Leaked(n) =>
                     \E t \in Threads :
                         pc[t] # "idle" /\ pc'[t] = "idle" /\ answer'[t] = "error"]_vars
  BY NextLeaks
<1> QED BY <1>1, HeapInvariance, PTL DEF Spec, OnlyErrorsLeakPins
=============================================================================
