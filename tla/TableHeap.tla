------------------------------ MODULE TableHeap ------------------------------
(***************************************************************************)
(* wasdb_catalog/src/heap.rs: threads that insert into one table heap and  *)
(* read from it, over the pool's contract: every page has one current      *)
(* image (PageStore), a page stays while it is pinned, and a page can be   *)
(* fetched unless every frame is pinned for another one, or the dirty page *)
(* it would replace cannot be written.                                     *)
(* A step is what a thread does from one call of fetch_page to the next:   *)
(* it looks at the page under its latch, and unpins it.                    *)
(***************************************************************************)
EXTENDS SlottedPage, FiniteSets

CONSTANTS Threads,
          NoTuple,     \* a call that inserts nothing
          Formatted,   \* how many linked pages the table's user has formatted
          PoolSize,    \* number of frames of the pool
          DiskFails,   \* may the page that must make room fail to be written?
          MaxInserts   \* bound on the calls of insert_tuple

ASSUME HeapAssumption ==
    /\ IsFiniteSet(Threads)
    /\ NoTuple \notin Tuples
    /\ Formatted \in Nat
    /\ PoolSize \in Nat \ {0}
    /\ DiskFails \in BOOLEAN
    /\ MaxInserts \in Nat

\* first_page_num is 0.  TableHeap::new allocates it if the user has none.
FirstPages == IF Formatted = 0 THEN 1 ELSE Formatted
PageNums == 0 .. FirstPages + MaxInserts - 1
Unknown == -1

VARIABLES
    pages,       \* the current image of each page of the file
    totalPages,  \* FileHandle.total_pages
    spaceMap,    \* FreeSpaceMap.space_map, Unknown where it has no entry
    pins,        \* how often a page is pinned
    pc,          \* where a thread is in its call
    call,        \* what it knows there: the tuple, the page the call has come
                 \* to, the one before it, the page appended, the slot to read
    answer,      \* what its last call returned
    stored,      \* ghost: the tuples inserted, with their CTID
    inserts      \* counter for the bound

vars == <<pages, totalPages, spaceMap, pins, pc, call, answer, stored, inserts>>
file == <<pages, totalPages, spaceMap, stored>>

Points == {"idle", "walk", "look", "append", "link", "linking", "place", "insert", "get",
           "read"}
Calls == [tuple : Tuples \cup {NoTuple}, page : PageNums, last : PageNums, new : PageNums,
          slot : Nat]
Idle == [tuple |-> NoTuple, page |-> 0, last |-> 0, new |-> 0, slot |-> 0]

Init ==
    /\ pages = [n \in PageNums |->
                   IF n >= Formatted THEN ZeroedPage
                   ELSE [FormattedPage EXCEPT !.next = IF n + 1 < Formatted THEN n + 1 ELSE End]]
    /\ totalPages = FirstPages
    /\ spaceMap = [n \in PageNums |-> Unknown]
    /\ pins = [n \in PageNums |-> 0]
    /\ pc = [t \in Threads |-> "idle"]
    /\ call = [t \in Threads |-> Idle]
    /\ answer = [t \in Threads |-> "none"]
    /\ stored = {}
    /\ inserts = 0

Goes(t, to, c) ==
    /\ pc' = [pc EXCEPT ![t] = to]
    /\ call' = [call EXCEPT ![t] = c]
    /\ UNCHANGED answer

Returns(t, result) ==
    /\ pc' = [pc EXCEPT ![t] = "idle"]
    /\ call' = [call EXCEPT ![t] = Idle]
    /\ answer' = [answer EXCEPT ![t] = result]

-----------------------------------------------------------------------------
(* The pool. *)

Pin(n) == pins' = [pins EXCEPT ![n] = @ + 1]
Unpin(n) == pins' = [pins EXCEPT ![n] = @ - 1]

FrameFor(n) == pins[n] > 0 \/ Cardinality({m \in PageNums : pins[m] > 0}) < PoolSize

\* fetch_page(n) returns Ok, and pins the page.
Fetched(n) == FrameFor(n) /\ Pin(n)

FetchFails(n) == (DiskFails \/ ~FrameFor(n)) /\ UNCHANGED pins

\* The page a thread is about to fetch, in a call that an error of that fetch
\* ends.
Fetches == {"walk", "place", "get"}
Step(from) ==
    CASE from = "walk" -> "look" [] from = "place" -> "insert" [] from = "get" -> "read"

Fetch(t) ==
    /\ pc[t] \in Fetches
    /\ \/ Fetched(call[t].page) /\ Goes(t, Step(pc[t]), call[t])
       \/ FetchFails(call[t].page) /\ Returns(t, "error")
    /\ UNCHANGED <<file, inserts>>

-----------------------------------------------------------------------------
(* insert_tuple *)

\* The slot and the record, but not the tuple's header.
Required(tuple) == Length[tuple] + SlotSize

\* The free space map knows a page with room, or the walk begins at the first.
InsertBegin(t, tuple) ==
    LET Known == {n \in PageNums : spaceMap[n] >= Required(tuple)} IN
    /\ pc[t] = "idle"
    /\ inserts < MaxInserts
    /\ inserts' = inserts + 1
    /\ \/ \E n \in Known : Goes(t, "place", [Idle EXCEPT !.tuple = tuple, !.page = n])
       \/ Known = {} /\ Goes(t, "walk", [Idle EXCEPT !.tuple = tuple])
    /\ UNCHANGED <<file, pins>>

\* Bug: the page is unpinned only where the walk goes on.
LetGoIfFull(n, room) == IF room THEN UNCHANGED pins ELSE Unpin(n)

\* The page is unpinned whether it has room or not.
LetGo(n, room) == Unpin(n)

\* At the end of the list last_page_num is the page before the last.
Look(t) ==
    LET c == call[t]
        page == pages[c.page]
        room == FreeSpace(page) >= Required(c.tuple)
    IN  /\ pc[t] = "look"
        /\ LetGo(c.page, room)
        /\ \/ room /\ Goes(t, "place", c)
           \/ ~room /\ page.next = End /\ Goes(t, "append", c)
           \/ /\ ~room /\ page.next # End
              /\ Goes(t, "walk", [c EXCEPT !.last = c.page, !.page = page.next])
        /\ UNCHANGED <<file, inserts>>

\* new_page: the page is allocated even if it cannot be fetched, and is not
\* formatted.
Extend(t) ==
    LET n == totalPages IN
    /\ pc[t] = "append"
    /\ totalPages' = totalPages + 1
    /\ \/ Fetched(n) /\ Goes(t, "link", [call[t] EXCEPT !.new = n])
       \/ FetchFails(n) /\ Returns(t, "error")
    /\ UNCHANGED <<pages, spaceMap, stored, inserts>>

\* If the page to link from cannot be fetched, the new one stays pinned.
LinkFetch(t) ==
    /\ pc[t] = "link"
    /\ \/ Fetched(call[t].last) /\ Goes(t, "linking", call[t])
       \/ FetchFails(call[t].last) /\ Returns(t, "error")
    /\ UNCHANGED <<file, inserts>>

\* Bug: the page linked from is formatted instead of the new one.
FormattedLink(page, new) == [FormattedPage EXCEPT !.next = new]

Linked(page, new) == [page EXCEPT !.next = new]

\* Bug: the page linked from is unpinned twice, the new one never.
UnpinLastTwice(last, new) == pins' = [pins EXCEPT ![last] = @ - 2]

UnpinBoth(last, new) ==
    pins' = [n \in PageNums |->
                pins[n] - (IF n = last THEN 1 ELSE 0) - (IF n = new THEN 1 ELSE 0)]

Link(t) ==
    LET c == call[t] IN
    /\ pc[t] = "linking"
    /\ pages' = [pages EXCEPT ![c.last] = Linked(@, c.new)]
    /\ UnpinBoth(c.last, c.new)
    /\ Goes(t, "place", [c EXCEPT !.page = c.new])
    /\ UNCHANGED <<totalPages, spaceMap, stored, inserts>>

\* Bug: the map is told the space there was before.
RecordSpaceBefore(n, page) ==
    spaceMap' = [spaceMap EXCEPT ![n] = FreeSpace(pages[n])]

\* fsm.update, under the page's latch.
RecordSpace(n, page) == spaceMap' = [spaceMap EXCEPT ![n] = FreeSpace(page)]

Insert(t) ==
    LET c == call[t]
        page == Inserted(pages[c.page], c.tuple)
    IN  /\ pc[t] = "insert"
        /\ Fits(pages[c.page], c.tuple)
        /\ pages' = [pages EXCEPT ![c.page] = page]
        /\ RecordSpace(c.page, page)
        /\ stored' = stored \cup {[page |-> c.page, slot |-> Len(page.slots) - 1,
                                   tuple |-> c.tuple]}
        /\ Unpin(c.page)
        /\ Returns(t, "Ok")
        /\ UNCHANGED <<totalPages, inserts>>

\* insert_record finds no room: the page stays pinned.
InsertFails(t) ==
    /\ pc[t] = "insert"
    /\ ~Fits(pages[call[t].page], call[t].tuple)
    /\ Returns(t, "error")
    /\ UNCHANGED <<file, pins, inserts>>

-----------------------------------------------------------------------------
(* get_tuple *)

GetBegin(t, n, slot) ==
    /\ pc[t] = "idle"
    /\ Goes(t, "get", [Idle EXCEPT !.page = n, !.slot = slot])
    /\ UNCHANGED <<file, pins, inserts>>

GetRead(t) ==
    LET c == call[t] IN
    /\ pc[t] = "read"
    /\ Unpin(c.page)
    /\ Returns(t, IF c.slot < Len(pages[c.page].slots) THEN "Ok" ELSE "error")
    /\ UNCHANGED <<file, inserts>>

-----------------------------------------------------------------------------
Continue(t) ==
    Fetch(t) \/ Look(t) \/ Extend(t) \/ LinkFetch(t) \/ Link(t) \/ Insert(t) \/ InsertFails(t)
        \/ GetRead(t)

Next ==
    \E t \in Threads :
        \/ Continue(t)
        \/ \E tuple \in Tuples : InsertBegin(t, tuple)
        \/ \E n \in 0 .. totalPages - 1 : \E slot \in 0 .. Len(pages[n].slots) :
               GetBegin(t, n, slot)

Spec == Init /\ [][Next]_vars

\* A thread in a call runs on.
FairSpec == Spec /\ \A t \in Threads : WF_vars(Continue(t))

-----------------------------------------------------------------------------
(* Properties *)

TypeOK ==
    /\ pages \in [PageNums -> Pages]
    /\ totalPages \in FirstPages .. FirstPages + MaxInserts
    /\ spaceMap \in [PageNums -> Nat \cup {Unknown}]
    /\ pins \in [PageNums -> Nat]
    /\ pc \in [Threads -> Points]
    /\ call \in [Threads -> Calls]
    /\ answer \in [Threads -> {"none", "Ok", "error"}]
    /\ stored \subseteq [page : PageNums, slot : Nat, tuple : Tuples]
    /\ inserts \in 0 .. MaxInserts

\* No tuple lies over another, over the slot array or over the header, however
\* inserts race for a page that the free space map or the walk had found room in.
PagesAreWellFormed == \A n \in PageNums : WellFormed(pages[n])

\* The CTID an insert returned leads to its tuple ever after, and to no other.
StoredTuplesStay == \A s \in stored : Holds(pages[s.page], s.slot, s.tuple)

\* What the free space map knows of a page is what the page has.
SpaceMapIsExact ==
    \A n \in PageNums : spaceMap[n] # Unknown => spaceMap[n] = FreeSpace(pages[n])

Roles == {"page", "last", "new"}

\* The pages a thread has pinned for the call it is in.
Holding(t) ==
    CASE pc[t] \in {"look", "insert", "read"} -> {<<"page", call[t].page>>}
      [] pc[t] = "link" -> {<<"new", call[t].new>>}
      [] pc[t] = "linking" -> {<<"new", call[t].new>>, <<"last", call[t].last>>}
      [] OTHER -> {}

held == [t \in Threads |-> Holding(t)]

\* Who has pinned page n, and what for.
Pinners(holdings, n) == {p \in Threads \X Roles : <<p[2], n>> \in holdings[p[1]]}

\* Pins of a page that belong to no call of now.
Leaked(n) == pins[n] - Cardinality(Pinners(held, n))

\* A page in use is pinned, and a pin is left behind by nothing but a call that
\* returns an error.
OnlyErrorsLeakPins ==
    [][\A n \in PageNums :
           /\ Leaked(n)' >= Leaked(n)
           /\ Leaked(n)' > Leaked(n) =>
                  \E t \in Threads : pc[t] # "idle" /\ pc'[t] = "idle" /\ answer'[t] = "error"]_vars

\* insert_tuple returns.
InsertReturns ==
    \A t \in Threads : call[t].tuple # NoTuple ~> call[t].tuple = NoTuple
=============================================================================
