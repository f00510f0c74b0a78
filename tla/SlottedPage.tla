----------------------------- MODULE SlottedPage -----------------------------
(***************************************************************************)
(* wasdb_page/src/lib.rs: the layout of a page of tuples.  A header, an    *)
(* array of slots that grows upwards behind it, and the tuples, which grow *)
(* downwards from the end of the page.  A slot stands with the tuple that  *)
(* was written where it points; that no other write reaches those bytes is *)
(* what WellFormed says.                                                   *)
(***************************************************************************)
EXTENDS Integers, Sequences

CONSTANTS PageSize,  \* PAGE_SIZE
          Tuples,    \* what may be stored: a record's bytes with its xmin
          Length     \* the length of a tuple's record

HeaderSize == 24       \* size_of::<SlottedPageHeader>()
SlotSize == 4          \* size_of::<PageSlot>()
TupleHeaderSize == 16  \* size_of::<TupleHeader>()
End == -1              \* next_page_num of the last page: u32::MAX

\* Sizes fit in the u16 they are cast to.
ASSUME PageSizeAssumption == PageSize \in HeaderSize .. 65535
ASSUME LengthAssumption ==
    /\ Length \in [Tuples -> Nat]
    /\ \A t \in Tuples : TupleHeaderSize + Length[t] + SlotSize <= 65535

Slots == [offset : Nat, length : Nat, tuple : Tuples]
Pages == [next : Int, lower : Nat, upper : Nat, slots : Seq(Slots)]

\* init.
FormattedPage ==
    [next |-> End, lower |-> HeaderSize, upper |-> PageSize, slots |-> <<>>]

\* A page on which init was not called, as read_page fills it.
ZeroedPage == [next |-> 0, lower |-> 0, upper |-> 0, slots |-> <<>>]

FreeSpace(page) == page.upper - page.lower

TotalLength(t) == TupleHeaderSize + Length[t]

\* Does insert_record find room?
Fits(page, t) == TotalLength(t) + SlotSize <= FreeSpace(page)

\* Bug: free_space_upper stays where it was.
InsertedInPlace(page, t) ==
    LET offset == page.upper - TotalLength(t) IN
    [page EXCEPT !.lower = @ + SlotSize,
                 !.slots = Append(@, [offset |-> offset, length |-> TotalLength(t),
                                      tuple |-> t])]

\* insert_record, when there is room: the new tuple's slot is the last one.
Inserted(page, t) ==
    LET offset == page.upper - TotalLength(t) IN
    [page EXCEPT !.lower = @ + SlotSize,
                 !.upper = offset,
                 !.slots = Append(@, [offset |-> offset, length |-> TotalLength(t),
                                      tuple |-> t])]

\* get_record finds tuple t in the slot, counted from zero.
Holds(page, slot, t) == slot < Len(page.slots) /\ page.slots[slot + 1].tuple = t

\* The two ends of the free space do not meet, the slot array ends where the
\* free space begins, and the tuples lie apart from each other and from it.
WellFormed(page) ==
    \/ page.slots = <<>> /\ page.lower = 0 /\ page.upper = 0
    \/ /\ page.lower = HeaderSize + SlotSize * Len(page.slots)
       /\ page.lower <= page.upper /\ page.upper <= PageSize
       /\ \A i \in DOMAIN page.slots :
              /\ page.slots[i].length = TotalLength(page.slots[i].tuple)
              /\ page.upper <= page.slots[i].offset
              /\ page.slots[i].offset + page.slots[i].length <= PageSize
              /\ \A j \in 1 .. i - 1 :
                     page.slots[i].offset + page.slots[i].length <= page.slots[j].offset
=============================================================================
