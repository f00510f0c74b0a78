----------------------------- MODULE DiskManager -----------------------------
(***************************************************************************)
(* wasdb_storage/src/lib.rs: BasicDiskManager over one file, which is a    *)
(* sequence of blocks, several to a page.  write_page keeps the mutex of   *)
(* the file for as long as it takes; a stop of the process finds it        *)
(* anywhere.  Pages are those of file 0, as file_id is not looked at.      *)
(***************************************************************************)
EXTENDS DiskPages, Sequences

Nothing == [page |-> 0, datum |-> Zero, done |-> 0]

VARIABLES
    file,        \* the blocks of the file, as its readers see them
    synced,      \* the blocks that are on disk
    totalPages,  \* total_pages
    writing,     \* the write_page that runs: its page, its datum and how many
                 \* blocks are written, or Nothing
    answer,      \* the blocks the last read_page returned
    firstPage,   \* ghost: total_pages when the file was opened
    unsure       \* ghost: the pages whose last write has not ended, or failed

vars == <<file, synced, totalPages, writing, answer, firstPage, unsure>>

Zeros(n) == [i \in 1 .. n |-> Zero]

\* Bug: the number of the last page.
PagesOfLast(blocks) == IF blocks = <<>> THEN 0 ELSE (Len(blocks) - 1) \div PAGE_SIZE

\* total_pages of a file that is opened.
PagesOf(blocks) == Len(blocks) \div PAGE_SIZE

Opened(blocks) ==
    /\ file' = blocks
    /\ totalPages' = PagesOf(blocks)
    /\ firstPage' = totalPages'

Init ==
    /\ file = <<>>
    /\ synced = <<>>
    /\ totalPages = 0
    /\ writing = Nothing
    /\ answer = Zeros(PAGE_SIZE)
    /\ firstPage = 0
    /\ unsure = {}

-----------------------------------------------------------------------------
\* The blocks of a page that are in the file, and zeros for the rest of it.
PageIn(p) ==
    [i \in 1 .. PAGE_SIZE |->
        IF p * PAGE_SIZE + i <= Len(file) THEN file[p * PAGE_SIZE + i] ELSE Zero]

ReadPage(p) ==
    /\ writing = Nothing
    /\ answer' = PageIn(p)
    /\ UNCHANGED <<file, synced, totalPages, writing, firstPage, unsure>>

AllocatePage ==
    /\ totalPages < MaxPages
    /\ totalPages' = totalPages + 1
    /\ UNCHANGED <<file, synced, writing, answer, firstPage, unsure>>

-----------------------------------------------------------------------------
(* write_page, of a page the file's user has been given *)

WriteBegin(p, d) ==
    /\ writing = Nothing
    /\ p < totalPages
    /\ writing' = [page |-> p, datum |-> d, done |-> 0]
    /\ unsure' = unsure \cup {p}
    /\ UNCHANGED <<file, synced, totalPages, answer, firstPage>>

\* A file written behind its end is filled up with zeros.
Put(blocks, i, d) ==
    [j \in 1 .. (IF i > Len(blocks) THEN i ELSE Len(blocks)) |->
        IF j = i THEN d ELSE IF j <= Len(blocks) THEN blocks[j] ELSE Zero]

WriteBlock ==
    /\ writing # Nothing /\ writing.done < PAGE_SIZE
    /\ writing' = [writing EXCEPT !.done = @ + 1]
    /\ file' = Put(file, writing.page * PAGE_SIZE + writing'.done, writing.datum)
    /\ UNCHANGED <<synced, totalPages, answer, firstPage, unsure>>

WriteReturns ==
    /\ writing # Nothing /\ writing.done = PAGE_SIZE
    /\ synced' = file
    /\ writing' = Nothing
    /\ unsure' = unsure \ {writing.page}
    /\ UNCHANGED <<file, totalPages, answer, firstPage>>

\* seek, write_all or sync_data fails.
WriteFails ==
    /\ writing # Nothing
    /\ writing' = Nothing
    /\ UNCHANGED <<file, synced, totalPages, answer, firstPage, unsure>>

-----------------------------------------------------------------------------
\* After a power loss each block behind the last sync is there or not.
Survives(blocks) ==
    /\ Len(blocks) \in Len(synced) .. Len(file)
    /\ \A i \in DOMAIN blocks :
           blocks[i] \in {file[i], IF i <= Len(synced) THEN synced[i] ELSE Zero}

\* The process stops, and BasicDiskManager::new opens the file again.
Restart ==
    /\ \/ Opened(file) /\ UNCHANGED synced
       \/ \E n \in Len(synced) .. Len(file) : \E blocks \in [1 .. n -> Blocks] :
              Survives(blocks) /\ Opened(blocks) /\ synced' = blocks
    /\ writing' = Nothing
    /\ UNCHANGED <<answer, unsure>>

Next ==
    \/ \E p \in PageNums : ReadPage(p) \/ \E d \in Data : WriteBegin(p, d)
    \/ AllocatePage
    \/ WriteBlock \/ WriteReturns \/ WriteFails
    \/ Restart

Spec == Init /\ [][Next]_vars

-----------------------------------------------------------------------------
(* Properties *)

TypeOK ==
    /\ file \in Seq(Blocks)
    /\ synced \in Seq(Blocks) /\ Len(synced) <= Len(file)
    /\ totalPages \in 0 .. MaxPages
    /\ writing \in [page : PageNums, datum : Data, done : 0 .. PAGE_SIZE] \cup {Nothing}
    /\ answer \in [1 .. PAGE_SIZE -> Blocks]
    /\ firstPage \in 0 .. totalPages
    /\ unsure \subseteq PageNums

\* The pages of the abstract file: one that was written in full holds one datum.
Whole(blocks) == IF \A i \in DOMAIN blocks : blocks[i] = blocks[1] THEN blocks[1] ELSE Unsure

\* However writes fail and the process stops in the middle of one, a page whose last
\* write returned Ok is read as written, also after a power loss; and allocate_page
\* hands out no page twice in a process, and none that an earlier one has written.
File == INSTANCE PageFile WITH
            image <- [p \in PageNums |-> IF p \in unsure THEN Unsure ELSE Whole(PageIn(p))],
            given <- firstPage .. totalPages - 1,
            answer <- Whole(answer)
ImplementsPageFile == File!Spec
=============================================================================
