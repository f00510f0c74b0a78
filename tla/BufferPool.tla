----------------------------- MODULE BufferPool ------------------------------
(***************************************************************************)
(* wasdb_buffer/src/buffer_pool.rs and frame.rs over the disk manager of   *)
(* wasdb_storage and the log manager of wasdb_wal, as the threads that     *)
(* fetch, latch, change, unpin and flush pages see them.                   *)
(*                                                                         *)
(* The page_table mutex is held through fetch_page, unpin_page, flush_page *)
(* and flush_all_pages, and everything they touch but the page images and  *)
(* the log is touched only under it: fetch_page and unpin_page, which wait *)
(* for no page latch another thread can hold, are one step each; the two   *)
(* flushes can wait for a writer's latch, so they hold the mutex           *)
(* (flushKind) from their first step to their last.                        *)
(*                                                                         *)
(* A handle is one outstanding fetch_page of a client: open from the fetch *)
(* to its unpin_page, with at most one page latch (read_page, write_page)  *)
(* taken and dropped in between, as TableHeap and BTreeIndex do.           *)
(***************************************************************************)
EXTENDS Integers, FiniteSets

CONSTANTS PageIds,   \* the pages clients ask for: [file_id, page_num]
          PoolSize,  \* number of frames
          Handles,   \* bound on the fetches outstanding at a time
          Data,      \* what a client may put in a page
          ZeroData, BlankData, TornData, \* a page never written, a frame never
                                         \* loaded, a write cut short
          NoPage,    \* None
          MaxLsn,    \* bound on the log's sequence numbers
          Faults     \* what may fail: "read" and "write" of a page, a write
                     \* that stores a part of the page ("tear"), "sync" of the log

ASSUME PageIdsAssumption ==
    /\ PageIds \subseteq [file_id : Nat, page_num : Nat]
    /\ NoPage \notin PageIds
ASSUME PoolSizeAssumption == PoolSize \in Nat \ {0}
ASSUME HandlesAssumption == IsFiniteSet(Handles)
ASSUME MaxLsnAssumption == MaxLsn \in Nat
ASSUME FaultsAssumption == Faults \subseteq {"read", "write", "tear", "sync"}

Frames == 0 .. PoolSize - 1
NoFrame == -1
PageNums == {p.page_num : p \in PageIds}

\* SlottedPage: its header's log_sequence_number and the rest of it.
Contents == [data : Data \cup {ZeroData, BlankData, TornData}, lsn : Nat]
ZeroPage == [data |-> ZeroData, lsn |-> 0]
BlankPage == [data |-> BlankData, lsn |-> 0]

VARIABLES
    pageTable,   \* page_table: the frame that holds a page, or NoFrame
    pageId,      \* descriptors[f].page_id
    pinCount,    \* descriptors[f].pin_count
    dirty,       \* descriptors[f].is_dirty
    frames,      \* frames[f]: the page image in memory
    tracked,     \* frames the replacer tracks
    pinned,      \* frames whose pin flag is set in the replacer
    disk,        \* the page images of the database file
    nextLsn,     \* LogManager.next_lsn
    flushedLsn,  \* LogManager.flushed_lsn
    durableLsn,  \* ghost: the log's records up to this one are on disk
    hPage,       \* the page a handle was fetched for, or NoPage
    hFrame,      \* the frame fetch_page returned for it, or NoFrame
    latch,       \* the latch the handle holds on its frame
    wrote,       \* the client changed the page since it was fetched
    flushKind,   \* who holds page_table across steps: "idle", "page", "all"
    flushFrame   \* the frame that flush has come to

table == <<pageTable, pageId>>
policy == <<tracked, pinned>>
log == <<nextLsn, flushedLsn, durableLsn>>
clients == <<hPage, hFrame, latch, wrote>>
flush == <<flushKind, flushFrame>>
vars == <<table, pinCount, dirty, frames, policy, disk, log, clients, flush>>

-----------------------------------------------------------------------------
\* BufferPoolManager::with_log_manager over an empty file.
Init ==
    /\ pageTable = [p \in PageIds |-> NoFrame]
    /\ pageId = [f \in Frames |-> NoPage]
    /\ pinCount = [f \in Frames |-> 0]
    /\ dirty = [f \in Frames |-> FALSE]
    /\ frames = [f \in Frames |-> BlankPage]
    /\ tracked = {}
    /\ pinned = {}
    /\ disk = [n \in PageNums |-> ZeroPage]
    /\ nextLsn = 1
    /\ flushedLsn = 0
    /\ durableLsn = 0
    /\ hPage = [h \in Handles |-> NoPage]
    /\ hFrame = [h \in Handles |-> NoFrame]
    /\ latch = [h \in Handles |-> "none"]
    /\ wrote = [h \in Handles |-> FALSE]
    /\ flushKind = "idle"
    /\ flushFrame = 0

Open(h) == hPage[h] # NoPage
Holders(f) == {h \in Handles : hFrame[h] = f}
Unlatched(f) == \A h \in Holders(f) : latch[h] = "none"
NoWriter(f) == \A h \in Holders(f) : latch[h] # "write"

-----------------------------------------------------------------------------
(* The log manager, as the pool and its clients use it. *)

\* LogManager::flush, when sync_data succeeds.
LogSynced ==
    /\ flushedLsn' = nextLsn - 1
    /\ durableLsn' = nextLsn - 1
    /\ UNCHANGED nextLsn

\* Bug: the image's own record is not waited for.
FlushWalTooLate(c) ==
    \/ flushedLsn + 1 < c.lsn /\ LogSynced
    \/ flushedLsn + 1 >= c.lsn /\ UNCHANGED log

\* flush_wal: before image c goes to disk.  The result of LogManager::flush is
\* dropped, so a failing sync_data changes nothing and stops nothing.
FlushWal(c) ==
    \/ flushedLsn < c.lsn /\ LogSynced
    \/ flushedLsn < c.lsn /\ "sync" \in Faults /\ UNCHANGED log
    \/ flushedLsn >= c.lsn /\ UNCHANGED log

\* A record of another page or of a transaction's end is appended.
LogAppend ==
    /\ nextLsn <= MaxLsn
    /\ nextLsn' = nextLsn + 1
    /\ UNCHANGED <<table, pinCount, dirty, frames, policy, disk, flushedLsn,
                   durableLsn, clients, flush>>

\* A client flushes the log.
LogFlush ==
    /\ LogSynced
    /\ UNCHANGED <<table, pinCount, dirty, frames, policy, disk, clients, flush>>

-----------------------------------------------------------------------------
(* The disk manager, which keeps one file and does not look at file_id. *)

Number(f) == pageId[f].page_num

\* read_page into frame f, after what the step writes; zeros past the file's end.
ReadPage(n, f) == frames' = [frames EXCEPT ![f] = disk'[n]]

\* write_page of the frame's image under its page's number.
WriteBack(f) == disk' = [disk EXCEPT ![Number(f)] = frames[f]]

\* write_page returns an error: nothing or all of the image was stored, or a
\* part of it with the header.  A crash in the middle of a write is this, then
\* Restart.
WriteBackFails(f) ==
    \/ "write" \in Faults /\ UNCHANGED disk
    \/ "write" \in Faults /\ WriteBack(f)
    \/ "tear" \in Faults
       /\ disk' = [disk EXCEPT ![Number(f)] = [frames[f] EXCEPT !.data = TornData]]

-----------------------------------------------------------------------------
(* fetch_page *)

EmptyFrames == {f \in Frames : pageId[f] = NoPage}

\* Bug: the victim is any tracked frame, pinned or not.
IsVictimPinnedOrNot(f) == f \in EmptyFrames \/ (EmptyFrames = {} /\ f \in tracked)

\* find_victim_frame: the first empty frame, else what the replacer evicts.
IsVictim(f) ==
    IF EmptyFrames # {}
    THEN f \in EmptyFrames /\ \A g \in EmptyFrames : f <= g
    ELSE f \in tracked \ pinned

Misses(h, p, f) ==
    /\ flushKind = "idle"
    /\ ~Open(h)
    /\ pageTable[p] = NoFrame
    /\ IsVictim(f)

\* Bug: the pin count is not incremented.
PinUncounted(f) ==
    pinned' = pinned \cup {f} /\ tracked' = tracked \cup {f} /\ UNCHANGED pinCount

\* Bug: record_access is not called, so an evicted frame is not tracked again.
PinUntracked(f) ==
    /\ pinCount' = [pinCount EXCEPT ![f] = @ + 1]
    /\ pinned' = pinned \cup {f}
    /\ UNCHANGED tracked

\* desc.pin, set_pin(true) and record_access.
Pin(f) ==
    /\ pinCount' = [pinCount EXCEPT ![f] = @ + 1]
    /\ pinned' = pinned \cup {f}
    /\ tracked' = tracked \cup {f}

\* Ok(f) to the caller.
PinFor(h, p, f) ==
    /\ Pin(f)
    /\ hPage' = [hPage EXCEPT ![h] = p]
    /\ hFrame' = [hFrame EXCEPT ![h] = f]

\* Bug: the victim's page stays in page_table.
RemapKeepingOld(p, f) ==
    /\ pageTable' = [pageTable EXCEPT ![p] = f]
    /\ pageId' = [pageId EXCEPT ![f] = p]

\* The victim's page gives way to p in page_table and in the descriptor.
Remap(p, f) ==
    /\ pageTable' = [q \in PageIds |-> IF q = p THEN f
                                       ELSE IF q = pageId[f] THEN NoFrame
                                       ELSE pageTable[q]]
    /\ pageId' = [pageId EXCEPT ![f] = p]

\* Bug: the dirty victim's flag is cleared, but the image is not written.
CleanVictimUnwritten(f) ==
    /\ dirty' = [dirty EXCEPT ![f] = FALSE]
    /\ UNCHANGED <<log, disk>>

\* A dirty victim goes to disk first.
CleanVictim(f) ==
    /\ IF dirty[f] THEN FlushWal(frames[f]) /\ WriteBack(f)
                   ELSE UNCHANGED <<log, disk>>
    /\ dirty' = [dirty EXCEPT ![f] = FALSE]

FetchHit(h, p) ==
    /\ flushKind = "idle"
    /\ ~Open(h)
    /\ pageTable[p] # NoFrame
    /\ PinFor(h, p, pageTable[p])
    /\ UNCHANGED <<table, dirty, frames, disk, log, latch, wrote, flush>>

FetchMiss(h, p, f) ==
    /\ Misses(h, p, f)
    /\ CleanVictim(f)
    /\ Remap(p, f)
    /\ ReadPage(p.page_num, f)
    /\ PinFor(h, p, f)
    /\ UNCHANGED <<latch, wrote, flush>>

\* The victim cannot be written: it keeps its page, but the replacer has
\* already let go of it.
FetchWriteFails(h, p, f) ==
    /\ Misses(h, p, f)
    /\ dirty[f]
    /\ FlushWal(frames[f])
    /\ WriteBackFails(f)
    /\ tracked' = tracked \ {f}
    /\ UNCHANGED <<table, pinCount, dirty, frames, pinned, clients, flush>>

\* The page cannot be read: page_table already maps it to the frame, which
\* still holds the victim's image, with no pin and not tracked.
FetchReadFails(h, p, f) ==
    /\ "read" \in Faults
    /\ Misses(h, p, f)
    /\ CleanVictim(f)
    /\ Remap(p, f)
    /\ tracked' = tracked \ {f}
    /\ UNCHANGED <<pinCount, frames, pinned, clients, flush>>

-----------------------------------------------------------------------------
(* What a client does with its frame. *)

\* read_page and write_page wait for the frame's RwLock.
Latch(h, mode) ==
    /\ Open(h)
    /\ latch[h] = "none"
    /\ IF mode = "write" THEN Unlatched(hFrame[h]) ELSE NoWriter(hFrame[h])
    /\ latch' = [latch EXCEPT ![h] = mode]
    /\ UNCHANGED <<table, pinCount, dirty, frames, policy, disk, log, hPage,
                   hFrame, wrote, flush>>

\* The page changes; a logged change carries the sequence number of the record
\* appended for it.
Modify(h, d, logged) ==
    /\ latch[h] = "write"
    /\ logged => nextLsn <= MaxLsn
    /\ frames' = [frames EXCEPT ![hFrame[h]] =
                     [data |-> d, lsn |-> IF logged THEN nextLsn ELSE @.lsn]]
    /\ nextLsn' = IF logged THEN nextLsn + 1 ELSE nextLsn
    /\ wrote' = [wrote EXCEPT ![h] = TRUE]
    /\ UNCHANGED <<table, pinCount, dirty, policy, disk, flushedLsn, durableLsn,
                   hPage, hFrame, latch, flush>>

Unlatch(h) ==
    /\ latch[h] # "none"
    /\ latch' = [latch EXCEPT ![h] = "none"]
    /\ UNCHANGED <<table, pinCount, dirty, frames, policy, disk, log, hPage,
                   hFrame, wrote, flush>>

\* Bug: the flag is overwritten, so a reader's unpin clears a writer's mark.
MarkDirtyOrClean(f, isDirty) == dirty' = [dirty EXCEPT ![f] = isDirty]

MarkDirty(f, isDirty) == dirty' = [dirty EXCEPT ![f] = @ \/ isDirty]

\* Bug: the replacer's pin flag is reset by the first of several unpins.
LetGoEarly(f) ==
    /\ pinCount' = [pinCount EXCEPT ![f] = @ - 1]
    /\ pinned' = pinned \ {f}
    /\ UNCHANGED tracked

\* desc.unpin and set_pin(false), which may make the replacer track the frame
\* (ReplacementPolicy).
LetGo(f) ==
    /\ pinCount' = [pinCount EXCEPT ![f] = @ - 1]
    /\ IF pinCount[f] = 1
       THEN pinned' = pinned \ {f} /\ tracked' \in {tracked, tracked \cup {f}}
       ELSE UNCHANGED policy

\* unpin_page, called with the page's id; a client that wrote passes TRUE.
Unpin(h, isDirty) ==
    LET f == pageTable[hPage[h]] IN
    /\ flushKind = "idle"
    /\ Open(h)
    /\ latch[h] = "none"
    /\ wrote[h] => isDirty
    /\ f # NoFrame
    /\ MarkDirty(f, isDirty)
    /\ LetGo(f)
    /\ hPage' = [hPage EXCEPT ![h] = NoPage]
    /\ hFrame' = [hFrame EXCEPT ![h] = NoFrame]
    /\ wrote' = [wrote EXCEPT ![h] = FALSE]
    /\ UNCHANGED <<table, frames, disk, log, latch, flush>>

-----------------------------------------------------------------------------
(* flush_page and flush_all_pages *)

FlushPageBegin(p) ==
    /\ flushKind = "idle"
    /\ pageTable[p] # NoFrame
    /\ flushKind' = "page"
    /\ flushFrame' = pageTable[p]
    /\ UNCHANGED <<table, pinCount, dirty, frames, policy, disk, log, clients>>

FlushAllBegin ==
    /\ flushKind = "idle"
    /\ flushKind' = "all"
    /\ flushFrame' = 0
    /\ UNCHANGED <<table, pinCount, dirty, frames, policy, disk, log, clients>>

\* Is the frame the flush has come to one it writes?
MustWrite ==
    /\ flushFrame \in Frames
    /\ flushKind = "page" \/ (flushKind = "all" /\ dirty[flushFrame]
                                                /\ pageId[flushFrame] # NoPage)

FlushReturn == flushKind' = "idle" /\ flushFrame' = 0

\* The read latch is granted and the frame goes to disk.
FlushWrite ==
    /\ MustWrite
    /\ NoWriter(flushFrame)
    /\ FlushWal(frames[flushFrame])
    /\ WriteBack(flushFrame)
    /\ dirty' = [dirty EXCEPT ![flushFrame] = FALSE]
    /\ IF flushKind = "page" THEN FlushReturn
       ELSE flushFrame' = flushFrame + 1 /\ UNCHANGED flushKind
    /\ UNCHANGED <<table, pinCount, frames, policy, clients>>

\* Bug: flush_all_pages drops the error and goes on to the next frame.
FlushGoesOn ==
    IF flushKind = "all" THEN flushFrame' = flushFrame + 1 /\ UNCHANGED flushKind
                         ELSE FlushReturn

\* Bug: the failed write is tried again, without end.
FlushRetries == UNCHANGED flush

\* The first error ends the flush; the frames after it are not visited.
FlushGivesUp == FlushReturn

FlushWriteFails ==
    /\ MustWrite
    /\ NoWriter(flushFrame)
    /\ FlushWal(frames[flushFrame])
    /\ WriteBackFails(flushFrame)
    /\ FlushGivesUp
    /\ UNCHANGED <<table, pinCount, dirty, frames, policy, clients>>

FlushSkip ==
    /\ flushKind = "all"
    /\ ~MustWrite
    /\ IF flushFrame \in Frames
       THEN flushFrame' = flushFrame + 1 /\ UNCHANGED flushKind
       ELSE FlushReturn
    /\ UNCHANGED <<table, pinCount, dirty, frames, policy, disk, log, clients>>

-----------------------------------------------------------------------------
(* The process stops and starts again. *)

\* LogManager::new takes its counters from the length of the log file, which is
\* at least its last durable sequence number (a record is at least 21 bytes
\* long).  Only a power loss may take the log's unsynced tail, and what is left
\* after one is durable.
LogReopened(len, powerLoss) ==
    /\ len \in durableLsn .. MaxLsn
    /\ powerLoss \/ len >= nextLsn - 1
    /\ nextLsn' = len + 1
    /\ flushedLsn' = len
    /\ durableLsn' = IF powerLoss THEN len ELSE durableLsn

\* write_page syncs, so disk is what it was; the pool starts empty.
Restart(len, powerLoss) ==
    /\ LogReopened(len, powerLoss)
    /\ pageTable' = [p \in PageIds |-> NoFrame]
    /\ pageId' = [f \in Frames |-> NoPage]
    /\ pinCount' = [f \in Frames |-> 0]
    /\ dirty' = [f \in Frames |-> FALSE]
    /\ frames' = [f \in Frames |-> BlankPage]
    /\ tracked' = {}
    /\ pinned' = {}
    /\ hPage' = [h \in Handles |-> NoPage]
    /\ hFrame' = [h \in Handles |-> NoFrame]
    /\ latch' = [h \in Handles |-> "none"]
    /\ wrote' = [h \in Handles |-> FALSE]
    /\ FlushReturn
    /\ UNCHANGED disk

-----------------------------------------------------------------------------
Fetch(h, p) ==
    \/ FetchHit(h, p)
    \/ \E f \in Frames : \/ FetchMiss(h, p, f)
                         \/ FetchWriteFails(h, p, f)
                         \/ FetchReadFails(h, p, f)

Use(h) ==
    \/ \E mode \in {"read", "write"} : Latch(h, mode)
    \/ \E d \in Data, logged \in BOOLEAN : Modify(h, d, logged)
    \/ Unlatch(h)
    \/ \E isDirty \in BOOLEAN : Unpin(h, isDirty)

FlushStep == FlushWrite \/ FlushWriteFails \/ FlushSkip

Next ==
    \/ \E h \in Handles : Use(h) \/ \E p \in PageIds : Fetch(h, p)
    \/ \E p \in PageIds : FlushPageBegin(p)
    \/ FlushAllBegin
    \/ FlushStep
    \/ LogAppend
    \/ LogFlush
    \/ \E len \in 0 .. MaxLsn, powerLoss \in BOOLEAN : Restart(len, powerLoss)

Spec == Init /\ [][Next]_vars

\* A latch guard is dropped at the end of its scope, in which no client waits
\* for the pool; the RwLock does not overtake a waiting reader forever.
Fairness ==
    /\ \A h \in Handles : WF_vars(Unlatch(h))
    /\ SF_vars(FlushStep)

FairSpec == Spec /\ Fairness
-----------------------------------------------------------------------------
(* Properties *)

\* The variables keep their types; no pin count goes below zero, so the
\* assertion of FrameDescriptor::unpin never fails.
TypeOK ==
    /\ pageTable \in [PageIds -> Frames \cup {NoFrame}]
    /\ pageId \in [Frames -> PageIds \cup {NoPage}]
    /\ pinCount \in [Frames -> Nat]
    /\ dirty \in [Frames -> BOOLEAN]
    /\ frames \in [Frames -> Contents]
    /\ tracked \subseteq Frames
    /\ pinned \subseteq Frames
    /\ disk \in [PageNums -> Contents]
    /\ nextLsn \in 1 .. MaxLsn + 1
    /\ flushedLsn \in Nat
    /\ durableLsn \in Nat
    /\ hPage \in [Handles -> PageIds \cup {NoPage}]
    /\ hFrame \in [Handles -> Frames \cup {NoFrame}]
    /\ latch \in [Handles -> {"none", "read", "write"}]
    /\ wrote \in [Handles -> BOOLEAN]
    /\ flushKind \in {"idle", "page", "all"}
    /\ flushFrame \in Nat

\* page_table and the descriptors agree: no page is in two frames, and no frame
\* is reachable under a page it gave up.
TableMatchesFrames ==
    \A p \in PageIds, f \in Frames : pageTable[p] = f <=> pageId[f] = p

\* While a client has a page fetched, the page stays in the frame it was told:
\* no other thread's fetch evicts or remaps it, whatever fails meanwhile.
HandlesStay ==
    \A h \in Handles : Open(h) => pageTable[hPage[h]] = hFrame[h]

\* A frame's pin count is the number of its outstanding fetches, and the
\* replacer's pin flag says whether there are any.
PinsCountHandles ==
    \A f \in Frames :
        /\ pinCount[f] = Cardinality(Holders(f))
        /\ f \in pinned <=> pinCount[f] > 0

\* Distinct pages have distinct page numbers: BasicDiskManager keeps one file
\* and ignores file_id.
SingleFile == \A p, q \in PageIds : p.page_num = q.page_num => p = q

\* A frame differs from its page on disk only if it is marked dirty or a client
\* that changed it has not unpinned it yet: an eviction that skips the
\* write-back of a clean frame loses nothing.
CleanFramesMatchDisk ==
    \A f \in Frames :
        pageId[f] # NoPage /\ frames[f] # disk[Number(f)]
            => dirty[f] \/ \E h \in Holders(f) : wrote[h]

\* When flush_all_pages has passed a frame, that frame is on disk, unless a
\* client that still has it fetched has changed it.
FlushAllStores ==
    flushKind = "all" =>
        \A f \in Frames :
            f < flushFrame /\ pageId[f] # NoPage /\ frames[f] # disk[Number(f)]
                => \E h \in Holders(f) : wrote[h]

\* Write-ahead logging: an image is on disk only if the log's records up to its
\* sequence number are.
WriteAheadRule == \A n \in PageNums : disk[n].lsn <= durableLsn

\* The frames lost to find_victim_frame until their page is asked for again:
\* in use by nobody, and out of the replacer's sight.  fetch_page answers
\* NoFreeFrames ("All frames are currently pinned") with such a frame unpinned.
Stranded == {f \in Frames : /\ pageId[f] # NoPage
                            /\ pinCount[f] = 0
                            /\ f \notin tracked}

\* No step that opens or closes a handle strands a frame, nor does a flush or a
\* restart: only a fetch_page that returns an error does.
OnlyFailedFetchesStrand ==
    [][\A f \in Frames :
           f \in Stranded' /\ f \notin Stranded =>
               /\ UNCHANGED <<clients, pinCount, flush>>
               /\ \E p \in PageIds : pageTable[p] = NoFrame /\ IsVictim(f)]_vars

\* What a client sees through a fetched page that nobody is changing is what
\* its page holds: the image on disk, or a newer one marked dirty.
FetchedPageIsItsPage ==
    \A h \in Handles :
        Open(h) => LET f == hFrame[h] IN
            \/ frames[f] = disk[hPage[h].page_num]
            \/ dirty[f]
            \/ \E g \in Holders(f) : wrote[g]

\* A flush that holds the page_table mutex gives it back.
FlushReturns == flushKind # "idle" ~> flushKind = "idle"

\* Caching is transparent: with the frame's image as a cached page's current
\* image, every step is a step of PageStore.  No eviction, error or flush changes
\* what a page holds, and a change is made under the page's only write guard.
Cached(n) == \E f \in Frames : pageId[f] # NoPage /\ Number(f) = n
FrameOf(n) == CHOOSE f \in Frames : pageId[f] # NoPage /\ Number(f) = n
Current == [n \in PageNums |-> IF Cached(n) THEN frames[FrameOf(n)] ELSE disk[n]]

Writing == {hPage[h].page_num : h \in {g \in Handles : latch[g] = "write"}}

Store == INSTANCE PageStore WITH
             Pages <- PageNums, Zero <- ZeroPage,
             current <- Current, stable <- disk, writing <- Writing

CachingIsTransparent == Store!Spec
=============================================================================
