# A TLA+ model of wasdb

wasdb is a small relational database in Rust: a disk manager, a buffer pool, a
write-ahead log, slotted pages, a table heap, transactions with multi-version
visibility, B+ tree and hash indexes, a Volcano-style query engine and a terminal
client. This directory holds TLA+ modules that model its storage core, its indexes,
its query engine and the parser of its statements, the TLC configurations that
check them on small instances, and theorems about them that the TLA+ proof system
checks for every value of the constants. `PROJECT.json` is
the index: which definition models which lines, what each run checks, which
broken variant each property catches, which hazards there are and which
properties cover them.

## 1. The system

| component | state | operations | uses |
|---|---|---|---|
| disk manager (`wasdb_storage`) | one file, `total_pages` | `read_page`, `write_page`, `allocate_page`, `deallocate_page` (no-op) | the file, under one mutex |
| buffer pool (`wasdb_buffer`: `buffer_pool.rs`, `frame.rs`) | `page_table` (mutex), frames (one RwLock each), descriptors (pin count, dirty flag, page), a replacer | `fetch_page`, `new_page`, `read_page`, `write_page`, `unpin_page`, `flush_page`, `flush_all_pages` | disk manager, replacer, log manager |
| replacement policies (`lru.rs`, `clock.rs`) | a queue, or a clock with reference bits, hand and size; one mutex each | `record_access`, `set_pin`, `evict`, `remove` | — |
| write-ahead log (`wasdb_wal`) | log file, `next_lsn`, `flushed_lsn` | `append_record`, `flush`, `new`; `RecoveryManager::recover` | the log file |
| transactions (`wasdb_tx`) | an id counter, three sets behind a lock each | `begin`, `commit`, `abort`, `get_state`, `is_visible` | — |
| slotted page (`wasdb_page`) | header, slot array, tuples with `xmin`, `xmax` | `init`, `insert_record`, `get_record`, `mark_deleted` | — |
| table heap (`wasdb_catalog/heap.rs`) | first page, free space map (RwLock) | `new`, `insert_tuple`, `get_tuple` | buffer pool, pages |
| catalog, tables, schemas (`wasdb_catalog`) | a map from names to table metadata, no lock | `create_table`, `get_table` | — |
| B+ tree (`wasdb_btree`: `tree.rs`, `node.rs`) | root page number, nodes in pages | `insert`, `search`, `range_search`, `delete` | buffer pool |
| hash index (`hash.rs`) | a map in memory behind one RwLock | `insert`, `search`, `delete` | — |
| executors, sort, index scan (`wasdb_query`) | tuples they were given, a cursor; runs in temporary files and a heap for the external sort | `init`, `next` | each other, transactions |
| optimizer (`optimizer.rs`) | — | `optimize`: a filter over a scan becomes an index scan | catalog, executors |
| SQL parser, client (`wasdb_cli`) | tokens; terminal screen | lexing, parsing; drawing | — |

How they interact. A client thread asks the pool for a page and gets a frame
number and a pin; it takes the frame's RwLock, reads or changes the image, drops
the guard, and unpins the page, saying whether it changed it. The pool evicts
what the replacer gives it, writes dirty victims to disk, and asks the log to be
flushed up to a page's sequence number first. The table heap and the B+ tree are
such clients; they call the pool with no page guard in hand. The sequential scan
works on tuples it was handed, each with a copy of its header, and asks the
transaction manager about the copy. The heap, the indexes, the log and the
executors are not yet wired to one another in the repository: what composes today
is the pool with the disk and the log, the heap with pages and pool, and the scan
with the transaction manager.

What is hard in it:

* *Several locks, taken one after the other.* The pool's mutex, the frames'
  RwLocks, the replacer's mutex; the transaction manager's counter and sets; the
  free space map's lock, dropped before its answer is used.
* *Errors in the middle of an operation.* `fetch_page` has four steps that can
  fail after the one before it changed something; `flush_all_pages` stops at the
  first error; `append_record` writes a record with three calls; `insert_tuple`
  returns early with pages pinned.
* *Crashes.* Page images and log records reach the disk in the pool's and the
  operating system's order; the counters of the log, the pages and the
  transactions start again from the files' lengths, or from 1.
* *Loops that must end:* the clock's hand under a mutex, the walk along a
  heap's pages, a flush that waits for latches.
* *Pages used after they were looked up.* The B+ tree finds its leaf, drops the
  latch and takes it again; only the pin is kept in between.
* *Queries that run beside transactions.* A scan asks what is visible tuple by
  tuple, a join scans its right side again and again; others commit meanwhile.
* *Rewritten plans.* The optimizer replaces a filter by an index scan, which must
  return what the filter would have let through.

What makes each part correct is stated in section 3.

## 2. The modules

| module | models | composed with |
|---|---|---|
| `PageStore` | abstract: what pool and disk promise together (a current and a stable image of each page, changed by the holder of its write guard) | implemented by `BufferPool` |
| `BufferPool` | `buffer_pool.rs`, `frame.rs`, and the disk and log managers as they appear to it; clients that fetch, latch, change and unpin; crash and restart | uses the contract of `ReplacementPolicy` |
| `BufferPool_proofs` | theorems about `BufferPool`, its refinement of `PageStore` among them | |
| `ReplacementPolicy` | abstract: the trait's contract on which the pool relies | implemented by the next two |
| `LRUReplacer`, `ClockReplacer` | `lru.rs`, `clock.rs` (hand step by hand step) | `FrameIds`, their constants |
| `PageFile` | abstract: pages that are read as they were written, and handed out once | implemented by `DiskManager` |
| `DiskManager` | `wasdb_storage` down to the blocks of the file, with power losses | `DiskPages`, its constants |
| `PoolParts_proofs` | theorems about both policies and the disk manager, their refinements of `ReplacementPolicy` and `PageFile` among them | extends `MCPoolParts` |
| `LogManager` | `wasdb_wal` down to the bytes of the log file | |
| `LogManager_proofs` | theorems about `LogManager`, what recovery returns among them | |
| `TransactionStatus` | abstract: a transaction begins once and ends once | implemented by `TransactionManager` |
| `TransactionManager` | `wasdb_tx` lock by lock, tuple headers, `is_visible` as the scan uses it | |
| `TransactionManager_proofs` | theorems about `TransactionManager`, its refinement of `TransactionStatus` among them | |
| `SlottedPage` | `wasdb_page`: offsets and lengths of header, slots, tuples | used by `TableHeap` |
| `TableHeap` | `heap.rs`: threads in `insert_tuple` and `get_tuple`, over the pool's contract | `SlottedPage` |
| `TableHeap_proofs` | theorems about `TableHeap` and `SlottedPage` | |
| `Index` | abstract: the trait of `traits.rs`, a map of which every call sees one state; `hash.rs` is it as it stands | implemented by `BTreeIndex` |
| `BTreeIndex` | `tree.rs` and the parts of `node.rs` it uses: threads in `insert`, `search`, `range_search` and `delete` | |
| `BTreeIndex_proofs` | theorems about `BTreeIndex`, its refinement of `Index` among them | |
| `RowStream` | abstract: what `init` and `next` of an executor promise | implemented by the next two |
| `NestedLoopJoin` | `executors.rs`: a join over two filters over two scans, tuple by tuple, beside other transactions | uses the actions of `TransactionStatus` |
| `ExternalMergeSort` | `sort.rs`: chunks, files, the merge and its heap | `QueryInputs`, the constants of both |
| `Catalog`, `Optimizer` | the tables and their indexes; `optimizer.rs` and what the executors it builds return, `index_scan.rs` included | `Optimizer` extends `Catalog` and `LogicalPlans`, the plans and how deep they are |
| `Query_proofs` | that the join and the sort implement `RowStream`, and that plans return their rows | extends `MCQuery`, `SqlParser_proofs` |
| `SqlParser` | `parser.rs` from the tokens on | |
| `SqlParser_proofs` | theorems about `SqlParser`: it takes the statements of the grammar | extended by `Query_proofs` |
| `MC…` | values of the constants for TLC; `MCPoolParts` and `MCQuery` hold several parts, of which one, chosen at the start, runs | |

Definitions preceded by a comment that begins `Bug:` model nothing in the code.
Each is a variant of the definition that follows it, changed as a plausible
mistake would change it, and nothing refers to it; `PROJECT.json` ("mutants")
says which property notices when the variant takes the definition's place.

### State and actions against the code

**BufferPool.** `pageTable`, `pageId`, `pinCount`, `dirty`, `frames` are the
fields of `BufferPoolManager` and `FrameDescriptor`; `tracked` and `pinned` are
what the replacer knows, under any policy; `disk` is the file, page by page.
`fetch_page` and `unpin_page` hold the `page_table` mutex throughout and never
wait for a page latch somebody else can hold, so each is one step per outcome:
`FetchHit`, `FetchMiss`, `FetchWriteFails` (the `?` at line 131),
`FetchReadFails` (line 149), `Unpin`. `flush_page` and `flush_all_pages` can wait
for a writer's latch with the mutex held: they are `FlushPageBegin` or
`FlushAllBegin`, then one `FlushWrite`, `FlushWriteFails` or `FlushSkip` for each
frame, and while `flushKind` is not `"idle"` no other call that needs the mutex
can run. A *handle* is one outstanding `fetch_page`; it latches its frame for
reading or writing, changes it under the write latch, and unpins. A client that
changed the page says so when it unpins it, as every caller in the repository
that writes through a guard does but one (`insert_tuple` with its new page, which
it has not changed). `Restart` is a stop of the process at any moment: the pool
starts empty, the file keeps what `write_page` (which syncs) stored.

**PageStore** says what caching must not change: a page's `current` image is the
frame's if there is one and the disk's otherwise; only `Write`, by the holder of
the page's write guard, changes it; only `Sync` changes the `stable` image, to
the current one; only a crash takes `current` back.

**DiskManager.** The file is a sequence of blocks, `synced` what of it is on disk.
`write_page` keeps the file's mutex from `WriteBegin` to `WriteReturns` or
`WriteFails` and writes block by block, so `Restart` finds any part of it done:
the process alone stops and the file is as it was, or power is lost and each block
behind the last sync is there or not, the end of the file included. `total_pages`
is then the number of whole pages in the file. Two assumptions on what is around it:
pages are written by those to whom they were given since the file was opened or that
it had then, which `write_page` does not check; and the one `read` of `read_page`, whose
rest is filled with zeros, comes back short only at the end of the file.

**PageFile** is the disk as the pool and the heap see it: a page whose last write
returned `Ok` is read as written through every stop; one whose write failed or was
interrupted may read as anything until it is written again; a page is handed out
once in a process, and never when it holds something.

**LogManager.** The file is a sequence of bytes; `Serialize`, `Deserialize` and
`Recover` do with them what the code does, numbers included. An append that
fails, or that a crash interrupts, leaves a proper prefix of the record
(`AppendFails`); numbers below `Wide` are told apart (`RecordsAssumption`). `Reopen`
keeps all of the unsynced tail, or after a power loss any front of it: of a file that
only grows at its end the front is assumed to reach the disk first, while the pages of
`DiskManager` may be lost one by one.

**TransactionManager.** One action per lock taken: `BeginTake` and `BeginRecord`;
`FinishRemove` (which keeps the lock of `active_txns`), then `CommitRecord` or
`AbortRecord`; `StateCommitted` then `StateAborted`; `VisibleCreator` then
`VisibleDeleter`, on a header copied earlier.

**TableHeap.** A step is what a thread does from one `fetch_page` to the next
(`Fetch`, `Look`, `Extend`, `LinkFetch`, `Link`, `Insert`, `InsertFails`,
`GetRead`), with the page's latch held inside it; `pc` says which call comes
next. The pool is its contract: one current image per page, pins that count, and
a fetch that fails if every frame is pinned for another page or, with
`DiskFails`, if the page that makes room cannot be written. What a *read* error
does to the pool is in `BufferPool` (run `pool_read_error`) and is left out here,
since nothing above the pool could be said of a page that is not its own.

**SlottedPage.** A page is its header fields and a sequence of slots, each with
the offset, the length and the tuple written there; `WellFormed` says that the
byte ranges lie apart, so that what was written is what is read.

**BTreeIndex.** `entries` are the keys and values of the leaf up to `num_keys`,
`root` says whether `root_page_id` is set, `pins` is the leaf's pin count. `insert`
first takes the lock of `root_page_id` (`CreateRoot`, which keeps the lock until
the leaf is there, or `RootExists`); then all calls run `find_leaf_page`
(`FindLeaf`, `FindNothing`, `FetchFails`), which returns the leaf pinned and not
latched; then comes one step under the leaf's latch, from the search in the leaf
to the `unpin_page`. Between the steps any other thread may change the leaf. The
code does not split a leaf: a leaf with `max_keys` entries ends in
`unimplemented!`, and one with `MAX_KEYS` entries, which is fewer for pages of
8 KB, in an index out of bounds (`InsertNeedsSplit`, `InsertOutOfBounds`). So the
tree is one leaf without parent and neighbours, and the walk through internal
nodes and the borrowing and merging of `delete_from_leaf` are never reached; they
are not modelled. The pool is its contract: pins count, and a page that is
pinned can be fetched again.

**NestedLoopJoin.** One call of `init` or `next` runs at a time, in one thread; a
step is one turn of the loops in the scan and the filter, with its one question to
`is_visible`: `PassOver` a tuple that is not visible or fails the filter's
predicate, or hand it to the join (`InitReturns`, `RightReturns`, `LeftReturns`),
or find the scan exhausted. `cursor` and `leftTuple` are the fields of the scans
and of the join. Between two turns other threads take steps of
`TransactionStatus`, which `TransactionManager` implements. What the tuples hold is
abstracted to which of them pass the filters and which pairs match.

**ExternalMergeSort.** A tuple is its place in what the child returned. `TakeTuple`
is a turn of the first loop, the flush of a full chunk included, `OpenRun` a turn of
the second, `NextTuple` a call of `next` with the read of the next tuple of the
file. Every write, seek and read may fail: the first two make `init` panic, the
third is taken for the end of the file. A file is the set of tuples not yet read
back; the order in which they come back is that of the stable sort of the chunk
(`FileOrder`). The heap may have any entry with a least key on top.

**RowStream** says what both promise: rows are returned once, in order, and all
that are owed before `None`. For the join a pair is allowed if its tuples were
visible at some time since `init` and owed if they were at all times; for the sort
everything is allowed and owed but what lies behind a read error.

**Optimizer** over **Catalog**. An executor is modelled as the rows it returns when
it is drained, in one thread and without transactions, as the optimizer builds its
scans. `OptimizeOf` is the match of `optimize` with its errors, and `Optimize` its
recursion: a function over `Plans`, the plans asked for and their parts. Tables are
created in between. `Asked` says what rows a plan asks for, whatever becomes of it.
`height` says how deep a plan is nested; a plan is a finite tree, so each has a depth,
and `MaxHeight` is the bound on them in a set of plans.

**SqlParser.** The lexer hands over one token at a time, any token; `left` is what
the functions on the call stack still look for, in order, and each action is one
`expect`, one table name, or one part of a turn of a loop. The grammar of
`ParsesTheGrammar` is written down separately, as sets of token sequences: `IsList`
says token by token what a list is, `Sentence` what stands around it, `ItemsOf` what a
list says. `ParserAssumption`: there is a name, and a statement may have a token.

### Abstractions

Left out everywhere: hit and miss counters, allocation of memory, messages of
errors, `size()` and `capacity()` getters. A page's contents are a sequence
number and one datum in `BufferPool`, slots with lengths in `SlottedPage`. A
record's `page_id` and `offset` are ten bytes of zero in the log. The log is
sequence numbers in `BufferPool` and bytes in `LogManager`. The free space map is
looked up in any order, as `HashMap` iterates in any. `LengthAssumption` keeps
records short enough for the `u16` casts of `insert_record`. Predicates are
conjunctions of equations in `Optimizer`, values integers. Statements are tokens.

## 3. The runs

| run | module, configuration | states | checks |
|---|---|---|---|
| `pool` | `MCBufferPool`, `pool.cfg` | 1.1 million | `TypeOK`, `CleanFramesMatchDisk`, `FlushAllStores`, `WriteAheadRule`, `CachingIsTransparent` |
| `pool_faults` | `MCBufferPool`, `pool_faults.cfg` | 280 000 | `TableMatchesFrames`, `HandlesStay`, `PinsCountHandles`, `OnlyFailedFetchesStrand`, `FlushReturns` |
| `pool_parts` | `MCPoolParts`, `pool_parts.cfg` | 485 000 | `PartsTypeOK`, `SizeCountsActive`, `LRUEvictsLeastRecentlyUsed`, `LRUImplementsPolicy`, `EvictsInClockOrder`, `ImplementsPolicy`, `SweepEnds`, `ImplementsPageFile` |
| `wal` | `MCLogManager`, `wal.cfg` | 1.1 million | `TypeOK`, `RecoversIntactRecords`, `FlushedLsnIsOnDisk`, `LsnsGrowAlongTheFile` |
| `tx` | `TransactionManager`, `tx.cfg` | 1.9 million | `TypeOK`, `OneOutcome`, `AnswersWereTrue`, `EndsOnce` |
| `heap` | `MCTableHeap`, `heap.cfg` | 102 000 | `TypeOK`, `PagesAreWellFormed`, `StoredTuplesStay`, `SpaceMapIsExact`, `OnlyErrorsLeakPins` |
| `btree` | `MCBTreeIndex`, `btree.cfg` | 450 000 | `TypeOK`, `KeysAscend`, `OnlyRangesAndPanicsLeakPins`, `ImplementsIndex` |
| `query` | `MCQuery`, `query.cfg` | 129 000 | `QueryTypeOK`, `JoinIsARowStream`, `SortIsARowStream`, `PlansReturnTheirRows`, `ParsesTheGrammar` |

and four in which TLC finds the code at odds with what it says of itself:

| run | property violated | what happens |
|---|---|---|
| `pool_read_error` | `FetchedPageIsItsPage` | A fetch fails to read its page after `page_table` was changed (line 149). The next fetch of that page is a hit, on whatever the frame held before. |
| `wal_torn_tail` | `FlushedRecordsAreRecovered` | The log is opened after a crash that tore its last record, which is not cut off. What is appended and flushed afterwards is taken for the rest of it. |
| `heap_walk` | `InsertReturns` | A page that `insert_tuple` appended was never initialised: the insert that appended it fails, and its `next_page_num` of 0 makes the next walk circle for ever. |
| `optimizer_index` | `IndexedPlansReturnTheirRows` | A filter that matches the second column of a primary key becomes an index scan on the first, since `optimize` looks for any index and then takes the first one. |

### What the properties say

* *Pool.* A frame that differs from disk is dirty or in the hands of whoever
  changed it, so dropping a clean frame loses nothing (`CleanFramesMatchDisk`);
  `flush_all_pages` leaves on disk what it has passed, though others change pages
  between its steps (`FlushAllStores`); nothing is on disk ahead of its log
  record (`WriteAheadRule`); all in all the pool is a `PageStore`
  (`CachingIsTransparent`). With every call that can fail failing, the page table
  and the descriptors agree, fetched pages stay where they were fetched, pins are
  counted, a frame goes out of circulation only with a fetch that reports an
  error, and a flush always gives the mutex back.
* *Policies.* Both meet the contract; LRU evicts the least recently used
  candidate, the clock the first in clock order, and always returns; `size`, which
  decides whether it looks at all, does not drift.
* *Disk.* What `write_page` stored is read back through failing writes and power
  losses, and no page that holds something is handed out (`ImplementsPageFile`).
* *Log.* Recovery returns the records up to the first torn one (an insert of less
  than two bytes, which `deserialize` refuses, is skipped); `flushed_lsn`
  covers no record appended since the log was opened that is not on disk (what it is
  set to at the opening may be ahead of it); sequence numbers grow along the file though
  the count starts again from its length, as long as at most 20 appends failed.
* *Transactions.* A transaction ends once. Every answer of `get_state` and
  `is_visible` was right at some moment between call and return although the
  sets are looked at one after the other (`AnswersWereTrue`).
* *Heap.* Tuples never overlap however inserts race for a page; the CTID an
  insert returned keeps leading to its tuple; the free space map is exact, not
  the approximation its comment calls it; pins leak out of calls that return
  errors and out of no others.
* *Index.* However calls race between `find_leaf_page` and the latch, each takes
  effect at one moment on one map and answers for that moment, a range search
  included, and one that fails or panics changes nothing (`ImplementsIndex`); the
  keys stay in order, on which the binary searches rely. `range_search` leaves a
  pin behind each time, a panicking insert may; nothing else does.
* *Executors.* However others commit while a join runs, no pair comes twice, none
  out of order, none that was not visible at some time, and none is missing that
  was visible all the time; there is no more to be had, as `is_visible` keeps no
  snapshot. A sort returns its input in order whatever falls into which chunk; a
  read error loses the rest of one file, silently, and nothing else.
* *Plans.* The optimizer answers `Err` for the plans that cannot be run and for no
  others; what it builds returns the rows asked for, provided that a filter that
  becomes an index scan asks for no more than its match, on the first index.
* *Statements.* The parser takes a statement for what it says, reads one token
  beyond it, and gives up at the first token with which no statement goes on. What
  follows a complete statement is not looked at: `DELETE FROM t` is all it takes of a
  `DELETE FROM t WHERE ...`.

Four properties draw the line where the code does, and so permit what is wrong there:
`OnlyFailedFetchesStrand` a frame lost to a failed fetch, `OnlyErrorsLeakPins` a pin lost
to an error, `OnlyRangesAndPanicsLeakPins` the pin of each `range_search`, and
`PlansReturnTheirRows` other rows from an index scan in the place of a filter that asks
for more than its match, or matches another column than that of the first index (the
latter is what `optimizer_index` finds). They show that nothing else goes wrong of the
kind; the hazards in `PROJECT.json` say so.

### Bounds, and why they are enough

* `pool`: two frames and three pages make every fetch a choice between an empty
  frame, a clean and a dirty victim; two handles are enough for a reader and a
  writer of one page, or a fetch during another's use; one sequence number is
  enough for a page that is logged, one that is not, and a log that is behind.
  A write may report an error. Handles are interchangeable (symmetry).
* `pool_faults`: one frame makes every miss an eviction of the same frame; three
  pages of two files, two of which share a page number, so that two pages with one
  place on disk follow each other in the frame. Here everything may fail. No
  symmetry, because of the liveness property.
* `pool_parts`: four frames and every sequence of calls, under the one policy or
  the other. The disk: three pages of two blocks, so that a page in the middle is
  never written, the last one half, and the file's end lies inside a page; stops
  and failures without bound.
* `wal`: three appends (an insert, an end of a transaction), one of them failing
  at any byte, two stops at any byte of the unsynced tail: a torn record before,
  between and after whole ones, and a log reopened twice. The model stops when
  the bounds are reached, so deadlock is not checked there.
* `tx`: two threads, two transactions and one that never began, one version, one
  restart: commit against abort, against `get_state`, against `is_visible` with a
  creator and a deleter, and ids used again after the restart.
* `heap`: two threads, four inserts into two pages that hold one large tuple or
  two small ones; a page with six bytes left passes the heap's test for a small
  tuple and fails the page's, so both outcomes of `insert_record` happen; two
  frames, so that a fetch fails when both are pinned. Two threads can both reach
  the end of the list and both append.
* `heap_walk`: one thread, one page with room for one tuple: the second insert
  appends, the third circles.
* `btree`: two threads, four keys, two CTIDs, arrays of three entries, so that a
  full leaf meets every call; `max_keys` of three and of four, so that both the
  `unimplemented!` and the index out of bounds are reached. `MaxLeft` stops
  inserts and range searches from beginning once one pin is left behind, as
  nothing gives it back.
* `query`: the join has up to two tuples in each scan, so that the right one is
  scanned twice and a pair can be lost or come twice; versions that appear, that
  are deleted and that a third transaction made, read by one of them or by a third
  party. The sort has every input of three keys and of five tuples over two keys,
  in chunks of two: up to three files, the last one not full, and equal keys in
  different files. Two tables, each with and without an index on each column, plans
  up to a filter over a join of filters (`MaxHeight` is 3), on tables that exist or not. Nine tokens are enough for two items in
  every list and a token too many. `init` of the sort may panic, after which
  nothing happens, so deadlock is not checked.

### Fairness

* `FlushReturns` assumes weak fairness of `Unlatch`: a guard is a local variable
  of a block in which its owner does not wait for the pool, so it is dropped; and
  strong fairness of the flush's step: `parking_lot`'s RwLock does not overtake a
  waiting reader for ever. Nothing is assumed of clients otherwise: they may keep
  a page pinned for ever.
* `SweepEnds` and `InsertReturns` assume weak fairness of the steps of a thread
  that is inside `evict` or inside a call of the heap: it is running, and nothing
  it waits for can be kept from it. The counterexample to `InsertReturns` is a
  behaviour in which the thread does run, in a circle.

## 4. What is proved

TLAPS checks every proof, with the assumptions on the constants that the modules
name and no others: any set of pages with numbers, any number of frames, any
finite set of clients and threads, any tuples, any faults.

**BufferPool_proofs.** `IInv` is `TypeOK` with `Structure`: the shape of handles
(a page and a frame, or neither; a closed one has no latch and owes no write),
`HandlesStay`, `TableMatchesFrames`, `PinsCountHandles`, and that flushes and
dirty flags concern frames that keep a page. None of the properties is inductive
alone: that a fetched page stays needs that a victim has no holder, which needs
that pin counts are the numbers of holders, which needs that `unpin_page` finds
the frame it was fetched into, which needs that the table and the descriptors
agree. From `Invariance` follow `TypeCorrect`, `TableAlwaysMatches`,
`FetchedPagesStay`, `PinsAreAccounted`. `FramesStayUsable` (an action property)
needs in addition that pinned frames are tracked. `WriteAhead` needs that no
frame is ahead of the log's counter and that `flushed_lsn` covers only durable
records; it assumes that syncing the log does not fail, because `flush_wal` drops
the error and the rule is then broken.

The last part assumes `Reliable` (one file, no read errors, no torn writes):
`CleanFramesMatch` and `FlushAllIsComplete` by invariants of their own, and
`Caching`, the refinement `Spec => Store!Spec`: every action of the pool is
mapped to a step of `PageStore` or to a stutter, with `WritersAreAlone` (a
writer's latch excludes all other latches on its frame) as the lemma that makes
`Take` and `Drop` possible. The assumptions are needed: a read error leaves a
wrong image behind (run `pool_read_error`), a torn write a damaged one, and two
files share their pages' places.

**TableHeap_proofs.** `InsertedFacts`: `insert_record` keeps the tuples of a page
apart, for any page size and any tuple that fits. `IInv` is `TypeOK` with the
layout of every page, links that stay in the file, at most one appended page for
each insert (`AppendsAreBounded`, by counting the threads that may yet append),
and a pin for every page in use (`UsedPagesArePinned`, by counting who holds
what). The last two are there for types alone: without them a page number might
leave the file and a pin count fall below zero. `HeapTypes`,
`TuplesNeverOverlap`, `CtidsKeepTheirTuples`, `SpaceMapStaysExact` and
`PinsLeakOnlyWithErrors` follow.

**BTreeIndex_proofs.** For any keys and threads and any length of the arrays.
`IInv` is `TypeOK` and `KeysAscend` with `CallsFit` (where a thread is says what
call it is in), `RootComesFirst` (nobody is in the leaf, and no insert looks for
it, before it is there: else `find_leaf_page` could answer an insert with
nothing) and `UsersHavePins` (who uses the leaf has pinned it: without it the pin
count might fall below zero). `InsertedMap` and `RemovedMap` say what an insertion
and a removal in the sorted arrays do to the map the arrays stand for; with them
`BTreeTypes`, `KeysStayInOrder`, `PinsLeakOnPurpose` and the refinement
`BTreeIsAnIndex` follow, one lemma for each action.

**TransactionManager_proofs.** For any number of threads, versions, transactions
and restarts. A transaction is in one place: `SetsAreApart` for the three sets,
`CarriedAreApart` for the thread that has taken it from one and not yet put it into
the next, of which there is only one because `commit` and `abort` begin with the
removal from `active_txns`. `CounterIsAhead` keeps `begin` from handing out a number
that is in use. `AnswerFits` says what a thread between two looks already knows: that
the transaction was active at some moment of the call if it is not in `aborted_txns`
now, and that a version's creator stays committed. `OneOutcomeOnly`,
`AnswersAreTrue` and the refinement `TransactionsEndOnce` follow.

**PoolParts_proofs.** The module extends `MCPoolParts`, so its theorems are about the
formulas the run `pool_parts` checks. `PartsFollowTheirSpecs` shows that the
specification of that run implements each part's own, so that what is proved of a part
holds in it, and with it `PartsTypes`.

The disk, for any number and size of pages. `FileEnds`: the file ends
at the latest inside the page `total_pages`, so the page handed out next was never
whole, though a power loss may have left a part of it. `WriterFits`: nobody counts on
the page that is being written, and the blocks that are done hold the datum.
`SureIsSynced`: a page whose last write returned `Ok` is on disk as it is in the file,
so a power loss takes nothing from it. `PlaceFacts`, that blocks of different pages
are apart, is the arithmetic that all of it rests on.

The clock, for any number of frames. `SweepFits` tells the rounds of
the hand apart, which the code does not: in the first, every candidate it has passed
had its bit set and lost it, and what is ahead is as it was (`FirstRound`); in the
second, all candidates are cleared and ahead (`SecondRound`), so the hand takes the
next one. `DistanceFacts` and `AdvanceFacts` are the arithmetic of the circle. From
`ClockInvariance` follow `SizeIsExact`, `VictimsInClockOrder` and `ClockIsAPolicy`;
the last needs the exact size, because a `size` of 0 makes `evict` answer `None`.

LRU, for any number of frames. `QueueIsInOrder`: no frame is queued twice, and each was
accessed after those before it; so the first one in the queue that is not pinned is the
least recently used candidate (`VictimsAreLeastRecentlyUsed`), and taking one element out
of the queue takes one frame away, as the refinement `LRUIsAPolicy` needs it.

**LogManager_proofs.** For any records (`RecordsAssumption`: what `serialize` is given),
any number of appends, failures, stops and power losses. `FileIsWritten`: the file is its
entries one after the other, each the front of what `append_record` wrote, and all of it
if it is whole. `NumbersFollow` and `NumbersFit`: the numbers given out since the log was
opened are above the length it had, and a number is ahead of the place of its record
by no more than the appends that failed. With these, `FlushedLsnIsOnDisk` is inductive.
`LsnsGrow` says that numbers do not repeat *while no more than 20 appends failed*: a
failed append uses up a number and may leave no byte, and what the restart at the file's
length makes up for it is the 21 bytes of the shortest record. The bound is exact: after
21 failures without a byte, one append and a restart, the next record gets the number
of the one before.

`RecoversIntact` is about what recovery reads. `RoundTrip` (a number below `Wide` is read
as it was written), `InsertHeaderFacts` (where each field of a record is) and
`ReadOrSkipped` (`deserialize` returns the record that `serialize` was given, or nothing)
lead to `WholeIsRead`: at the start of a whole entry recovery takes it, or skips it, and
goes on at its end. `NothingBehind`: at a torn last entry, or at the end of the file, it
stops. What a function computes that is defined by recursion over places in the file
(`Recover`, `ReadableIn`) is established by taking the last place at which it would go
wrong (`LeastNumber`); `GathererExists` and `GathererType` do so once for both.

**Query_proofs.** The module extends `MCQuery`, so its theorems are about the formulas
the run `query` checks: `EitherRunsItsParts` shows that the specification of that run
implements the join's, the sort's, the optimizer's and the parser's own.

The join, for any tuples, predicates and transactions that begin and end meanwhile.
`SkippedWereHidden`: a left tuple the scan passed over was not shown all the time.
`MetAreReturned`: the pairs in front of the two cursors that match and were shown all
the time are returned, and nothing behind the cursors is; it needs `LeftIsCurrent`,
that the right cursor starts again exactly when the left tuple changes. `JoinIsAStream`
is the refinement.

The sort, for any input, size of the chunks and failures. `TakenAreSomewhere`,
`RunsAreApart` and `HeapIsApart`: a tuple that was taken from the child is in memory,
in one file, in the heap or returned, and in one of these only. `HeapIsAhead`: the
heap's entry for a file comes before what is left of the file and after all that was
returned; with `OpenedAreInHeap` the least entry of the heap is the least of all that
is left. `SortIsAStream` is the refinement.

The optimizer, for any tables, tuples and plans of any depth. `OptimizeDef`,
`AskedDef` and `NodesDef`: the recursive functions exist, because a part of a plan is
less deep than the plan; so each can be unfolded once. `SeqScanIsRight`,
`IndexScanIsRight`, `JoinIsRight` and `FilterIsRight`: what `optimize` makes of a plan
fails exactly if the plan cannot be run, and returns the rows the plan asks for, if
that is so of its parts. `PlansAreRight`: so it is so of all plans, since there is no
least deep one of which it is not (`LeastNumber`). `PlansReturn` needs the restriction
to filters that match exactly the column of the *first* index; without it the code is
wrong (run `optimizer_index`).

**SqlParser_proofs.** For any names and statements of any length. `Progress` says, for
the goal the parser is at, that each goal before it is met by its token, that the tokens
between are a list, and that the syntax tree says what both say; where a token stands
depends on whether its goal is before the list or behind it (`TokenAt`). `Parsing` adds
what is left to look for: the goals from here on (`AtGoal`), or the rest of a turn of a
loop and the goals behind the list (`AtType`, `AtMore`). Two of its conjuncts are what
makes it inductive: a turn of a loop begins at the start of the list or behind a comma,
and the parser leaves a list only in front of a token with which the list does not go
on. The latter is what the error cases need: `NoSentence` shows that no statement of the
grammar begins with what was read, *whatever* list and name it has, because a longer
list would have gone on with that token and a shorter one would have ended before.
`ListGrows` and `ItemsGrow` say what one more token does to a list and its items, and
`SentenceFacts` where each token of a statement is. `GoalMet`, `ListGoesOn` and
`ListEnds` are the three ways to make progress; there is one lemma for each action.

The inductive invariants were checked by TLC on the runs' instances before they were
proved.

Only model-checked: liveness (`FlushReturns`, `SweepEnds`, `InsertReturns`), which is
out of the prover's reach.

## 5. Plan

Every component but the client is modelled, and every invariant, action property and
refinement that the passing runs check is proved. What may still be added: what
`CachingIsTransparent`, proved under `Reliable`, still says of the pages none of whose
reads failed when others' did; and consequences of the abstract specifications, for a
reader who knows only those.

## 6. What is not modelled, and why

* The lexer: characters have no state but the place in the input. A number beyond
  `i32` overflows in it (`parser.rs:86`).
* The terminal client draws and reads keys and executes no statement.
* The code of the B+ tree for internal nodes, and for borrowing and merging, is
  never reached (section 2).
* `deallocate_page` does nothing. Types, lengths and offsets of columns are read
  by nobody.
* Heap, indexes, log, executors and parser are not wired to one another in the
  repository, so no module composes them. In particular a table found on disk is
  never opened: tuples of an earlier run, whose transaction ids are given out
  again after a restart, are in `TransactionManager` (`Restart`) but are read by
  nothing.

`PROJECT.json` lists for every hazard that no property covers why that is so.
