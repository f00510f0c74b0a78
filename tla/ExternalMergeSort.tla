-------------------------- MODULE ExternalMergeSort --------------------------
(***************************************************************************)
(* wasdb_query/src/sort.rs: an executor that sorts what its child returns. *)
(* init writes the child's tuples to temporary files, a sorted chunk to    *)
(* each, and next merges the files with a heap that has the next tuple of  *)
(* every file.  A tuple is its place in what the child returned.           *)
(***************************************************************************)
EXTENDS QueryInputs, FiniteSets

VARIABLES
    input,     \* the keys of the tuples the child returns since it was reset
    pc,        \* "new", "reading" and "opening" in init, "idle", "panicked"
    taken,     \* how many tuples the child has returned
    chunk,     \* the tuples in memory
    runs,      \* of each file, the tuples that have not been read back
    opened,    \* how many files have been read from
    heap,      \* entries: a tuple and its run_idx
    answer,    \* what the last call of next returned
    returned,  \* ghost: the tuples returned since init
    lost       \* ghost: the tuples behind a place where reading failed

files == <<runs, opened, heap>>
ghosts == <<returned, lost>>
vars == <<input, pc, taken, chunk, files, answer, ghosts>>

Init ==
    /\ input = <<>>
    /\ pc = "new"
    /\ taken = 0
    /\ chunk = {}
    /\ runs = <<>>
    /\ opened = 0
    /\ heap = {}
    /\ answer = NoRow
    /\ returned = {}
    /\ lost = {}

-----------------------------------------------------------------------------
(* init *)

\* Bug: the files of the last init are kept.
ClearedKeepingRuns == runs' = runs /\ heap' = {} /\ opened' = 0

Cleared == runs' = <<>> /\ heap' = {} /\ opened' = 0

CallInit ==
    /\ pc \in {"new", "idle"}
    /\ input' \in Inputs
    /\ pc' = "reading"
    /\ taken' = 0
    /\ chunk' = {}
    /\ Cleared
    /\ answer' = NoRow
    /\ returned' = {}
    /\ lost' = {}

\* A chunk goes to a file of its own.
Flushed(tuples) == Append(runs, tuples)

TakeTuple ==
    LET filled == chunk \cup {taken + 1} IN
    /\ pc = "reading" /\ taken < Len(input)
    /\ taken' = taken + 1
    /\ IF Cardinality(filled) >= chunk_size
       THEN runs' = Flushed(filled) /\ chunk' = {}
       ELSE chunk' = filled /\ UNCHANGED runs
    /\ UNCHANGED <<input, pc, opened, heap, answer, ghosts>>

TakeNone ==
    /\ pc = "reading" /\ taken = Len(input)
    /\ runs' = IF chunk = {} THEN runs ELSE Flushed(chunk)
    /\ chunk' = {}
    /\ pc' = "opening"
    /\ UNCHANGED <<input, taken, opened, heap, answer, ghosts>>

\* The ? of write_all and seek, and the expect in init.
InitPanics ==
    /\ IOFails
    /\ \/ /\ pc = "reading"
          /\ IF taken < Len(input) THEN Cardinality(chunk) + 1 >= chunk_size ELSE chunk # {}
       \/ pc = "opening" /\ opened < Len(runs)
    /\ pc' = "panicked"
    /\ UNCHANGED <<input, taken, chunk, files, answer, ghosts>>

-----------------------------------------------------------------------------
(* read_next_tuple *)

\* Bug: the chunk was not sorted.
FileOrderUnsorted(p, q) == p < q

\* A file holds a chunk in the order of a stable sort.
FileOrder(p, q) == input[p] < input[q] \/ (input[p] = input[q] /\ p < q)

IsNext(p, run) == p \in run /\ \A q \in run \ {p} : FileOrder(p, q)

Entry(p, i) == [tuple |-> p, run_idx |-> i]

\* The next tuple of a file, if there is one, joins the entries in the heap.
ReadNext(i, entries) ==
    \/ /\ runs[i] = {}
       /\ heap' = entries
       /\ UNCHANGED <<runs, lost>>
    \/ \E p \in runs[i] :
           /\ IsNext(p, runs[i])
           /\ runs' = [runs EXCEPT ![i] = @ \ {p}]
           /\ heap' = entries \cup {Entry(p, i)}
           /\ UNCHANGED lost

\* An error in the middle is the end of the file.
ReadFails(i, entries) ==
    /\ IOFails
    /\ heap' = entries
    /\ lost' = lost \cup runs[i]
    /\ UNCHANGED runs

Read(i, entries) == ReadNext(i, entries) \/ ReadFails(i, entries)

OpenRun ==
    /\ pc = "opening" /\ opened < Len(runs)
    /\ opened' = opened + 1
    /\ Read(opened + 1, heap)
    /\ UNCHANGED <<input, pc, taken, chunk, answer, returned>>

InitReturns ==
    /\ pc = "opening" /\ opened = Len(runs)
    /\ pc' = "idle"
    /\ UNCHANGED <<input, taken, chunk, files, answer, ghosts>>

-----------------------------------------------------------------------------
(* next *)

\* HeapEntry's order: any of the least keys may be on top.
OnTop(e) == e \in heap /\ \A f \in heap : input[e.tuple] <= input[f.tuple]

NextTuple(e) ==
    /\ pc \in {"new", "idle"}
    /\ OnTop(e)
    /\ Read(e.run_idx, heap \ {e})
    /\ answer' = e.tuple
    /\ returned' = returned \cup {e.tuple}
    /\ UNCHANGED <<input, pc, taken, chunk, opened>>

NextNone ==
    /\ pc \in {"new", "idle"}
    /\ heap = {}
    /\ answer' = None
    /\ UNCHANGED <<input, pc, taken, chunk, files, ghosts>>

-----------------------------------------------------------------------------
Next ==
    \/ CallInit \/ TakeTuple \/ TakeNone \/ InitPanics
    \/ OpenRun \/ InitReturns
    \/ NextNone \/ \E e \in heap : NextTuple(e)

Spec == Init /\ [][Next]_vars

-----------------------------------------------------------------------------
(* Properties *)

Tuples == DOMAIN input

TypeOK ==
    /\ input \in Inputs \cup {<<>>}
    /\ pc \in {"new", "reading", "opening", "idle", "panicked"}
    /\ taken \in 0 .. Len(input)
    /\ chunk \subseteq Tuples /\ Cardinality(chunk) < chunk_size
    /\ runs \in Seq(SUBSET Tuples)
    /\ opened \in 0 .. Len(runs)
    /\ heap \subseteq [tuple : Tuples, run_idx : DOMAIN runs]
    /\ answer \in Tuples \cup {NoRow, None}
    /\ returned \subseteq Tuples
    /\ lost \subseteq Tuples

\* However the child's tuples fall into chunks, each is returned exactly once, in
\* the order of the keys, before None is; all but those behind a read error, which
\* next takes for the end of the file.
Stream == INSTANCE RowStream WITH
              Rows <- Nat,
              before <- {x \in Tuples \X Tuples : input[x[1]] < input[x[2]]},
              allowed <- Tuples,
              owed <- Tuples \ (returned \cup lost)
SortIsARowStream == Stream!Spec
=============================================================================
