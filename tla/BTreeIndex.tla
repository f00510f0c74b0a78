----------------------------- MODULE BTreeIndex -----------------------------
(***************************************************************************)
(* wasdb_btree/src/tree.rs: threads in the calls of one B+ tree over the   *)
(* pool.  A leaf that is full is not split, so the tree is one leaf, its   *)
(* root, without parent and neighbours; the code that walks internal nodes *)
(* or merges leaves is never reached.                                      *)
(* A step is what a thread does under one latch or lock, with the calls of *)
(* the pool that begin or end it; between steps it has the leaf pinned.    *)
(***************************************************************************)
EXTENDS Integers, FiniteSets, SequencesExt

CONSTANTS Keys, Ctids, NoCtid, Threads,  \* as in Index
          Capacity,   \* MAX_KEYS, the length of a node's arrays
          LeafSizes,  \* what max_keys may be for the page sizes in use
          MaxLeft     \* bound on the pins left behind

ASSUME IndexAssumption ==
    /\ Keys \subseteq Int
    /\ NoCtid \notin Ctids
    /\ IsFiniteSet(Threads)
    /\ Capacity \in Nat \ {0}
    /\ LeafSizes \subseteq Nat
    /\ \A n \in LeafSizes : n >= Capacity  \* the page holds the arrays
    /\ MaxLeft \in Nat

VARIABLES
    root,     \* root_page_id is Some
    maxKeys,  \* header.max_keys, which the page size determines
    entries,  \* keys and values up to num_keys
    pins,     \* how often the leaf is pinned
    pc,       \* where a thread is in its call
    call,     \* its call
    answer    \* what its last call returned, until the next

vars == <<root, maxKeys, entries, pins, pc, call, answer>>

Entries == [key : Keys, ctid : Ctids]
NoAnswer == [outcome |-> "none", ctids |-> <<>>]
Idle == [op |-> "none", key |-> 0, end |-> 0, ctid |-> NoCtid]
Calls ==
    [op : {"insert"}, key : Keys, end : {0}, ctid : Ctids]
        \cup [op : {"search", "delete"}, key : Keys, end : {0}, ctid : {NoCtid}]
        \cup [op : {"range_search"}, key : Keys, end : Keys, ctid : {NoCtid}]

Init ==
    /\ root = FALSE
    /\ maxKeys \in LeafSizes
    /\ entries = <<>>
    /\ pins = 0
    /\ pc = [t \in Threads |-> "idle"]
    /\ call = [t \in Threads |-> Idle]
    /\ answer = [t \in Threads |-> NoAnswer]

Goes(t, to) ==
    /\ pc' = [pc EXCEPT ![t] = to]
    /\ UNCHANGED <<call, answer>>

Returns(t, outcome, ctids) ==
    /\ pc' = [pc EXCEPT ![t] = "idle"]
    /\ call' = [call EXCEPT ![t] = Idle]
    /\ answer' = [answer EXCEPT ![t] = [outcome |-> outcome, ctids |-> ctids]]

\* The pins that the calls of now account for: range_search has two.
At(point) == Cardinality({t \in Threads : pc[t] = point})
LeftBehind == pins - At("leaf") - 2 * At("scan")

Pin == pins' = pins + 1

\* Bug: the page is unpinned by the search and by its caller.
UnpinTwice == pins' = pins - 2

Unpin == pins' = pins - 1

-----------------------------------------------------------------------------
Begin(t, c) ==
    /\ pc[t] = "idle"
    /\ c.op \in {"insert", "range_search"} => LeftBehind < MaxLeft
    /\ pc' = [pc EXCEPT ![t] = IF c.op = "insert" THEN "root" ELSE "find"]
    /\ call' = [call EXCEPT ![t] = c]
    /\ answer' = [answer EXCEPT ![t] = NoAnswer]
    /\ UNCHANGED <<root, maxKeys, entries, pins>>

(* insert while there is no root.  The lock of root_page_id is kept until the
   new leaf is the root, so the others see all of it or nothing. *)

\* Bug: the lock is taken after the test.
NoRootBefore == TRUE

NoRoot == ~root

CreateRoot(t) ==
    LET c == call[t] IN
    /\ pc[t] = "root"
    /\ NoRoot
    /\ root' = TRUE
    /\ entries' = <<[key |-> c.key, ctid |-> c.ctid]>>
    /\ Returns(t, "Ok", <<>>)
    /\ UNCHANGED <<maxKeys, pins>>

\* new_page fails.
CreateRootFails(t) ==
    /\ pc[t] = "root"
    /\ NoRoot
    /\ Returns(t, "error", <<>>)
    /\ UNCHANGED <<root, maxKeys, entries, pins>>

RootExists(t) ==
    /\ pc[t] = "root"
    /\ ~NoRoot
    /\ Goes(t, "find")
    /\ UNCHANGED <<root, maxKeys, entries, pins>>

-----------------------------------------------------------------------------
(* find_leaf_page: it answers with the leaf pinned, and not latched. *)

FindNothing(t) ==
    /\ pc[t] = "find"
    /\ ~root
    /\ Returns(t, IF call[t].op = "range_search" THEN "Ok" ELSE "KeyNotFound", <<>>)
    /\ UNCHANGED <<root, maxKeys, entries, pins>>

FindLeaf(t) ==
    /\ pc[t] = "find"
    /\ root
    /\ Pin
    /\ Goes(t, "leaf")
    /\ UNCHANGED <<root, maxKeys, entries>>

\* A page that is pinned is in its frame and can be fetched again.
FetchFails(t) ==
    /\ pc[t] = "find"
    /\ root
    /\ pins = 0
    /\ Returns(t, "error", <<>>)
    /\ UNCHANGED <<root, maxKeys, entries, pins>>

-----------------------------------------------------------------------------
(* The leaf, under its latch. *)

\* Bug: the search goes on when it has found its place.
LastAbove(key, i) ==
    /\ i \in 1 .. Len(entries) + 1
    /\ \A j \in i + 1 .. Len(entries) : entries[j].key <= key
    /\ IF i <= Len(entries) THEN entries[i].key > key
       ELSE \A j \in DOMAIN entries : entries[j].key <= key

\* Is i the position of the first key above this one, or the one behind the last?
FirstAbove(key, i) ==
    /\ i \in 1 .. Len(entries) + 1
    /\ \A j \in 1 .. i - 1 : entries[j].key <= key
    /\ i <= Len(entries) => entries[i].key > key

\* What binary_search answers while the keys ascend.
IsAt(key, i) == i \in DOMAIN entries /\ entries[i].key = key
Present(key) == \E i \in DOMAIN entries : IsAt(key, i)

\* Bug: the early return forgets the pin.
DuplicateStaysPinned(t) ==
    /\ pc[t] = "leaf" /\ call[t].op = "insert"
    /\ Present(call[t].key)
    /\ Returns(t, "DuplicateKey", <<>>)
    /\ UNCHANGED <<root, maxKeys, entries, pins>>

InsertDuplicate(t) ==
    /\ pc[t] = "leaf" /\ call[t].op = "insert"
    /\ Present(call[t].key)
    /\ Unpin
    /\ Returns(t, "DuplicateKey", <<>>)
    /\ UNCHANGED <<root, maxKeys, entries>>

InsertEntry(t) ==
    LET c == call[t] IN
    /\ pc[t] = "leaf" /\ c.op = "insert"
    /\ ~Present(c.key)
    /\ Len(entries) < maxKeys
    /\ Len(entries) < Capacity
    /\ \E i \in 1 .. Len(entries) + 1 :
           /\ FirstAbove(c.key, i)
           /\ entries' = InsertAt(entries, i, [key |-> c.key, ctid |-> c.ctid])
    /\ Unpin
    /\ Returns(t, "Ok", <<>>)
    /\ UNCHANGED <<root, maxKeys>>

\* An index beyond the arrays, before anything is changed.  The panic drops the
\* latch, and not the pin.
InsertOutOfBounds(t) ==
    /\ pc[t] = "leaf" /\ call[t].op = "insert"
    /\ ~Present(call[t].key)
    /\ Len(entries) < maxKeys
    /\ Len(entries) = Capacity
    /\ Returns(t, "panic", <<>>)
    /\ UNCHANGED <<root, maxKeys, entries, pins>>

\* unimplemented!, after the leaf is unpinned.
InsertNeedsSplit(t) ==
    /\ pc[t] = "leaf" /\ call[t].op = "insert"
    /\ ~Present(call[t].key)
    /\ Len(entries) >= maxKeys
    /\ Unpin
    /\ Returns(t, "panic", <<>>)
    /\ UNCHANGED <<root, maxKeys, entries>>

Search(t) ==
    LET c == call[t] IN
    /\ pc[t] = "leaf" /\ c.op = "search"
    /\ \/ \E i \in DOMAIN entries : IsAt(c.key, i) /\ Returns(t, "Ok", <<entries[i].ctid>>)
       \/ ~Present(c.key) /\ Returns(t, "KeyNotFound", <<>>)
    /\ Unpin
    /\ UNCHANGED <<root, maxKeys, entries>>

\* delete shifts the entries behind the first that has the key.
Delete(t) ==
    LET c == call[t] IN
    /\ pc[t] = "leaf" /\ c.op = "delete"
    /\ \/ \E i \in DOMAIN entries :
              /\ IsAt(c.key, i)
              /\ \A j \in 1 .. i - 1 : ~IsAt(c.key, j)
              /\ entries' = RemoveAt(entries, i)
              /\ Returns(t, "Ok", <<>>)
       \/ /\ ~Present(c.key)
          /\ Returns(t, "KeyNotFound", <<>>)
          /\ UNCHANGED entries
    /\ Unpin
    /\ UNCHANGED <<root, maxKeys>>

\* range_search fetches the leaf again, by its number.
RangeFetch(t) ==
    /\ pc[t] = "leaf" /\ call[t].op = "range_search"
    /\ Pin
    /\ Goes(t, "scan")
    /\ UNCHANGED <<root, maxKeys, entries>>

\* The entries from the first key not below the start up to the first above the
\* end, which is where the loop stops.  The second pin is given back, the first
\* is not.
RangeSearch(t) ==
    LET c == call[t] IN
    /\ pc[t] = "scan"
    /\ \E from, upto \in 1 .. Len(entries) + 1 :
           /\ FirstAbove(c.key - 1, from)
           /\ FirstAbove(c.end, upto)
           /\ Returns(t, "Ok", [i \in 1 .. upto - from |-> entries[from + i - 1].ctid])
    /\ Unpin
    /\ UNCHANGED <<root, maxKeys, entries>>

Continue(t) ==
    \/ CreateRoot(t) \/ CreateRootFails(t) \/ RootExists(t)
    \/ FindNothing(t) \/ FindLeaf(t) \/ FetchFails(t)
    \/ InsertDuplicate(t) \/ InsertEntry(t) \/ InsertOutOfBounds(t) \/ InsertNeedsSplit(t)
    \/ Search(t) \/ Delete(t) \/ RangeFetch(t) \/ RangeSearch(t)

Next == \E t \in Threads : Continue(t) \/ \E c \in Calls : Begin(t, c)

Spec == Init /\ [][Next]_vars

-----------------------------------------------------------------------------
(* Properties *)

Points == {"idle", "root", "find", "leaf", "scan"}
Outcomes == {"none", "Ok", "KeyNotFound", "DuplicateKey", "error", "panic"}

TypeOK ==
    /\ root \in BOOLEAN
    /\ maxKeys \in LeafSizes
    /\ entries \in Seq(Entries) /\ Len(entries) <= Capacity
    /\ pins \in Nat
    /\ pc \in [Threads -> Points]
    /\ call \in [Threads -> Calls \cup {Idle}]
    /\ answer \in [Threads -> [outcome : Outcomes, ctids : Seq(Ctids)]]

\* The keys of the leaf ascend, on which the binary searches and the early end of
\* a range search rely, and none is there twice however inserts race.
KeysAscend ==
    \A i \in DOMAIN entries : \A j \in 1 .. i - 1 : entries[j].key < entries[i].key

\* A call in the leaf has it pinned, so it is not evicted under it; and a call
\* leaves a pin behind only if it is a range_search or an insert that panicked.
OnlyRangesAndPanicsLeakPins ==
    [][/\ LeftBehind' >= LeftBehind
       /\ LeftBehind' > LeftBehind =>
              \E t \in Threads :
                  /\ pc[t] # "idle" /\ pc'[t] = "idle"
                  /\ call[t].op = "range_search" \/ answer'[t].outcome = "panic"]_vars

\* Every call that answers takes effect at one moment between its begin and its
\* answer, on one map from keys to CTIDs; one that fails or panics changes nothing.
Contents ==
    [k \in Keys |-> IF Present(k) THEN entries[CHOOSE i \in DOMAIN entries : IsAt(k, i)].ctid
                    ELSE NoCtid]
Map == INSTANCE Index WITH contents <- Contents
ImplementsIndex == Map!Spec
=============================================================================
