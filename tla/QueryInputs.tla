----------------------------- MODULE QueryInputs -----------------------------
(* What the executors are given, for NestedLoopJoin and ExternalMergeSort.  *)
EXTENDS Naturals, Sequences

CONSTANTS Ids,         \* transactions
          Queries,     \* joins to run
          Inputs,      \* what the child of a sort may return: the tuples' keys
          chunk_size,  \* of a sort
          IOFails,     \* whether writing and reading a sort's files may fail
          NoRow,       \* next has not been asked
          None         \* next has answered that there are no more rows

INVALID_TXN_ID == 0
Sides == {"left", "right"}
Headers == [xmin : Ids, xmax : Ids \cup {INVALID_TXN_ID}]

\* A join has, for each of its two scans, the headers of the tuples it was handed and
\* the positions that pass the filter above it; the pairs of positions that match;
\* and the transaction it runs in.
ASSUME QueriesAssumption ==
    \A q \in Queries :
        /\ q.tuples \in [Sides -> Seq(Headers)]
        /\ q.passes \in [Sides -> SUBSET Nat]
        /\ q.matches \subseteq Nat \X Nat
        /\ q.current \in Nat

ASSUME SortAssumption ==
    /\ Inputs \subseteq Seq(Nat)
    /\ chunk_size \in Nat \ {0}
    /\ IOFails \in BOOLEAN

ASSUME IdsAssumption == INVALID_TXN_ID \notin Ids

ASSUME AnswersAssumption ==
    NoRow # None /\ {NoRow, None} \cap (Nat \cup Nat \X Nat) = {}
=============================================================================
