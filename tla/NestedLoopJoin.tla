--------------------------- MODULE NestedLoopJoin ----------------------------
(***************************************************************************)
(* The executors of wasdb_query/src/executors.rs, as a plan stacks them: a *)
(* nested loop join over two filters, each over a sequential scan that     *)
(* shows the current transaction what it may see.                          *)
(*                                                                         *)
(* A call of init or next runs in one thread and looks at one tuple after  *)
(* the other.  Other threads begin, commit and abort transactions in the   *)
(* meantime, which TransactionStatus describes; is_visible answers for one *)
(* moment of its call (TransactionManager), so a look is a step.           *)
(***************************************************************************)
EXTENDS QueryInputs

VARIABLES
    status,     \* TransactionStatus, kept by the transaction manager
    query,      \* the member of Queries that runs
    pc,         \* the call, and which child it is asking for the next tuple
    cursor,     \* of each scan: how many tuples it has looked at
    leftTuple,  \* the position of left_tuple, 0 for None
    answer,     \* what the last call of next returned: a pair, or None
    returned,   \* ghost: the pairs returned since init
    steady,     \* ghost: the positions shown at every moment since init
    seen        \* ghost: the positions shown at some moment since init

executor == <<query, pc, cursor, leftTuple, answer>>
vars == <<status, executor, returned, steady, seen>>

Transactions == INSTANCE TransactionStatus

NoTuple == 0
Nowhere == [s \in Sides |-> {}]

Init ==
    /\ Transactions!Init
    /\ query \in Queries
    /\ pc = "idle"
    /\ cursor = [s \in Sides |-> 0]
    /\ leftTuple = NoTuple
    /\ answer = NoRow
    /\ returned = {}
    /\ steady = Nowhere
    /\ seen = Nowhere

Positions(s) == DOMAIN query.tuples[s]

\* is_visible
Visible(header, txn) ==
    LET committed(t) == t \in Ids /\ status[t] = "committed"
    IN  /\ header.xmin = txn \/ committed(header.xmin)
        /\ \/ header.xmax = INVALID_TXN_ID
           \/ header.xmax # txn /\ ~committed(header.xmax)

\* What a scan and the filter above it let through at this moment.
Shown ==
    [s \in Sides |->
        {p \in Positions(s) : p \in query.passes[s] /\ Visible(query.tuples[s][p], query.current)}]

-----------------------------------------------------------------------------
(* One turn of the loops in the scan and the filter: a child passes over a  *)
(* tuple it does not show, or returns one that it does, or None.            *)

Asks(s) == IF s = "right" THEN pc = "right" ELSE pc \in {"init", "left"}

Exhausted(s) == cursor[s] = Len(query.tuples[s])

\* The tuple under the cursor is shown.
Candidate(s) == cursor[s] + 1 \in Shown[s]

PassOver(s) ==
    /\ Asks(s) /\ ~Exhausted(s) /\ ~Candidate(s)
    /\ cursor' = [cursor EXCEPT ![s] = @ + 1]
    /\ UNCHANGED <<query, pc, leftTuple, answer, returned>>

-----------------------------------------------------------------------------
(* init, which asks the left child for its first tuple *)

CallInit ==
    /\ pc = "idle"
    /\ pc' = "init"
    /\ cursor' = [s \in Sides |-> 0]
    /\ answer' = NoRow
    /\ returned' = {}
    /\ UNCHANGED <<query, leftTuple>>

InitReturns ==
    /\ pc = "init"
    /\ \/ /\ Exhausted("left")
          /\ leftTuple' = NoTuple
          /\ UNCHANGED cursor
       \/ /\ ~Exhausted("left") /\ Candidate("left")
          /\ cursor' = [cursor EXCEPT !["left"] = @ + 1]
          /\ leftTuple' = cursor'["left"]
    /\ pc' = "idle"
    /\ UNCHANGED <<query, answer, returned>>

-----------------------------------------------------------------------------
(* next *)

ReturnNone ==
    /\ pc' = "idle"
    /\ answer' = None
    /\ UNCHANGED returned

CallNext ==
    /\ pc = "idle"
    /\ \/ leftTuple = NoTuple /\ ReturnNone
       \/ leftTuple # NoTuple /\ pc' = "right" /\ UNCHANGED <<answer, returned>>
    /\ UNCHANGED <<query, cursor, leftTuple>>

\* The right child returns a tuple, which matches the left one or not.
RightReturns ==
    /\ pc = "right" /\ ~Exhausted("right") /\ Candidate("right")
    /\ cursor' = [cursor EXCEPT !["right"] = @ + 1]
    /\ LET pair == <<leftTuple, cursor["right"] + 1>> IN
       \/ /\ pair \in query.matches
          /\ pc' = "idle"
          /\ answer' = pair
          /\ returned' = returned \cup {pair}
       \/ pair \notin query.matches /\ UNCHANGED <<pc, answer, returned>>
    /\ UNCHANGED <<query, leftTuple>>

RightIsExhausted ==
    /\ pc = "right" /\ Exhausted("right")
    /\ pc' = "left"
    /\ UNCHANGED <<query, cursor, leftTuple, answer, returned>>

\* Bug: the right child goes on from where it is.
NextLeftUnreset ==
    /\ cursor' = [cursor EXCEPT !["left"] = @ + 1]
    /\ leftTuple' = cursor["left"] + 1

\* The next left tuple meets the right child from its start.
NextLeft ==
    /\ cursor' = [left |-> cursor["left"] + 1, right |-> 0]
    /\ leftTuple' = cursor["left"] + 1

LeftReturns ==
    /\ pc = "left" /\ ~Exhausted("left") /\ Candidate("left")
    /\ NextLeft
    /\ pc' = "right"
    /\ UNCHANGED <<query, answer, returned>>

LeftIsExhausted ==
    /\ pc = "left" /\ Exhausted("left")
    /\ leftTuple' = NoTuple
    /\ ReturnNone
    /\ UNCHANGED <<query, cursor>>

-----------------------------------------------------------------------------
Call == CallInit \/ CallNext

Run ==
    \/ \E s \in Sides : PassOver(s)
    \/ InitReturns
    \/ RightReturns \/ RightIsExhausted
    \/ LeftReturns \/ LeftIsExhausted

\* Another thread begins or ends a transaction.
OtherThread ==
    /\ \E t \in Ids : Transactions!Begin(t) \/ Transactions!Commit(t) \/ Transactions!Abort(t)
    /\ UNCHANGED <<executor, returned>>

\* What has been shown since init, all the time or at some time.
Observe ==
    IF pc = "idle" /\ pc' = "init"
    THEN steady' = Shown' /\ seen' = Shown'
    ELSE IF UNCHANGED status THEN UNCHANGED <<steady, seen>>
    ELSE /\ steady' = [s \in Sides |-> steady[s] \cap Shown'[s]]
         /\ seen' = [s \in Sides |-> seen[s] \cup Shown'[s]]

Next ==
    /\ \/ (Call \/ Run) /\ UNCHANGED status
       \/ OtherThread
    /\ Observe

Spec == Init /\ [][Next]_vars

-----------------------------------------------------------------------------
(* Properties *)

TypeOK ==
    /\ status \in [Ids -> {"unused", "active", "committed", "aborted"}]
    /\ query \in Queries
    /\ pc \in {"idle", "init", "left", "right"}
    /\ cursor \in [Sides -> Nat] /\ \A s \in Sides : cursor[s] <= Len(query.tuples[s])
    /\ leftTuple \in 0 .. Len(query.tuples["left"])
    /\ answer \in Nat \X Nat \cup {NoRow, None}
    /\ returned \subseteq Nat \X Nat
    /\ {steady, seen} \subseteq [Sides -> SUBSET Nat]
    /\ \A s \in Sides : steady[s] \subseteq seen[s] /\ seen[s] \subseteq Positions(s)

\* However transactions commit while the join runs: a pair is returned at most once,
\* in the order of the left and then of the right tuples; only if it matches and
\* both of its tuples were shown at some time; and if both were shown all the time,
\* it is returned before None.
Matching(shown) == {r \in query.matches : r[1] \in shown["left"] /\ r[2] \in shown["right"]}

Precedes(q, r) == q[1] < r[1] \/ (q[1] = r[1] /\ q[2] < r[2])
InOrder == {x \in query.matches \X query.matches : Precedes(x[1], x[2])}

Stream == INSTANCE RowStream WITH
              Rows <- Nat \X Nat,
              before <- InOrder,
              allowed <- Matching(seen),
              owed <- Matching(steady) \ returned
JoinIsARowStream == Stream!Spec
=============================================================================
