------------------------------ MODULE RowStream ------------------------------
(***************************************************************************)
(* What an executor promises (the trait Executor of executors.rs): from    *)
(* init on, next returns rows one at a time, none of them twice, in the    *)
(* executor's order, and None when there are no more.  NestedLoopJoin and  *)
(* ExternalMergeSort are shown to implement this specification.            *)
(***************************************************************************)
CONSTANTS Rows,
          NoRow,    \* next has not been asked
          None      \* next has answered that there are no more rows

VARIABLES
    before,    \* pairs <<q, r>> of rows: r is not returned before q
    allowed,   \* the rows next may return
    owed,      \* the rows next has to return before it answers None
    returned,  \* the rows next has returned since init
    answer     \* what next last answered

vars == <<before, allowed, owed, returned, answer>>

Init ==
    /\ owed = {}
    /\ allowed = {}
    /\ returned = {}
    /\ answer = NoRow

\* init: from here on these rows are to be returned.
Open ==
    /\ allowed' \subseteq Rows
    /\ owed' \subseteq allowed'
    /\ returned' = {}
    /\ answer' = NoRow

\* A call that returns a row may excuse others on the way.
Return(r) ==
    /\ answer # None
    /\ r \in allowed \ returned
    /\ \A q \in returned : <<r, q>> \notin before
    /\ returned' = returned \cup {r}
    /\ owed' \subseteq owed \ {r}
    /\ answer' = r
    /\ UNCHANGED <<before, allowed>>

End ==
    /\ owed = {}
    /\ answer' = None
    /\ UNCHANGED <<before, allowed, owed, returned>>

\* What happens beside the executor may allow more rows and excuse others.
Change ==
    /\ allowed \subseteq allowed'
    /\ allowed' \subseteq Rows
    /\ owed' \subseteq owed
    /\ UNCHANGED <<before, returned, answer>>

Next == Open \/ End \/ Change \/ \E r \in allowed : Return(r)

Spec == Init /\ [][Next]_vars
=============================================================================
