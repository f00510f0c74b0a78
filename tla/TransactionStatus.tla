-------------------------- MODULE TransactionStatus --------------------------
(***************************************************************************)
(* What the transaction manager promises: a transaction is begun once, and *)
(* then ends once, by one commit or one abort.  TransactionManager is      *)
(* shown to implement this specification.                                  *)
(***************************************************************************)
CONSTANT Ids

VARIABLE status

Init == status = [t \in Ids |-> "unused"]

Moves(t, from, to) == status[t] = from /\ status' = [status EXCEPT ![t] = to]

Begin(t) == Moves(t, "unused", "active")
Commit(t) == Moves(t, "active", "committed")
Abort(t) == Moves(t, "active", "aborted")

\* The process starts again, and no transaction is remembered.
Restart == status' = [t \in Ids |-> "unused"]

Next == Restart \/ \E t \in Ids : Begin(t) \/ Commit(t) \/ Abort(t)

Spec == Init /\ [][Next]_status
=============================================================================
