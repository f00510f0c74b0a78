---------------------------- MODULE MCLogManager -----------------------------
(* Records for TLC: a transaction's insert and its end.                       *)
EXTENDS LogManager

Inserted(bytes) == [type |-> Insert, txn_id |-> 1, data |-> bytes]
End(type, txn) == [type |-> type, txn_id |-> txn, data |-> <<>>]

InsertAndEnd == {Inserted(<<5, 0>>), End(Commit, 1)}
Ends == {End(Commit, 1), End(Abort, 2)}
=============================================================================
