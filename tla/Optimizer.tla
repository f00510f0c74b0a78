------------------------------ MODULE Optimizer ------------------------------
(***************************************************************************)
(* wasdb_query/src/optimizer.rs, with executors.rs without transactions,   *)
(* as the optimizer uses it, and index_scan.rs.  An executor is the rows   *)
(* it returns when it is drained.                                          *)
(*                                                                         *)
(* A predicate is a conjunction of equations: of columns with values in a  *)
(* filter, of columns with columns in a join.  Values are integers.        *)
(***************************************************************************)
EXTENDS Catalog, LogicalPlans, TLC

CONSTANTS Columns,  \* the lists of columns tables are created with
          data      \* the tuples of some of the tables

VARIABLES
    plan,    \* the last plan optimize was given
    result   \* what the last call returned

vars == <<tables, plan, result>>

Err == [ok |-> FALSE, rows |-> <<>>]
Done(rows) == [ok |-> TRUE, rows |-> rows]

Init ==
    /\ tables = NoTables
    /\ plan = NoPlan
    /\ result = Done(<<>>)

-----------------------------------------------------------------------------
(* Executors *)

TuplesOf(name) == IF name \in DOMAIN data THEN data[name] ELSE <<>>

Holds(predicate, t) == \A i \in DOMAIN predicate : t[i] = predicate[i]
Joins(predicate, l, r) == \A x \in predicate : l[x[1]] = r[x[2]]

Having(predicate, rows) == SelectSeq(rows, LAMBDA t : Holds(predicate, t))

\* The tuples whose column has the key.
ScanIndex(column, key, tuples) == Having(column :> key, tuples)

\* Every left row with every right row it matches, in the order of the left rows.
Product(left, right, predicate) ==
    LET matches[i \in 0 .. Len(left)] ==
            IF i = 0 THEN <<>>
            ELSE LET found == SelectSeq(right, LAMBDA r : Joins(predicate, left[i], r))
                 IN  matches[i - 1] \o [j \in DOMAIN found |-> left[i] \o found[j]]
    IN  matches[Len(left)]

-----------------------------------------------------------------------------
(* optimize *)

\* Bug: a match with any column will do.
IsIndexedMaybe(name, column) ==
    \E i \in DOMAIN tables[name].columns : tables[name].columns[i].name = column

\* The column has an index, the first of them or another.
IsIndexed(name, column) ==
    \E i \in DOMAIN tables[name].indexes :
        tables[name].columns[tables[name].indexes[i]].name = column

FirstIndex(name) == tables[name].indexes[1]

OptimizeIndexScan(name, key) ==
    IF ~HasTable(name) \/ tables[name].indexes = <<>> THEN Err
    ELSE Done(ScanIndex(FirstIndex(name), key, TuplesOf(name)))

\* A filter that becomes an index scan, and loses its predicate.
UsesIndex(p) ==
    /\ p.op = "Filter" /\ p.index_match # NoMatch
    /\ p.child.op = "SeqScan"
    /\ HasTable(p.child.table)
    /\ IsIndexed(p.child.table, p.index_match.column)

\* A plan, given what optimize makes of its parts.
OptimizeOf(p, optimized) ==
    CASE p.op = "SeqScan" -> IF HasTable(p.table) THEN Done(TuplesOf(p.table)) ELSE Err
      [] p.op = "IndexScan" -> OptimizeIndexScan(p.table, p.key)
      [] p.op = "NestedLoopJoin" ->
             LET left == optimized[p.left]
                 right == optimized[p.right]
             IN  IF left.ok /\ right.ok THEN Done(Product(left.rows, right.rows, p.predicate))
                 ELSE Err
      [] p.op = "Filter" ->
             LET child == optimized[p.child]
             IN  IF UsesIndex(p) THEN OptimizeIndexScan(p.child.table, p.index_match.key)
                 ELSE IF child.ok THEN Done(Having(p.predicate, child.rows))
                 ELSE Err

Optimize[p \in Plans] == OptimizeOf(p, Optimize)

-----------------------------------------------------------------------------
Create(name, columns) ==
    /\ \/ CreateTable(name, columns) /\ result' = Done(<<>>)
       \/ TableExists(name) /\ result' = Err
    /\ plan' = NoPlan

\* A plan is optimized, and its executor drained.
Query(p) ==
    /\ plan' = p
    /\ result' = Optimize[p]
    /\ UNCHANGED tables

Next ==
    \/ \E name \in TableNames, columns \in Columns : Create(name, columns)
    \/ \E p \in Plans : Query(p)

Spec == Init /\ [][Next]_vars

-----------------------------------------------------------------------------
(* Properties *)

\* The rows a plan asks for, with no regard to what the optimizer does to it.
AskedOf(p, asked) ==
    CASE p.op = "SeqScan" -> TuplesOf(p.table)
      [] p.op = "IndexScan" -> ScanIndex(FirstIndex(p.table), p.key, TuplesOf(p.table))
      [] p.op = "Filter" -> Having(p.predicate, asked[p.child])
      [] p.op = "NestedLoopJoin" -> Product(asked[p.left], asked[p.right], p.predicate)

Asked[p \in Plans] == AskedOf(p, Asked)

\* The scans, filters and joins of a plan.
Nodes[p \in Plans] == {p} \cup UNION {Nodes[c] : c \in Parts(p)}

\* The tables a plan names exist, with an index where it asks for one.
Valid(p) ==
    \A n \in Nodes[p] :
        /\ n.op \in {"SeqScan", "IndexScan"} => HasTable(n.table)
        /\ n.op = "IndexScan" => tables[n.table].indexes # <<>>

\* The filters that become index scans say that the column has the value matched, and
\* no more.
MatchesExactly(p) ==
    \A n \in Nodes[p] :
        UsesIndex(n) =>
            \E i \in DOMAIN tables[n.child.table].columns :
                /\ tables[n.child.table].columns[i].name = n.index_match.column
                /\ n.predicate = (i :> n.index_match.key)

\* They say that of the column of the table's first index.
MatchesFirstIndex(p) ==
    \A n \in Nodes[p] :
        UsesIndex(n) => n.predicate = (FirstIndex(n.child.table) :> n.index_match.key)

\* optimize fails on the plans that cannot be run and on no others; the executor it
\* builds returns the rows the plan asks for, in the order of the scans, if the
\* filters it turns into index scans match exactly the column of the first index.
PlansReturnTheirRows ==
    plan # NoPlan =>
        /\ result.ok = Valid(plan)
        /\ result.ok /\ MatchesFirstIndex(plan) => result.rows = Asked[plan]

\* The same of an exact match on any indexed column, as the comment in optimize has
\* it.
IndexedPlansReturnTheirRows ==
    plan # NoPlan /\ result.ok /\ MatchesExactly(plan) => result.rows = Asked[plan]
=============================================================================
