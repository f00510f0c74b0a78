------------------------------- MODULE MCQuery -------------------------------
(***************************************************************************)
(* The query layer, one part at a time, chosen at the start: a join, a     *)
(* sort, the optimizer over the catalog, or the parser.  The parts are not *)
(* wired to one another in the code.                                       *)
(***************************************************************************)
EXTENDS QueryInputs, LogicalPlans, SqlParser

CONSTANTS TableNames, Columns, data

VARIABLES
    chosen,
    status, query, joining, cursor, leftTuple, joined, pairs, steady, seen,
    input, sorting, taken, chunk, runs, opened, heap, sorted, tuples, lost,
    tables, plan, result

joinVars == <<status, query, joining, cursor, leftTuple, joined, pairs, steady, seen>>
sortVars == <<input, sorting, taken, chunk, runs, opened, heap, sorted, tuples, lost>>
planVars == <<tables, plan, result>>

Join == INSTANCE NestedLoopJoin WITH pc <- joining, answer <- joined, returned <- pairs
Sort == INSTANCE ExternalMergeSort WITH pc <- sorting, answer <- sorted, returned <- tuples
Planner == INSTANCE Optimizer

EitherInit ==
    /\ chosen \in {"join", "sort", "plan", "parse"}
    /\ Join!Init /\ (chosen # "join" => query = CHOOSE q \in Queries : TRUE)
    /\ Sort!Init
    /\ Planner!Init
    /\ Init

EitherNext ==
    \/ chosen = "join" /\ Join!Next /\ UNCHANGED <<chosen, sortVars, planVars, vars>>
    \/ chosen = "sort" /\ Sort!Next /\ UNCHANGED <<chosen, joinVars, planVars, vars>>
    \/ chosen = "plan" /\ Planner!Next /\ UNCHANGED <<chosen, joinVars, sortVars, vars>>
    \/ chosen = "parse" /\ Next /\ UNCHANGED <<chosen, joinVars, sortVars, planVars>>

EitherSpec == EitherInit /\ [][EitherNext]_<<chosen, joinVars, sortVars, planVars, vars>>

-----------------------------------------------------------------------------
(* Values of the constants *)

\* Versions that come, that come and go, and that are deleted from the start or not.
Header(creator, deleter) == [xmin |-> creator, xmax |-> deleter]
Versions == {Header(1, 0), Header(1, 2), Header(2, 0)}
Tables == {<<>>} \cup {<<v, w>> : v, w \in Versions}
Conditions ==
    {[passes |-> {1, 2}, matches |-> {<<1, 2>>, <<2, 1>>, <<2, 2>>}],
     [passes |-> {2}, matches |-> {1, 2} \X {1, 2}]}
MCQueries ==
    {[tuples |-> [left |-> l, right |-> r],
      passes |-> [left |-> {1, 2}, right |-> c.passes],
      matches |-> c.matches,
      current |-> txn] :
        l \in Tables, r \in Tables, c \in Conditions, txn \in {1, 3}}

MCInputs == {<<>>} \cup [1 .. 3 -> 1 .. 3] \cup [1 .. 5 -> 1 .. 2]

Column(name, pk) == [name |-> name, is_primary_key |-> pk]
MCColumns == {<<Column("a", x), Column("b", y)>> : x, y \in BOOLEAN}
MCData == "t" :> <<<<1, 2>>, <<2, 1>>, <<2, 2>>>> @@ "u" :> <<<<1, 1>>, <<2, 1>>>>

Scan(name) == [op |-> "SeqScan", table |-> name]
IndexScan(name, key) == [op |-> "IndexScan", table |-> name, key |-> key]
Filter(child, predicate, match) ==
    [op |-> "Filter", child |-> child, predicate |-> predicate, index_match |-> match]
JoinOf(l, r, predicate) ==
    [op |-> "NestedLoopJoin", left |-> l, right |-> r, predicate |-> predicate]
Match(column, key) == [column |-> column, key |-> key]

Filters ==
    {Filter(Scan(name), predicate, match) :
        name \in {"t", "u", "v"},
        predicate \in {1 :> 1, 2 :> 1, 2 :> 2, 1 :> 2 @@ 2 :> 1},
        match \in {NoMatch, Match("a", 1), Match("b", 1), Match("b", 2)}}
Children ==
    {Scan("t"), Scan("u"), IndexScan("u", 1),
     Filter(Scan("t"), 1 :> 1, Match("a", 1)),
     Filter(Scan("t"), 2 :> 2, Match("b", 2)),
     Filter(Scan("u"), 2 :> 1, Match("b", 1))}
JoinsOf == {JoinOf(l, r, predicate) : l, r \in Children, predicate \in {{}, {<<1, 1>>}}}
MCPlans ==
    {Scan(name) : name \in {"t", "u", "v"}} \cup {IndexScan("t", 2), IndexScan("v", 1)}
        \cup Children \cup Filters \cup JoinsOf
        \cup {Filter(j, 2 :> 2, Match("b", 2)) : j \in {j \in JoinsOf : j.predicate # {}}}
MCHeight ==
    [p \in MCPlans |->
        CASE p.op = "NestedLoopJoin" -> 2
          [] p.op = "Filter" -> IF p.child.op = "NestedLoopJoin" THEN 3 ELSE 1
          [] OTHER -> 0]

-----------------------------------------------------------------------------
\* The types of the parts that have one.
QueryTypeOK == Join!TypeOK /\ Sort!TypeOK

\* The properties of the parts.
JoinIsARowStream == Join!JoinIsARowStream
SortIsARowStream == Sort!SortIsARowStream
PlansReturnTheirRows == Planner!PlansReturnTheirRows
IndexedPlansReturnTheirRows == Planner!IndexedPlansReturnTheirRows
=============================================================================
