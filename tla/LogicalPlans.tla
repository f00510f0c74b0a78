---------------------------- MODULE LogicalPlans ----------------------------
(* The plans of wasdb_query/src/optimizer.rs, which are trees.              *)
EXTENDS Naturals

CONSTANTS Plans,      \* the logical plans that are asked for, and their parts
          height,     \* how deep each of them is nested
          MaxHeight,  \* bound on height
          NoMatch,    \* a filter without index_match
          NoPlan

Operators == {"SeqScan", "IndexScan", "NestedLoopJoin", "Filter"}

Parts(p) ==
    CASE p.op = "Filter" -> {p.child}
      [] p.op = "NestedLoopJoin" -> {p.left, p.right}
      [] OTHER -> {}

ASSUME PlansAssumption ==
    /\ MaxHeight \in Nat
    /\ height \in [Plans -> 0 .. MaxHeight]
    /\ \A p \in Plans :
           /\ p.op \in Operators
           /\ \A c \in Parts(p) : c \in Plans /\ height[c] < height[p]
    /\ NoPlan \notin Plans
=============================================================================
