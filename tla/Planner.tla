------------------------------- MODULE Planner -------------------------------
(* Planning (database/src/executor/mod.rs): build_operator turns a query     *)
(* into a tree of operators.  It replaces a filter over a cross product of   *)
(* tables without common column names by a tree of joins in an order of its  *)
(* own, and drops a sort whose input the files already hold in order.        *)
EXTENDS Plans

CONSTANTS Queries,          \* the queries considered
          Statistics,       \* by table: the largest cardinality of a column, 0 if unknown
          BytesPerRow,      \* 128 in the code
          BytesPerBlock     \* 4096 in the code

VARIABLES query,
          stats,            \* the statistics of the configuration
          plan              \* the tree of operators, or NoPlan

vars == <<query, stats, plan>>

NoPlan == [op |-> "None"]
-----------------------------------------------------------------------------
\* The tables and the predicates of a filtered cross product, in the order in
\* which a walk from the left meets them.
RECURSIVE collect_join_parts(_)
collect_join_parts(tree) ==
    CASE tree.op = "Filter" ->
             LET under == collect_join_parts(tree.under)
             IN  [under EXCEPT !.predicates = tree.predicates \o @]
      [] tree.op = "Cross" ->
             LET left == collect_join_parts(tree.left)
                 right == collect_join_parts(tree.right)
             IN  [scans |-> left.scans \o right.scans,
                  predicates |-> left.predicates \o right.predicates]
      [] OTHER -> [scans |-> <<tree>>, predicates |-> <<>>]

\* Predicates on one table alone are applied to its scan.
build_leaf(leaf, operator, predicates) ==
    LET pushdown == SelectSeq(predicates, LAMBDA p : Satisfiable(p, Schema(operator)))
    IN  IF leaf.op # "Scan" \/ pushdown = <<>> THEN operator
        ELSE Filter(pushdown, operator)

\* The estimate by which tables are ordered.
RECURSIVE scan_op_blocks(_)
scan_op_blocks(tree) ==
    CASE tree.op = "Scan" ->
             IF stats[tree.table] > 0
             THEN (stats[tree.table] * BytesPerRow + BytesPerBlock - 1) \div BytesPerBlock
             ELSE Tables[tree.table].file_blocks
      [] tree.op \in {"Filter", "Project"} -> scan_op_blocks(tree.under)
      [] OTHER -> 0

\* One more table: a hash join if there are keys, and the predicates that can
\* be evaluated now on top of it, those of the tables below included.
JoinStep(current, right, predicates) ==
    LET keys == equi_join_keys(predicates, Schema(current), Schema(right))
        join == IF keys = <<>> THEN Cross(current, right) ELSE HashJoin(current, right, keys)
        residual == SelectSeq(predicates, LAMBDA p :
                        Residual(p, Schema(current), Schema(right), keys))
    IN  IF residual = <<>> THEN join ELSE Filter(residual, join)

\* leaves are the operators built for scans.
build_join_tree(scans, leaves, predicates) ==
    LET order == JoinOrder([i \in DOMAIN scans |-> Schema(scans[i])],
                           [i \in DOMAIN scans |-> scan_op_blocks(scans[i])], predicates)
        Leaf(i) == build_leaf(scans[order[i]], leaves[order[i]], predicates)
        Tree[i \in DOMAIN order] ==
            IF i = 1 THEN Leaf(1) ELSE JoinStep(Tree[i - 1], Leaf(i), predicates)
    IN  Tree[Len(order)]

has_overlap(scans) ==
    \E i, j \in DOMAIN scans :
        i < j /\ Names(Schema(scans[i])) \cap Names(Schema(scans[j])) # {}
-----------------------------------------------------------------------------
RECURSIVE BaseTable(_)
BaseTable(tree) ==
    IF tree.op \in {"Filter", "Project"} THEN BaseTable(tree.under) ELSE tree

\* A variant that does not look at the direction.
SortedEitherWay(under, specs) ==
    BaseTable(under).op = "Scan" /\ \A i \in DOMAIN specs :
        specs[i].column \in Tables[BaseTable(under).table].ordered

\* All columns ascending, and the file of the one table is ordered by each.
sort_already_satisfied(under, specs) ==
    /\ \A i \in DOMAIN specs : specs[i].ascending
    /\ BaseTable(under).op = "Scan"
    /\ \A i \in DOMAIN specs : specs[i].column \in Tables[BaseTable(under).table].ordered

RECURSIVE build_operator(_)
build_operator(tree) ==
    CASE tree.op = "Scan" -> tree
      [] tree.op = "Filter" ->
             LET parts == collect_join_parts(tree)
             IN  IF Len(parts.scans) > 1 /\ ~has_overlap(parts.scans)
                 THEN build_join_tree(parts.scans,
                          [i \in DOMAIN parts.scans |-> build_operator(parts.scans[i])],
                          parts.predicates)
                 ELSE Filter(tree.predicates, build_operator(tree.under))
      [] tree.op = "Project" -> Project(tree.map, build_operator(tree.under))
      [] tree.op = "Sort" ->
             IF sort_already_satisfied(tree.under, tree.specs)
             THEN build_operator(tree.under)
             ELSE Sort(tree.specs, build_operator(tree.under))
      [] tree.op = "Cross" ->
             Cross(build_operator(tree.left), build_operator(tree.right))
-----------------------------------------------------------------------------
Init == query \in Queries /\ stats \in Statistics /\ plan = NoPlan

Build == /\ plan = NoPlan
         /\ plan' = build_operator(query)
         /\ UNCHANGED <<query, stats>>

\* The tree has been built.
Built == plan # NoPlan /\ UNCHANGED vars

Next == Build \/ Built

Spec == Init /\ [][Next]_vars
-----------------------------------------------------------------------------
\* The rows of a tree, with their columns in the order of another schema.
RowsAs(tree, schema) ==
    LET from == [i \in DOMAIN schema |-> Position(Schema(tree), schema[i])]
        rows == Rows(tree)
    IN  [r \in DOMAIN rows |-> [i \in DOMAIN schema |-> rows[r][from[i]]]]

Occurrences(rows, row) == Cardinality({r \in DOMAIN rows : rows[r] = row})

\* Every predicate is enforced somewhere in the tree and nothing else is: up to
\* the order of rows and columns, the plan returns what the query says, every
\* row as often.
PlanKeepsRows ==
    plan # NoPlan =>
        LET is == RowsAs(plan, Schema(query))
            should == RowsAs(query, Schema(query))
        IN  /\ Len(is) = Len(should)
            /\ \A row \in Range(should) : Occurrences(is, row) = Occurrences(should, row)

\* The result of a query that sorts is sorted, also when the sort was dropped.
SortedResultIsSorted ==
    plan # NoPlan /\ query.op = "Sort" =>
        LET rows == RowsAs(plan, Schema(query))
        IN  \A i, j \in DOMAIN rows :
                i < j => ~Precedes(rows[j], rows[i], Schema(query), query.specs)

\* The joins of a tree whose leaves are scans.
RECURSIVE Joins(_)
Joins(tree) ==
    CASE tree.op \in {"Cross", "HashJoin"} ->
             {tree} \cup Joins(tree.left) \cup Joins(tree.right)
      [] tree.op \in {"Filter", "Project", "Sort"} -> Joins(tree.under)
      [] OTHER -> {}

\* The tables and predicates of the query, and the schemas of the tables.
Parts == collect_join_parts(query)
Schemas == [i \in DOMAIN Parts.scans |-> Schema(Parts.scans[i])]

\* When equalities connect all tables, no join of the plan is a cross product,
\* whatever the order in which the query and the statistics list the tables.
NoAvoidableCross ==
    plan # NoPlan /\ query.op = "Filter" /\ Len(Parts.scans) > 1
      /\ ~has_overlap(Parts.scans) /\ Connected(Schemas, Parts.predicates) =>
        \A join \in Joins(plan) : join.op = "HashJoin"

\* A table that the planner estimates to be larger than each of the others is never
\* on the side of a join that is built in memory.  The estimate is scan_op_blocks:
\* of a sort or a product below the joins it is 0, whatever they return.
LargestIsNotBuilt ==
    plan # NoPlan /\ query.op = "Filter" /\ ~has_overlap(Parts.scans) =>
        \A i \in DOMAIN Parts.scans :
            (\A j \in DOMAIN Parts.scans \ {i} :
                 scan_op_blocks(Parts.scans[i]) > scan_op_blocks(Parts.scans[j])) =>
            \A join \in Joins(plan) :
                Names(Schema(Parts.scans[i])) \cap Names(Schema(join.right)) = {}
=============================================================================
