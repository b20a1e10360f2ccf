-------------------------------- MODULE Plans --------------------------------
(* Operator trees and what they return.  A query (common/src/query.rs) and a *)
(* plan (database/src/executor) are trees of the same records; only a plan   *)
(* contains hash joins.  Rows are sequences of numbers, in the order of the  *)
(* schema.                                                                   *)
EXTENDS JoinOrders

CONSTANT Tables     \* by name: the columns and the rows of a table, in the
                    \* order of its file, and the columns this order is said to sort

Scan(table) == [op |-> "Scan", table |-> table]
Filter(predicates, under) == [op |-> "Filter", predicates |-> predicates, under |-> under]
Project(map, under) == [op |-> "Project", map |-> map, under |-> under]
Sort(specs, under) == [op |-> "Sort", specs |-> specs, under |-> under]
Cross(left, right) == [op |-> "Cross", left |-> left, right |-> right]
HashJoin(left, right, keys) ==
    [op |-> "HashJoin", left |-> left, right |-> right, keys |-> keys]

RECURSIVE Schema(_)
Schema(tree) ==
    CASE tree.op = "Scan" -> Tables[tree.table].columns
      [] tree.op = "Project" -> [i \in DOMAIN tree.map |-> tree.map[i].new]
      [] tree.op \in {"Filter", "Sort"} -> Schema(tree.under)
      [] tree.op \in {"Cross", "HashJoin"} -> Schema(tree.left) \o Schema(tree.right)
-----------------------------------------------------------------------------
\* Filters (filter.rs).
passes_all(row, schema, predicates) ==
    \A i \in DOMAIN predicates : evaluate_predicate(row, schema, predicates[i])

\* compare_by_specs (sort.rs): the first column that differs decides.
Precedes(x, y, schema, specs) ==
    \E i \in DOMAIN specs :
        LET X(j) == x[Position(schema, specs[j].column)]
            Y(j) == y[Position(schema, specs[j].column)]
        IN  /\ IF specs[i].ascending THEN X(i) < Y(i) ELSE X(i) > Y(i)
            /\ \A j \in 1 .. i - 1 : X(j) = Y(j)

\* All pairs of rows, the left one varying slowest.
Pairs(left, right) ==
    FlattenSeq([i \in DOMAIN left |-> [j \in DOMAIN right |-> left[i] \o right[j]]])

\* FilterOperator and OwnedFilterOperator.
Filtered(rows, schema, predicates) ==
    SelectSeq(rows, LAMBDA row : passes_all(row, schema, predicates))

\* ProjectOperator: the columns of the map, in its order.
Projected(rows, schema, map) ==
    LET source_indices == [i \in DOMAIN map |-> Position(schema, map[i].old)]
    IN  [r \in DOMAIN rows |-> [i \in DOMAIN map |-> rows[r][source_indices[i]]]]

\* The rows an operator returns, in the order of its calls.
RECURSIVE Rows(_)
Rows(tree) ==
    CASE tree.op = "Scan" -> Tables[tree.table].rows
      [] tree.op = "Filter" ->
             Filtered(Rows(tree.under), Schema(tree.under), tree.predicates)
      [] tree.op = "Project" -> Projected(Rows(tree.under), Schema(tree.under), tree.map)
      [] tree.op = "Sort" ->
             SortSeq(Rows(tree.under),
                     LAMBDA x, y : Precedes(x, y, Schema(tree.under), tree.specs))
      [] tree.op = "Cross" -> Pairs(Rows(tree.left), Rows(tree.right))
      [] tree.op = "HashJoin" ->
             SelectSeq(Pairs(Rows(tree.left), Rows(tree.right)),
                       LAMBDA row : KeysMatch(row, Schema(tree.left), tree.keys))
=============================================================================
