------------------------------ MODULE JoinOrders ------------------------------
(* The joins of build_join_tree (database/src/executor/mod.rs): in which      *)
(* order the tables of a query are joined, and which of the predicates of the *)
(* query each join enforces, by its keys and by the filters around it.  Names *)
(* of columns are looked up in a schema, the first column that has it.        *)
EXTENDS Integers, SequencesExt

Names(schema) == ToSet(schema)
Position(schema, name) == Min({i \in DOMAIN schema : schema[i] = name})
-----------------------------------------------------------------------------
\* Predicates (filter.rs): the right side is a column or a number.
Compare(operator, x, y) ==
    CASE operator = "EQ" -> x = y
      [] operator = "NE" -> x # y
      [] operator = "GT" -> x > y
      [] operator = "GTE" -> x >= y
      [] operator = "LT" -> x < y
      [] operator = "LTE" -> x <= y

evaluate_predicate(row, schema, pred) ==
    Compare(pred.operator, row[Position(schema, pred.column)],
            IF pred.on = "Column" THEN row[Position(schema, pred.value)] ELSE pred.value)

KeysMatch(row, schema, keys) ==
    \A i \in DOMAIN keys : row[keys[i][1]] = row[Len(schema) + keys[i][2]]

\* The columns a predicate names are all there.
Satisfiable(pred, schema) ==
    /\ pred.column \in Names(schema)
    /\ pred.on = "Column" => pred.value \in Names(schema)

\* The key columns that one predicate contributes to a join, if any.
KeyOf(pred, left, right) ==
    IF pred.operator # "EQ" \/ pred.on # "Column" THEN <<>>
    ELSE IF pred.column \in Names(left) /\ pred.value \in Names(right)
         THEN <<<<Position(left, pred.column), Position(right, pred.value)>>>>
    ELSE IF pred.value \in Names(left) /\ pred.column \in Names(right)
         THEN <<<<Position(left, pred.value), Position(right, pred.column)>>>>
    ELSE <<>>

equi_join_keys(predicates, left, right) ==
    FlattenSeq([i \in DOMAIN predicates |-> KeyOf(predicates[i], left, right)])

\* A variant that takes every equality between the two sides for a key.
UsedByAnyKey(pred, left, right, keys) ==
    keys # <<>> /\ pred.operator = "EQ" /\ pred.on = "Column"

\* The predicate has become a key of the join.
WasJoinKey(pred, left, right, keys) ==
    /\ pred.operator = "EQ" /\ pred.on = "Column"
    /\ \E i \in DOMAIN keys :
           \/ left[keys[i][1]] = pred.column /\ right[keys[i][2]] = pred.value
           \/ left[keys[i][1]] = pred.value /\ right[keys[i][2]] = pred.column

\* The predicate is applied to what the join returns.
Residual(pred, left, right, keys) ==
    Satisfiable(pred, left \o right) /\ ~WasJoinKey(pred, left, right, keys)
-----------------------------------------------------------------------------
\* The tables of a query are numbered; schemas and blocks (the estimates of
\* scan_op_blocks) are by table, an order is a sequence of tables.

\* A variant that takes the smallest table for the probe side.
FirstSmallest(blocks) ==
    Max({i \in DOMAIN blocks : \A j \in DOMAIN blocks : blocks[i] <= blocks[j]})

\* The largest table, the last one of several (max_by_key).
FirstTable(blocks) ==
    Max({i \in DOMAIN blocks : \A j \in DOMAIN blocks : blocks[i] >= blocks[j]})

\* The schema of the tables of an order.
Combined(schemas, order) == FlattenSeq([k \in DOMAIN order |-> schemas[order[k]]])

\* A variant that orders the tables by size alone.
BetterBySize(schemas, blocks, predicates, combined, i, j) == blocks[i] > blocks[j]

\* The key by which the next table is chosen: the number of join keys first.
Better(schemas, blocks, predicates, combined, i, j) ==
    LET key_count(k) == Len(equi_join_keys(predicates, combined, schemas[k]))
    IN  \/ key_count(i) > key_count(j)
        \/ key_count(i) = key_count(j) /\ blocks[i] > blocks[j]

\* The best of the tables that an order leaves, the last one of several.
NextTable(schemas, blocks, predicates, order) ==
    LET remaining == DOMAIN schemas \ ToSet(order)
        combined == Combined(schemas, order)
    IN  Max({i \in remaining :
             \A j \in remaining : ~Better(schemas, blocks, predicates, combined, j, i)})

Extended(schemas, blocks, predicates, order) ==
    Append(order, NextTable(schemas, blocks, predicates, order))

JoinOrder(schemas, blocks, predicates) ==
    LET order[n \in 1 .. Len(schemas)] ==
            IF n = 1 THEN <<FirstTable(blocks)>>
            ELSE Extended(schemas, blocks, predicates, order[n - 1])
    IN  order[Len(schemas)]
-----------------------------------------------------------------------------
\* Tables with an equality between them, and tables connected by equalities.
Linked(schemas, predicates, i, j) ==
    equi_join_keys(predicates, schemas[i], schemas[j]) # <<>>

Connected(schemas, predicates) ==
    \A S \in SUBSET DOMAIN schemas :
        S # {} /\ S # DOMAIN schemas =>
            \E i \in S, j \in DOMAIN schemas \ S : Linked(schemas, predicates, i, j)
=============================================================================
