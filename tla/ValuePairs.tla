----------------------------- MODULE ValuePairs ------------------------------
(* Two rows of one schema meet: in a run that is being sorted, as the heads  *)
(* of two runs in the merge heap (executor/sort.rs), in a predicate that     *)
(* compares their values (executor/filter.rs), or in the hash table of a     *)
(* join (executor/hashjoin.rs).                                              *)
EXTENDS SortKeys

CONSTANTS Schemas,      \* the types of the columns of the rows that may meet
          RowsOf(_),    \* the rows of a schema: sequences of values
          SortSpecs     \* the ORDER BY lists considered

ASSUME RowsAssumption ==
    \A types \in Schemas :
        /\ types \in Seq(DataTypes)
        /\ \A row \in RowsOf(types) :
               /\ row = [i \in DOMAIN types |-> row[i]]
               /\ \A i \in DOMAIN types : row[i] \in Data(types[i])

ASSUME SortSpecsAssumption ==
    \A specs \in SortSpecs, types \in Schemas :
        specs \in Seq([column : DOMAIN types, ascending : BOOLEAN])

VARIABLES schema, sort_specs, a, b      \* the list in force and the two rows

pair_vars == <<schema, sort_specs, a, b>>
-----------------------------------------------------------------------------
PairInit == /\ schema \in Schemas
            /\ sort_specs \in SortSpecs
            /\ a \in RowsOf(schema)
            /\ b = a

\* The heap, the sort of a run, a filter or a probe looks at another row.
Meet == /\ b' \in RowsOf(schema)
        /\ UNCHANGED <<schema, sort_specs, a>>

PairSpec == PairInit /\ [][Meet]_pair_vars
-----------------------------------------------------------------------------
InFloat64(x) == Numeric(x) /\ ~IsNaN(x) => Exact(to_f64(x)) = Exact(x)

\* The merge pops rows by the order of their keys, the runs it merges were
\* sorted by compare_by_specs: on every pair of rows the two orders must be
\* the same, in both directions and over several columns of mixed types.  Rows
\* that hold a NaN or a minus zero are excepted, as both equal other values and
\* have keys of their own, and text with a NUL, which ends its key too early.
KeyOrderAgrees ==
    (\A x \in ToSet(a \o b) : ~IsNaN(x) /\ ~MinusZero(x) /\ ~HasNul(x)) =>
        (BytesLess(encode_sort_key(a, sort_specs), encode_sort_key(b, sort_specs))
            <=> compare_by_specs_less(a, b, sort_specs))

\* What the six operators mean for the numbers and strings themselves: a NaN, or
\* a string beside a number, differs from everything and has no order.
Means(operator, x, y) ==
    LET ordered == Numeric(x) = Numeric(y) /\ ~IsNaN(x) /\ ~IsNaN(y)
        less == ordered /\ Less(x, y)
        greater == ordered /\ Less(y, x)
    IN  CASE operator = "EQ"  -> ordered /\ ~less /\ ~greater
          [] operator = "NE"  -> ~ordered \/ less \/ greater
          [] operator = "GT"  -> greater
          [] operator = "GTE" -> ordered /\ ~less
          [] operator = "LT"  -> less
          [] operator = "LTE" -> ordered /\ ~greater

\* A predicate decides by the exact values: always if f64 represents both
\* operands, for the four orders whenever the operands have one type, and even
\* where a long integer is rounded, a strict order is never claimed in error.
PredicatesExact ==
    \A i \in DOMAIN a, j \in DOMAIN b, operator \in Operators :
        LET holds == Means(operator, a[i], b[j])
            claimed == evaluate_predicate(operator, a[i], b[j])
            sure == \/ InFloat64(a[i]) /\ InFloat64(b[j])
                    \/ schema[i] = schema[j] /\ operator \notin {"EQ", "NE"}
        IN  /\ sure => (claimed <=> holds)
            /\ operator \in {"LT", "GT"} /\ claimed => holds

\* A hash join stands for the product and an equality filter: its keys are equal
\* for the very pairs the filter would pass.
JoinKeysMatchFilter ==
    \A i \in DOMAIN a, j \in DOMAIN b :
        make_join_key(a, <<i>>) = make_join_key(b, <<j>>) <=> data_eq(a[i], b[j])

\* This is true of rows joined on columns of one type, when no key is a NaN, a
\* minus zero, or an integer that f64 rounds.
JoinKeysMatchWithinType ==
    \A columns \in {<<i>> : i \in DOMAIN schema} \cup {[i \in DOMAIN schema |-> i]} :
        (\A i \in ToSet(columns) : \A x \in {a[i], b[i]} :
             ~IsNaN(x) /\ ~MinusZero(x) /\ InFloat64(x)) =>
            (make_join_key(a, columns) = make_join_key(b, columns)
                <=> \A i \in ToSet(columns) : data_eq(a[i], b[i]))
=============================================================================
