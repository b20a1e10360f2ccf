----------------------------- MODULE ColumnStats -----------------------------
(* What the generator learns of a column in one pass over its values         *)
(* (generator/src/stats_generator.rs).  An Option is a sequence of at most   *)
(* one element.  A HyperLogLog is abstracted to the set of what was hashed   *)
(* into it; its estimate is near the size of that set.                       *)
EXTENDS Values

CONSTANTS reservoir_capacity, exact_limit, max_histogram_buckets,
          max_string_unique_for_histogram

ASSUME StatsConfigAssumption ==
    /\ reservoir_capacity \in Nat \ {0} /\ exact_limit \in Nat
    /\ max_histogram_buckets \in Nat \ {0} /\ max_string_unique_for_histogram \in Nat

StatsGenerator ==
    [is_physically_ordered |-> TRUE, total_count |-> 0, last_element |-> <<>>,
     lower_bound |-> <<>>, upper_bound |-> <<>>, reservoir |-> <<>>,
     exact_distinct |-> <<<<>>>>, approx_distinct |-> <<>>]

\* A bound moves to an element that is "Less", or "Greater", than it.
NextBound(bound, element, way) ==
    IF bound = <<>> \/ partial_cmp(element, bound[1]) = way THEN <<element>> ELSE bound

StillOrdered(stats, element) ==
    /\ stats.is_physically_ordered
    /\ stats.last_element # <<>> => partial_cmp(stats.last_element[1], element) # "Greater"

\* Reservoir sampling; draw is the random number below the new total_count.
Sample(stats, element, draw) ==
    IF Len(stats.reservoir) < reservoir_capacity THEN Append(stats.reservoir, element)
    ELSE IF draw < reservoir_capacity THEN [stats.reservoir EXCEPT ![draw + 1] = element]
    ELSE stats.reservoir

\* OrderedData::cmp, which takes what has no order for equal.
cmp(x, y) == IF partial_cmp(x, y) = "None" THEN "Equal" ELSE partial_cmp(x, y)

\* BTreeSet::insert, by the search through one node.
insert(set, x) ==
    LET stops == {i \in DOMAIN set : cmp(x, set[i]) # "Greater"}
    IN  IF stops = {} THEN Append(set, x)
        ELSE IF cmp(x, set[Min(stops)]) = "Equal" THEN set
        ELSE InsertAt(set, Min(stops), x)

\* OrderedData is hashed by its type and its bits.
hash(x) == DataKey(x)
add(sketch, x) == sketch \cup {hash(x)}

\* A variant of Sketch that starts with the element that was one too many.
SketchFromHere(set, element) == {hash(element)}

\* The sketch that takes the place of the exact set has what the set had.
Sketch(set, element) == {hash(x) : x \in ToSet(set)}

\* The exact set, until it is larger than its limit.
Distinct(stats, element) ==
    IF stats.exact_distinct = <<>>
    THEN [stats EXCEPT !.approx_distinct = <<add(stats.approx_distinct[1], element)>>]
    ELSE LET set == insert(stats.exact_distinct[1], element)
         IN  IF Len(set) > exact_limit
             THEN [stats EXCEPT !.exact_distinct = <<>>,
                                !.approx_distinct = <<Sketch(set, element)>>]
             ELSE [stats EXCEPT !.exact_distinct = <<set>>]

update(stats, element, draw) ==
    [Distinct(stats, element) EXCEPT
        !.total_count = @ + 1,
        !.lower_bound = NextBound(@, element, "Less"),
        !.upper_bound = NextBound(@, element, "Greater"),
        !.is_physically_ordered = StillOrdered(stats, element),
        !.reservoir = Sample(stats, element, draw),
        !.last_element = <<element>>]
-----------------------------------------------------------------------------
Comparable(column) == \A i \in DOMAIN column : ~IsNaN(column[i])
NonDecreasing(column) ==
    \A i, j \in DOMAIN column : i < j => partial_cmp(column[i], column[j]) # "Greater"

\* With NaNs the order is none: sort_by may notice that, and panic.
SortMayPanic(column) == ~Comparable(column)

\* What sort_by can leave: of what has no order, any.
Sortings(column) ==
    {sorted \in {[i \in DOMAIN column |-> column[p[i]]] :
                    p \in Bijection(DOMAIN column, DOMAIN column)} :
        Comparable(column) => NonDecreasing(sorted)}

\* A variant of ChunkSize that rounds the quotient down.
ChunkSizeDown(n) == n \div Min({max_histogram_buckets, n})

ChunkSize(n) == LET num_buckets == Min({max_histogram_buckets, n})
                IN  (n + num_buckets - 1) \div num_buckets

\* One bucket per chunk of the sorted sample.  The quotient is rounded down (in
\* the floating point of the code one may come out too low when it is whole).
Histogram(sorted, total_count) ==
    LET n == Len(sorted)
        size == ChunkSize(n)
        Bucket(first) ==
            LET last == Min({first + size - 1, n})
            IN  [lower_bound |-> sorted[first], upper_bound |-> sorted[last],
                 frequency |-> ((last - first + 1) * total_count) \div n]
    IN  [b \in 1 .. (n + size - 1) \div size |-> Bucket((b - 1) * size + 1)]

\* HyperLogLog::count; the error of the sketch is some values at most.
Estimates(sketch) == {n \in Nat \cap (Cardinality(sketch) - 1 .. Cardinality(sketch) + 1) : n > 0}

UniqueCounts(stats) == IF stats.exact_distinct # <<>> THEN {Len(stats.exact_distinct[1])}
                       ELSE Estimates(stats.approx_distinct[1])

\* The statistics of a column: a sequence with one element for each kind there is.
build(stats, sorted, unique_count) ==
    LET is_string == stats.last_element[1].type = "String"
    IN  IF stats.total_count = 0 THEN <<>>
        ELSE (IF stats.is_physically_ordered THEN <<[kind |-> "IsPhysicallyOrdered"]>> ELSE <<>>)
             \o (IF is_string THEN <<>>
                 ELSE <<[kind |-> "Range", lower_bound |-> stats.lower_bound[1],
                         upper_bound |-> stats.upper_bound[1]]>>)
             \o <<[kind |-> "Cardinality", count |-> unique_count],
                  [kind |-> "Density", of |-> Min({unique_count, stats.total_count}),
                   among |-> stats.total_count]>>
             \o (IF is_string /\ unique_count > max_string_unique_for_histogram THEN <<>>
                 ELSE <<[kind |-> "Histogram",
                         frequency_points |-> Histogram(sorted, stats.total_count)]>>)
-----------------------------------------------------------------------------
DistinctOf(column) == {hash(column[i]) : i \in DOMAIN column}

\* What the pass knows of the values it has seen: the bounds are the smallest and
\* the largest of them, the order is theirs, and all of them are counted, before
\* and after the exact set is given up for a sketch.  Minus zero is excepted: the
\* set takes it for zero and the sketch does not.
Describes(stats, column) ==
    /\ stats.total_count = Len(column)
    /\ column # <<>> =>
           /\ {stats.lower_bound[1], stats.upper_bound[1]} \subseteq ToSet(column)
           /\ \A x \in ToSet(column) : /\ partial_cmp(x, stats.lower_bound[1]) # "Less"
                                       /\ partial_cmp(x, stats.upper_bound[1]) # "Greater"
    /\ stats.is_physically_ordered <=> NonDecreasing(column)
    /\ (\A i \in DOMAIN column : ~MinusZero(column[i])) =>
           IF Cardinality(DistinctOf(column)) <= exact_limit
           THEN /\ Len(stats.exact_distinct[1]) = Cardinality(DistinctOf(column))
                /\ NonDecreasing(stats.exact_distinct[1])
           ELSE stats.approx_distinct = <<DistinctOf(column)>>

\* A histogram is about the rows it was made for: not more buckets than allowed,
\* in order and without a gap in the sample, with every frequency that there is
\* accounted for when the sample is the whole column.
Summarises(points, sample, total_count) ==
    LET total == FoldLeft(LAMBDA sum, point : sum + point.frequency, 0, points)
    IN  /\ Len(points) \in 1 .. max_histogram_buckets
        /\ \A b \in DOMAIN points :
               /\ partial_cmp(points[b].lower_bound, points[b].upper_bound) # "Greater"
               /\ \A d \in DOMAIN points :
                      b < d => partial_cmp(points[b].upper_bound, points[d].lower_bound) # "Greater"
        /\ \A x \in ToSet(sample) : \E b \in DOMAIN points :
               /\ partial_cmp(x, points[b].lower_bound) # "Less"
               /\ partial_cmp(x, points[b].upper_bound) # "Greater"
        /\ total <= total_count
        /\ total_count = Len(sample) => total = total_count
=============================================================================
