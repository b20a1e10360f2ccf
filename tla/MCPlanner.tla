------------------------------ MODULE MCPlanner ------------------------------
(* Instances of Planner for TLC: three small tables and the queries over     *)
(* them that the different runs look at.                                     *)
EXTENDS Planner

MCTables ==
    [A |-> [columns |-> <<"a", "k">>, rows |-> <<<<1, 1>>, <<1, 2>>, <<2, 2>>>>,
            ordered |-> {"a", "k"}, file_blocks |-> 1],
     B |-> [columns |-> <<"b">>, rows |-> <<<<2>>, <<1>>, <<2>>>>,
            ordered |-> {}, file_blocks |-> 3],
     C |-> [columns |-> <<"c", "d">>, rows |-> <<<<1, 2>>, <<2, 1>>>>,
            ordered |-> {"c"}, file_blocks |-> 2]]

\* Unknown, or the cardinality of two blocks.
MCStatistics == [{"A", "B", "C"} -> {0, 40}]

OnColumn(left, operator, right) ==
    [column |-> left, operator |-> operator, on |-> "Column", value |-> right]
OnValue(left, operator, number) ==
    [column |-> left, operator |-> operator, on |-> "Value", value |-> number]

Pool == <<OnColumn("a", "EQ", "b"), OnColumn("c", "EQ", "b"), OnColumn("d", "EQ", "k"),
          OnColumn("c", "EQ", "a"), OnColumn("a", "EQ", "k"), OnColumn("k", "LT", "d"),
          OnValue("b", "GTE", 2), OnColumn("d", "NE", "b"), OnValue("c", "LTE", 1)>>

\* Every list of up to three predicates of the pool, in its order.
Chosen(max) ==
    {[i \in DOMAIN s |-> Pool[s[i]]] :
        s \in {t \in UNION {[1 .. n -> DOMAIN Pool] : n \in 1 .. max} :
                  \A i, j \in DOMAIN t : i < j => t[i] < t[j]}}

OnA == {<<OnColumn("a", "EQ", "k")>>, <<OnValue("k", "GT", 1)>>}
Ascending(names) == [i \in DOMAIN names |-> [column |-> names[i], ascending |-> TRUE]]
Descending(name) == <<[column |-> name, ascending |-> FALSE]>>
Renamed(pairs) == [i \in DOMAIN pairs |-> [old |-> pairs[i][1], new |-> pairs[i][2]]]

Joined == {Filter(ps, Cross(Cross(Scan("A"), Scan("B")), Scan("C"))) : ps \in Chosen(3)}

Nested == {Filter(ps, Cross(Scan("C"), Filter(qs, Cross(Sort(Descending("a"), Scan("A")),
                                                        Scan("B"))))) :
              ps \in Chosen(2), qs \in OnA}

Plain == {Filter(ps, Cross(Scan("A"), Scan("A"))) : ps \in OnA}
           \cup {Filter(ps, Cross(Project(Renamed(<<<<"k", "k">>, <<"a", "a">>>>), Scan("A")),
                                  Scan("C"))) : ps \in OnA}

Sources == {Scan("A"), Project(Renamed(<<<<"k", "k">>, <<"a", "a">>>>), Scan("A")),
            Cross(Scan("A"), Scan("C"))}
             \cup {Filter(ps, Scan("A")) : ps \in OnA}
             \cup {Filter(<<Pool[3]>>, Cross(Scan("A"), Scan("C")))}

Orders == {Ascending(<<"a">>), Ascending(<<"k", "a">>), Descending("a"), Descending("k")}

Sorted == {Sort(specs, source) : specs \in Orders, source \in Sources}
            \cup {Sort(Ascending(<<"d">>), Scan("C")), Sort(Ascending(<<"c", "d">>), Scan("C"))}

MCQueries == Joined \cup Nested \cup Plain \cup Sorted

MCRenamedSorts ==
    {Sort(Ascending(<<"c">>), Project(Renamed(<<<<"d", "c">>>>), source)) :
        source \in {Scan("C"), Filter(<<Pool[9]>>, Scan("C"))}}
      \cup Sorted
=============================================================================
