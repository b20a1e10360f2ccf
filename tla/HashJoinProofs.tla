---------------------------- MODULE HashJoinProofs ----------------------------
(* The hash join, for every input, hash function, budget and number of       *)
(* partitions: every row pulled is in the table or in the partition of its   *)
(* key, a left row is probed against all right rows with its key, the        *)
(* buffers stay within their budgets, and every match is returned once.      *)
EXTENDS HashJoin, RowBlocksProofs, FiniteSetTheorems

\* s lists the rows of S, each once.
Lists(s, S) == s \in Seq(Rows) /\ ToSet(s) = S /\ IsInjective(s)

\* The rows a child has returned when n of them have been pulled.
Pulled(stream, n) == {stream[i] : i \in 1 .. n}

\* What the model assumes of a row.
LEMMA RowFacts ==
    /\ \A row \in Rows : /\ row.len \in Nat /\ row.len <= usable /\ row.mem \in Nat
                         /\ hash_partition(row.key) \in Partitions
    /\ NUM_PARTITIONS \in Nat \ {0} /\ READ_BATCH \in Nat \ {0}
    /\ FLUSH_THRESHOLD \in Nat \ {0} /\ INMEM_BUILD_BUDGET \in Nat \ {0}
  BY HashJoinAssumption

\* A new row at the end of a list.
LEMMA ListsAppend ==
    ASSUME NEW s, NEW S, Lists(s, S), NEW row \in Rows, row \notin S
    PROVE  Lists(Append(s, row), S \cup {row})
<1> DEFINE t == Append(s, row)
<1>1. s \in Seq(Rows) /\ ToSet(s) = S /\ IsInjective(s)
  BY DEF Lists
<1>2. PICK n \in Nat : n = Len(s)
  BY <1>1, LenProperties
<1>3. /\ DOMAIN s = 1 .. n /\ DOMAIN t = 1 .. n + 1
      /\ t[n + 1] = row /\ \A i \in 1 .. n : t[i] = s[i]
  BY <1>1, <1>2, AppendedSeq
<1>4. t \in Seq(Rows) /\ ToSet(t) = S \cup {row}
  BY <1>1, RowAppended
<1> HIDE DEF t
<1>5. \A i \in 1 .. n : s[i] # row
  BY <1>1, <1>3 DEF ToSet
<1>6. \A i, j \in 1 .. n : s[i] = s[j] => i = j
  BY <1>1, <1>3 DEF IsInjective
<1>7. ASSUME NEW i \in 1 .. n + 1, NEW j \in 1 .. n + 1, t[i] = t[j] PROVE i = j
  <2>1. i \in 1 .. n \/ i = n + 1
    OBVIOUS
  <2>2. j \in 1 .. n \/ j = n + 1
    OBVIOUS
  <2> QED
    BY <1>3, <1>5, <1>6, <1>7, <2>1, <2>2
<1>8. IsInjective(t)
  BY <1>3, <1>7 DEF IsInjective
<1> QED
  BY <1>4, <1>8 DEF Lists, t

\* The first row of a list and the others.
LEMMA ListsTail ==
    ASSUME NEW row \in Rows, NEW s \in Seq(Rows), NEW S, Lists(<<row>> \o s, S)
    PROVE  row \in S /\ Lists(s, S \ {row})
<1> DEFINE t == <<row>> \o s
<1>1. ToSet(t) = S /\ IsInjective(t) /\ ToSet(t) = ToSet(s) \cup {row}
  BY RowInFront DEF Lists
<1>2. PICK n \in Nat : n = Len(s)
  BY LenProperties
<1>3. /\ DOMAIN s = 1 .. n /\ DOMAIN t = 1 .. n + 1
      /\ t[1] = row /\ \A i \in 1 .. n : t[i + 1] = s[i]
  BY <1>2
<1> HIDE DEF t
<1>4. \A i \in 1 .. n : s[i] # row
  <2>1. ASSUME NEW i \in 1 .. n, s[i] = row PROVE FALSE
    <3>1. i + 1 \in 1 .. n + 1 /\ 1 \in 1 .. n + 1 /\ i + 1 # 1
      OBVIOUS
    <3> QED
      BY <1>1, <1>3, <2>1, <3>1 DEF IsInjective
  <2> QED
    BY <2>1
<1>5. row \notin ToSet(s)
  BY <1>3, <1>4 DEF ToSet
<1>6. IsInjective(s)
  <2>1. ASSUME NEW i \in 1 .. n, NEW j \in 1 .. n, s[i] = s[j] PROVE i = j
    <3>1. i + 1 \in 1 .. n + 1 /\ j + 1 \in 1 .. n + 1
      OBVIOUS
    <3>2. i + 1 = j + 1
      BY <1>1, <1>3, <2>1, <3>1 DEF IsInjective
    <3> QED
      BY <3>2
  <2> QED
    BY <1>3, <2>1 DEF IsInjective
<1> QED
  BY <1>1, <1>5, <1>6 DEF Lists

\* The children return rows that are numbered, so that none comes twice.
LEMMA StreamFacts ==
    ASSUME NEW stream \in LeftInputs \cup RightInputs
    PROVE  /\ stream \in Seq(Rows) /\ Len(stream) \in Nat /\ DOMAIN stream = 1 .. Len(stream)
           /\ \A i \in 1 .. Len(stream) : stream[i] \in Rows /\ stream[i].id = i
           /\ ToSet(stream) = Pulled(stream, Len(stream))
<1>1. stream \in Seq(Rows) /\ \A i \in DOMAIN stream : stream[i].id = i
  BY HashJoinAssumption
<1>2. Len(stream) \in Nat /\ DOMAIN stream = 1 .. Len(stream)
  BY <1>1, LenProperties
<1>3. \A i \in 1 .. Len(stream) : stream[i] \in Rows
  BY <1>1, ElementOfSeq
<1>4. ToSet(stream) = Pulled(stream, Len(stream))
  BY <1>2 DEF ToSet, Pulled
<1> QED
  BY <1>1, <1>2, <1>3, <1>4

\* The rows pulled so far, and one more.
LEMMA PullFacts ==
    ASSUME NEW stream \in LeftInputs \cup RightInputs, NEW n \in 0 .. Len(stream)
    PROVE  /\ ToSet(SubSeq(stream, 1, n)) = Pulled(stream, n)
           /\ Pulled(stream, n) \subseteq Rows /\ Pulled(stream, 0) = {}
           /\ n < Len(stream) =>
                  /\ stream[n + 1] \in Rows \ Pulled(stream, n)
                  /\ Pulled(stream, n + 1) = Pulled(stream, n) \cup {stream[n + 1]}
<1>1. /\ stream \in Seq(Rows) /\ Len(stream) \in Nat
      /\ \A i \in 1 .. Len(stream) : stream[i] \in Rows /\ stream[i].id = i
  BY StreamFacts
<1>2. ToSet(SubSeq(stream, 1, n)) = Pulled(stream, n)
  <2>1. \A i \in 1 .. n : stream[i] \in Rows
    BY <1>1
  <2>2. SubSeq(stream, 1, n) = [i \in 1 .. n |-> stream[i]]
    BY <1>1
  <2> QED
    BY <2>2 DEF ToSet, Pulled
<1>3. \A i \in 1 .. n : i \in 1 .. Len(stream)
  BY <1>1
<1>4. Pulled(stream, n) \subseteq Rows /\ Pulled(stream, 0) = {}
  BY <1>1, <1>3 DEF Pulled
<1>5. ASSUME n < Len(stream)
      PROVE  /\ stream[n + 1] \in Rows \ Pulled(stream, n)
             /\ Pulled(stream, n + 1) = Pulled(stream, n) \cup {stream[n + 1]}
  <2>1. n + 1 \in 1 .. Len(stream) /\ \A i \in 1 .. n : i # n + 1
    BY <1>1, <1>5
  <2>2. stream[n + 1] \in Rows \ Pulled(stream, n)
    BY <1>1, <1>3, <2>1 DEF Pulled
  <2>3. \A i : i \in 1 .. n + 1 <=> i \in 1 .. n \/ i = n + 1
    BY <1>1
  <2> QED
    BY <2>2, <2>3 DEF Pulled
<1> QED
  BY <1>2, <1>4, <1>5
-----------------------------------------------------------------------------
\* The tables a join may build.
Keys == {row.key : row \in Rows}

Tables == UNION {[K -> Seq(Rows)] : K \in SUBSET Keys}

\* The rows of S with a key, and those of a partition.
Keyed(S, key) == {r \in S : r.key = key}

InPartition(S, p) == {r \in S : hash_partition(r.key) = p}

\* The table holds the rows of S: one bucket for each key, with all its rows.
TableHolds(table, S) ==
    /\ table \in Tables /\ S \subseteq Rows
    /\ DOMAIN table = {r.key : r \in S}
    /\ \A key \in DOMAIN table : Lists(table[key], Keyed(S, key))

\* The bucket of any key lists the rows with that key.
LEMMA BucketLists ==
    ASSUME NEW table, NEW S, TableHolds(table, S), NEW key
    PROVE  Lists(Bucket(table, key), Keyed(S, key))
<1>1. CASE key \in DOMAIN table
  BY <1>1 DEF TableHolds, Bucket
<1>2. CASE key \notin DOMAIN table
  <2>1. Keyed(S, key) = {} /\ Bucket(table, key) = <<>>
    BY <1>2 DEF TableHolds, Keyed, Bucket
  <2>2. Lists(<<>>, {})
    BY DEF Lists, ToSet, IsInjective
  <2> QED
    BY <2>1, <2>2
<1> QED
  BY <1>1, <1>2

\* The empty table holds no row.
LEMMA EmptyTableHolds == TableHolds(EmptyTable, {})
<1>1. DOMAIN EmptyTable = {} /\ EmptyTable = [k \in {} |-> <<>>]
  BY DEF EmptyTable
<1>2. EmptyTable \in [{} -> Seq(Rows)] /\ {} \in SUBSET Keys
  BY <1>1
<1> QED
  BY <1>1, <1>2 DEF TableHolds, Tables

\* Inserting a row keeps a table a table.
LEMMA InsertTyped ==
    ASSUME NEW table \in Tables, NEW row \in Rows
    PROVE  /\ TableInsert(table, row) \in Tables
           /\ DOMAIN TableInsert(table, row) = DOMAIN table \cup {row.key}
           /\ TableInsert(table, row)[row.key] = Append(Bucket(table, row.key), row)
           /\ \A key \in DOMAIN table : key # row.key =>
                  TableInsert(table, row)[key] = table[key]
<1> DEFINE t == TableInsert(table, row)
           K == DOMAIN table \cup {row.key}
<1>1. PICK D \in SUBSET Keys : table \in [D -> Seq(Rows)]
  BY DEF Tables
<1>2. DOMAIN table = D /\ K \in SUBSET Keys
  BY <1>1 DEF Keys
<1>3. Append(Bucket(table, row.key), row) \in Seq(Rows)
  <2>1. Bucket(table, row.key) \in Seq(Rows)
    BY <1>1, <1>2 DEF Bucket
  <2> QED
    BY <2>1, RowAppended
<1>4. /\ DOMAIN t = K /\ t[row.key] = Append(Bucket(table, row.key), row)
      /\ \A key \in K : key # row.key => t[key] = table[key]
      /\ t = [key \in K |-> t[key]]
  BY DEF TableInsert
<1> HIDE DEF t
<1>5. t \in [K -> Seq(Rows)]
  BY <1>1, <1>2, <1>3, <1>4
<1>6. t \in Tables
  BY <1>2, <1>5 DEF Tables
<1> QED
  BY <1>4, <1>6 DEF t

\* A row more in the table.
LEMMA InsertHolds ==
    ASSUME NEW table, NEW S, TableHolds(table, S), NEW row \in Rows, row \notin S
    PROVE  TableHolds(TableInsert(table, row), S \cup {row})
<1> DEFINE t == TableInsert(table, row)
           T == S \cup {row}
<1>1. table \in Tables /\ S \subseteq Rows /\ DOMAIN table = {r.key : r \in S}
  BY DEF TableHolds
<1>2. /\ t \in Tables /\ DOMAIN t = DOMAIN table \cup {row.key}
      /\ t[row.key] = Append(Bucket(table, row.key), row)
      /\ \A key \in DOMAIN table : key # row.key => t[key] = table[key]
  BY <1>1, InsertTyped
<1> HIDE DEF t
<1>3. T \subseteq Rows /\ DOMAIN t = {r.key : r \in T}
  BY <1>1, <1>2
<1>4. ASSUME NEW key \in DOMAIN t PROVE Lists(t[key], Keyed(T, key))
  <2>1. CASE key = row.key
    <3>1. Lists(Bucket(table, key), Keyed(S, key)) /\ row \notin Keyed(S, key)
      BY BucketLists DEF Keyed
    <3>2. Keyed(T, key) = Keyed(S, key) \cup {row}
      BY <2>1 DEF Keyed
    <3>3. Lists(Append(Bucket(table, key), row), Keyed(S, key) \cup {row})
      BY <3>1, ListsAppend
    <3>4. t[key] = Append(Bucket(table, key), row)
      BY <1>2, <2>1
    <3> QED
      BY <3>2, <3>3, <3>4, Zenon
  <2>2. CASE key # row.key
    <3>1. Keyed(T, key) = Keyed(S, key)
      BY <2>2 DEF Keyed
    <3>2. key \in DOMAIN table /\ t[key] = table[key]
      BY <1>2, <2>2
    <3>3. Lists(table[key], Keyed(S, key))
      BY <3>2 DEF TableHolds
    <3> QED
      BY <3>1, <3>2, <3>3, Zenon
  <2> QED
    BY <2>1, <2>2
<1> QED
  BY <1>2, <1>3, <1>4 DEF TableHolds, t

\* The table without one of its entries.
LEMMA DrainHolds ==
    ASSUME NEW table, NEW S, TableHolds(table, S), NEW key \in DOMAIN table
    PROVE  TableHolds([k \in DOMAIN table \ {key} |-> table[k]], S \ Keyed(S, key))
<1> DEFINE t == [k \in DOMAIN table \ {key} |-> table[k]]
           T == S \ Keyed(S, key)
<1>1. PICK D \in SUBSET Keys : table \in [D -> Seq(Rows)]
  BY DEF Tables, TableHolds
<1>2. t \in [D \ {key} -> Seq(Rows)] /\ D \ {key} \in SUBSET Keys
  BY <1>1
<1>3. t \in Tables
  BY <1>2 DEF Tables
<1>4. DOMAIN t = {r.key : r \in T} /\ T \subseteq Rows
  BY DEF TableHolds, Keyed
<1>5. ASSUME NEW k \in DOMAIN t PROVE Lists(t[k], Keyed(T, k))
  <2>1. Keyed(T, k) = Keyed(S, k)
    BY DEF Keyed
  <2> QED
    BY <2>1 DEF TableHolds
<1> QED
  BY <1>3, <1>4, <1>5 DEF TableHolds

\* The rows of a table are the rows it holds.
LEMMA TableRowsAre ==
    ASSUME NEW table, NEW S, TableHolds(table, S)
    PROVE  UNION {ToSet(table[k]) : k \in DOMAIN table} = S
<1>1. \A k \in DOMAIN table : ToSet(table[k]) = Keyed(S, k)
  BY DEF TableHolds, Lists
<1>2. DOMAIN table = {r.key : r \in S}
  BY DEF TableHolds
<1> QED
  BY <1>1, <1>2 DEF Keyed

\* TableInsert as the step of a fold.
InsertStep == [x \in Tables \X Rows |-> TableInsert(x[1], x[2])]

\* The fold of TableInsert takes the rows from the first to the last.
LEMMA TableIsFold ==
    ASSUME NEW rows \in Seq(Rows)
    PROVE  /\ FoldTypes(Tables, Rows, InsertStep, EmptyTable, rows)
           /\ FoldLeft(TableInsert, EmptyTable, rows) = Fold(InsertStep, EmptyTable, rows)
<1> DEFINE Body(g) == [t \in SUBSET (DOMAIN rows) |->
                          IF t = {} THEN EmptyTable
                          ELSE TableInsert(g[t \ {Max(t)}], rows[Max(t)])]
           ot == CHOOSE g : g = Body(g)
<1>1. FoldLeft(TableInsert, EmptyTable, rows) = ot[DOMAIN rows]
  BY Zenon DEF FoldLeft, MapThenFoldSet
<1>i. \A x \in Tables \X Rows :
          /\ x[1] \in Tables /\ x[2] \in Rows
          /\ InsertStep[x] = TableInsert(x[1], x[2]) /\ TableInsert(x[1], x[2]) \in Tables
  BY InsertTyped DEF InsertStep
<1>2. FoldTypes(Tables, Rows, InsertStep, EmptyTable, rows)
  <2>1. EmptyTable \in Tables
    BY EmptyTableHolds DEF TableHolds
  <2>2. InsertStep \in [Tables \X Rows -> Tables]
    BY <1>i DEF InsertStep
  <2> QED
    BY <2>1, <2>2 DEF FoldTypes
<1>3. PICK it \in [SUBSET (DOMAIN rows) -> Tables] :
          IsIteration(it, InsertStep, EmptyTable, rows)
  BY <1>2, IterationExists, Zenon
<1>4. \A t \in SUBSET (DOMAIN rows) : t # {} => Max(t) \in t /\ rows[Max(t)] \in Rows
  <2>1. DOMAIN rows = 1 .. Len(rows) /\ Len(rows) \in Nat
    BY LenProperties
  <2> QED
    BY <2>1, MaxOfPositions, ElementOfSeq
<1>s. \A v \in Tables, e \in Rows : InsertStep[<<v, e>>] = TableInsert(v, e)
  BY DEF InsertStep
<1>5. it = Body(it)
  <2>1. ASSUME NEW t \in SUBSET (DOMAIN rows)
        PROVE  it[t] = IF t = {} THEN EmptyTable
                       ELSE TableInsert(it[t \ {Max(t)}], rows[Max(t)])
    <3>1. CASE t = {}
      BY <1>3, <3>1 DEF IsIteration
    <3>2. CASE t # {}
      <4>1. it[t] = InsertStep[<<it[t \ {Max(t)}], rows[Max(t)]>>]
        BY <1>3, <3>2 DEF IsIteration
      <4>2. it[t \ {Max(t)}] \in Tables /\ rows[Max(t)] \in Rows
        BY <1>3, <1>4, <3>2
      <4> QED
        BY <1>s, <3>2, <4>1, <4>2
    <3> QED
      BY <3>1, <3>2
  <2> QED
    BY <1>3, <2>1
<1>6. ot = Body(ot)
  BY <1>5, Zenon
<1> HIDE DEF ot
<1>7. ot[{}] = EmptyTable
  BY <1>6
<1>8. ASSUME NEW k \in 1 .. Len(rows), ot[1 .. k - 1] \in Tables
      PROVE  ot[1 .. k] = InsertStep[<<ot[1 .. k - 1], rows[k]>>]
  <2>1. /\ 1 .. k \in SUBSET (DOMAIN rows) /\ rows[k] \in Rows
        /\ k \in Nat \ {0} /\ 1 .. k # {}
    BY LenProperties
  <2>2. Max(1 .. k) = k /\ (1 .. k) \ {k} = 1 .. k - 1
    BY <2>1, MaxOfInterval
  <2>3. ot[1 .. k] = TableInsert(ot[1 .. k - 1], rows[k])
    BY <1>6, <2>1, <2>2
  <2> QED
    BY <1>8, <1>s, <2>1, <2>3
<1>9. IteratesPrefixes(ot, Tables, Rows, InsertStep, EmptyTable, rows)
  BY <1>2, <1>7, <1>8 DEF IteratesPrefixes
<1>10. ot[DOMAIN rows] = Fold(InsertStep, EmptyTable, rows)
  BY <1>9, IterationIsFold
<1> QED
  BY <1>1, <1>2, <1>10, Zenon

\* The table built from a list holds what is listed.
LEMMA TableOfRows ==
    ASSUME NEW rows, NEW S, Lists(rows, S)
    PROVE  TableHolds(FoldLeft(TableInsert, EmptyTable, rows), S)
<1>1. rows \in Seq(Rows) /\ ToSet(rows) = S /\ IsInjective(rows)
  BY DEF Lists
<1>2. PICK n \in Nat : n = Len(rows) /\ DOMAIN rows = 1 .. n
  BY <1>1, LenProperties
<1>3. /\ FoldTypes(Tables, Rows, InsertStep, EmptyTable, rows)
      /\ FoldLeft(TableInsert, EmptyTable, rows) = Fold(InsertStep, EmptyTable, rows)
  BY <1>1, TableIsFold
<1> DEFINE Q == [k \in 0 .. n |-> {v \in Tables : TableHolds(v, Pulled(rows, k))}]
<1>4. EmptyTable \in Q[0]
  <2>1. Pulled(rows, 0) = {} /\ EmptyTable \in Tables
    BY EmptyTableHolds DEF Pulled, TableHolds
  <2> QED
    BY <2>1, EmptyTableHolds
<1>5. ASSUME NEW k \in 1 .. n, NEW v \in Tables, v \in Q[k - 1]
      PROVE  InsertStep[<<v, rows[k]>>] \in Q[k]
  <2>1. k - 1 \in 0 .. n /\ k \in 0 .. n /\ TableHolds(v, Pulled(rows, k - 1))
    BY <1>5
  <2>2. rows[k] \in Rows /\ rows[k] \notin Pulled(rows, k - 1)
    <3>1. \A i \in 1 .. k - 1 : i \in 1 .. n /\ i # k
      OBVIOUS
    <3> QED
      BY <1>1, <1>2, <3>1, ElementOfSeq DEF Pulled, IsInjective
  <2>3. Pulled(rows, k) = Pulled(rows, k - 1) \cup {rows[k]}
    <3>1. \A i : i \in 1 .. k <=> i \in 1 .. k - 1 \/ i = k
      OBVIOUS
    <3> QED
      BY <3>1 DEF Pulled
  <2>4. InsertStep[<<v, rows[k]>>] = TableInsert(v, rows[k]) /\ TableInsert(v, rows[k]) \in Tables
    BY <2>2, InsertTyped DEF InsertStep
  <2>5. TableHolds(TableInsert(v, rows[k]), Pulled(rows, k))
    BY <2>1, <2>2, <2>3, InsertHolds
  <2> QED
    BY <2>1, <2>4, <2>5
<1> HIDE DEF Q
<1>6. Fold(InsertStep, EmptyTable, rows) \in Q[n]
  BY <1>2, <1>3, <1>4, <1>5, FoldInvariant
<1>7. Pulled(rows, n) = S
  BY <1>1, <1>2 DEF Pulled, ToSet
<1> QED
  BY <1>3, <1>6, <1>7 DEF Q
-----------------------------------------------------------------------------
\* The batches in which n blocks are read, at most b at a time: where the j-th
\* one starts and what it has, and that each follows the one before.
BatchStart(n, b, j) == (j - 1) * b

BatchCount(n, b, j) == Min({b, n - (j - 1) * b})

BatchesFollow(n, b, k) ==
    /\ k \in Nat /\ (k = 0 => n = 0) /\ BatchStart(n, b, 1) = 0
    /\ \A j \in 1 .. k : /\ BatchStart(n, b, j) \in Nat /\ BatchCount(n, b, j) \in Nat \ {0}
                         /\ BatchStart(n, b, j) + BatchCount(n, b, j)
                                = IF j = k THEN n ELSE BatchStart(n, b, j + 1)

\* Together they are the n blocks.
LEMMA Batches ==
    ASSUME NEW n \in Nat, NEW b \in Nat \ {0}, NEW k, k = (n + b - 1) \div b
    PROVE  BatchesFollow(n, b, k)
<1>1. k \in Nat /\ k * b <= n + b - 1 /\ n + b - 1 < k * b + b
  <2>1. PICK x \in Nat : x = n + b - 1
    OBVIOUS
  <2>2. PICK y \in Nat : y = x % b
    BY <2>1
  <2>3. x \div b \in Nat /\ x = b * (x \div b) + y /\ y < b
    BY <2>2
  <2>4. k = x \div b /\ k \in Nat
    BY <2>1, <2>3
  <2>5. b * k = k * b
    BY <2>4
  <2> QED
    BY <2>1, <2>2, <2>3, <2>4, <2>5
<1>2. k = 0 => n = 0
  BY <1>1
<1>3. ASSUME NEW j \in 1 .. k
      PROVE  /\ (j - 1) * b \in Nat /\ (j - 1) * b < n
             /\ j # k => (j - 1) * b + b < n
             /\ j = k => (j - 1) * b + b >= n
  <2>1. j \in Nat /\ j - 1 \in Nat /\ (j - 1) * b \in Nat /\ (j - 1) * b + b = j * b
    BY <1>1
  <2>2. j * b <= k * b
    <3>1. PICK i \in Nat : k = j + i
      <4>1. k - j \in Nat /\ k = j + (k - j)
        BY <1>1, <2>1
      <4> QED
        BY <4>1
    <3>2. k * b = j * b + i * b /\ i * b \in Nat /\ j * b \in Nat
      BY <2>1, <3>1
    <3> QED
      BY <3>2
  <2>3. j # k => j * b + b <= k * b
    <3> SUFFICES ASSUME j # k PROVE j * b + b <= k * b
      OBVIOUS
    <3>1. PICK i \in Nat : k = j + 1 + i
      <4>1. k - j - 1 \in Nat /\ k = j + 1 + (k - j - 1)
        BY <1>1, <2>1
      <4> QED
        BY <4>1
    <3>2. k * b = j * b + b + i * b /\ i * b \in Nat /\ j * b \in Nat
      BY <2>1, <3>1
    <3> QED
      BY <3>2
  <2>4. k * b \in Nat /\ j * b \in Nat
    BY <1>1, <2>1
  <2> QED
    BY <1>1, <2>1, <2>2, <2>3, <2>4
<1>4. ASSUME NEW j \in 1 .. k
      PROVE  /\ BatchStart(n, b, j) \in Nat /\ BatchCount(n, b, j) \in Nat \ {0}
             /\ BatchStart(n, b, j) + BatchCount(n, b, j)
                    = IF j = k THEN n ELSE BatchStart(n, b, j + 1)
  <2>1. PICK s \in Nat : s = (j - 1) * b /\ s < n
    BY <1>3
  <2>2. PICK r \in Nat \ {0} : r = n - s
    BY <2>1
  <2>3. BatchCount(n, b, j) = IF b <= r THEN b ELSE r
    <3>1. Min({b, r}) = IF b <= r THEN b ELSE r
      BY MinOfTwo
    <3> QED
      BY <2>1, <2>2, <3>1 DEF BatchCount
  <2>4. j # k => s + b < n
    BY <1>3, <2>1
  <2>5. j = k => s + b >= n
    BY <1>3, <2>1
  <2>6. BatchStart(n, b, j + 1) = s + b
    <3>1. (j + 1) - 1 = j /\ j \in Nat /\ j * b = (j - 1) * b + b
      BY <1>1
    <3> QED
      BY <2>1, <3>1 DEF BatchStart
  <2> QED
    BY <2>1, <2>2, <2>3, <2>4, <2>5, <2>6 DEF BatchStart
<1>5. BatchStart(n, b, 1) = 0
  BY DEF BatchStart
<1> QED
  BY <1>1, <1>2, <1>4, <1>5 DEF BatchesFollow

\* The requests that the blocks of a disk answer, and what they answer.
Requested(d) == {r \in [start : Nat, count : Nat \ {0}] : Stored(Rows, d, r.start, r.count)}

Replies(d, requests) ==
    [i \in DOMAIN requests |-> RunRows(d, requests[i].start, requests[i].count)]

ReadRows(d, requests) == FlattenSeq(Replies(d, requests))

\* Segments that are on a disk, and the rows of some of them.
Segments(d) == {run \in Run : RunOnDisk(Rows, d, run)}

SideRows(d, segs) == ReadRows(d, Requests(segs))

\* Every request is answered with rows.
LEMMA RepliesFacts ==
    ASSUME RowsSized(Rows), NEW d, NEW requests \in Seq(Requested(d))
    PROVE  /\ Replies(d, requests) \in Seq(Seq(Rows))
           /\ Len(Replies(d, requests)) = Len(requests)
           /\ DOMAIN Replies(d, requests) = DOMAIN requests
           /\ \A i \in DOMAIN requests : Replies(d, requests)[i] # <<>>
           /\ ReadRows(d, requests) \in Seq(Rows)
<1>1. PICK n \in Nat : n = Len(requests) /\ DOMAIN requests = 1 .. n
  BY LenProperties
<1>2. \A i \in 1 .. n : requests[i] \in Requested(d)
  BY <1>1, ElementOfSeq
<1>3. ASSUME NEW i \in 1 .. n
      PROVE  /\ RunRows(d, requests[i].start, requests[i].count) \in Seq(Rows)
             /\ RunRows(d, requests[i].start, requests[i].count) # <<>>
  <2>1. PICK at \in Nat, c \in Nat \ {0} : /\ at = requests[i].start /\ c = requests[i].count
                                           /\ Stored(Rows, d, at, c)
    BY <1>2 DEF Requested
  <2>2. YieldsRows(Rows, d, at, c)
    BY <2>1, StoredYields
  <2> QED
    BY <2>1, <2>2 DEF YieldsRows
<1> DEFINE t == Replies(d, requests)
<1>4. t = [i \in 1 .. n |-> RunRows(d, requests[i].start, requests[i].count)]
  BY <1>1 DEF Replies
<1>5. t \in [1 .. n -> Seq(Rows)]
  BY <1>3, <1>4
<1>6. \A i \in 1 .. n : t[i] # <<>>
  BY <1>3, <1>4
<1> HIDE DEF t
<1>7. t \in Seq(Seq(Rows)) /\ Len(t) = n /\ DOMAIN t = 1 .. n
  BY <1>5
<1>8. FlattenSeq(t) \in Seq(Rows)
  <2>1. \A u \in Seq(Seq(Rows)), v \in Seq(Rows) : FlattenSeq(u) \in Seq(Rows)
    BY FlattenAppend
  <2>2. <<>> \in Seq(Rows)
    OBVIOUS
  <2> QED
    BY <1>7, <2>1, <2>2, Zenon
<1> QED
  BY <1>1, <1>6, <1>7, <1>8 DEF ReadRows, t

\* Requests after other requests.
LEMMA RepliesConcat ==
    ASSUME RowsSized(Rows), NEW d, NEW s \in Seq(Requested(d)), NEW t \in Seq(Requested(d))
    PROVE  ReadRows(d, s \o t) = ReadRows(d, s) \o ReadRows(d, t)
<1>1. PICK m \in Nat, n \in Nat : m = Len(s) /\ n = Len(t)
  BY LenProperties
<1> DEFINE u == s \o t
<1>2. /\ DOMAIN s = 1 .. m /\ DOMAIN t = 1 .. n /\ DOMAIN u = 1 .. m + n
      /\ \A i \in 1 .. m + n : u[i] = IF i <= m THEN s[i] ELSE t[i - m]
  BY <1>1, ConcatProperties, LenProperties
<1> HIDE DEF u
<1> DEFINE A == Replies(d, s)
           B == Replies(d, t)
<1>3. A \in Seq(Seq(Rows)) /\ B \in Seq(Seq(Rows)) /\ Len(A) = m /\ Len(B) = n
  BY <1>1, RepliesFacts
<1>4. /\ \A i \in 1 .. m : A[i] = RunRows(d, s[i].start, s[i].count)
      /\ \A i \in 1 .. n : B[i] = RunRows(d, t[i].start, t[i].count)
  BY <1>2 DEF Replies
<1> HIDE DEF A, B
<1>5. /\ DOMAIN (A \o B) = 1 .. m + n /\ (A \o B) = [i \in 1 .. m + n |-> (A \o B)[i]]
      /\ \A i \in 1 .. m + n : (A \o B)[i] = IF i <= m THEN A[i] ELSE B[i - m]
  <2>1. /\ A \o B \in Seq(Seq(Rows)) /\ Len(A \o B) = m + n
        /\ \A i \in 1 .. m + n : (A \o B)[i] = IF i <= m THEN A[i] ELSE B[i - m]
    BY <1>3, ConcatProperties
  <2> QED
    BY <2>1, LenProperties
<1>6. ASSUME NEW i \in 1 .. m + n
      PROVE  RunRows(d, u[i].start, u[i].count) = IF i <= m THEN A[i] ELSE B[i - m]
  <2>1. CASE i <= m
    <3>1. i \in 1 .. m /\ u[i] = s[i]
      BY <1>2, <2>1
    <3> QED
      BY <1>4, <2>1, <3>1
  <2>2. CASE ~(i <= m)
    <3>1. i - m \in 1 .. n /\ u[i] = t[i - m]
      BY <1>2, <2>2
    <3> QED
      BY <1>4, <2>2, <3>1
  <2> QED
    BY <2>1, <2>2
<1>7. Replies(d, u) = A \o B
  BY <1>2, <1>5, <1>6 DEF Replies
<1>8. FlattenSeq(A \o B) = FlattenSeq(A) \o FlattenSeq(B)
  BY <1>3, FlattenConcat
<1> QED
  BY <1>7, <1>8 DEF ReadRows, A, B, u

\* A segment is read in batches of READ_BATCH blocks, all of it and in order.
LEMMA SegmentRead ==
    ASSUME RowsSized(Rows), NEW d, NEW segment \in Segments(d)
    PROVE  /\ SegmentRequests(segment) \in Seq(Requested(d))
           /\ ReadRows(d, SegmentRequests(segment))
                  = RunRows(d, segment.start_block, segment.num_blocks)
<1>1. PICK at \in Nat, n \in Nat : /\ at = segment.start_block /\ n = segment.num_blocks
                                   /\ Stored(Rows, d, at, n)
  BY DEF Segments, RunOnDisk, Run
<1>2. PICK b \in Nat \ {0} : b = READ_BATCH
  BY RowFacts
<1>3. PICK k : k = (n + b - 1) \div b
  OBVIOUS
<1> DEFINE start(j) == BatchStart(n, b, j)
           count(j) == BatchCount(n, b, j)
<1>4. /\ k \in Nat /\ (k = 0 => n = 0) /\ start(1) = 0
      /\ \A j \in 1 .. k : /\ start(j) \in Nat /\ count(j) \in Nat \ {0}
                           /\ start(j) + count(j) = IF j = k THEN n ELSE start(j + 1)
  <2>1. BatchesFollow(n, b, k)
    BY <1>3, Batches, Zenon
  <2> QED
    BY <2>1 DEF BatchesFollow
<1> DEFINE s == SegmentRequests(segment)
<1>5. s = [j \in 1 .. k |-> [start |-> at + start(j), count |-> count(j)]]
  BY <1>1, <1>2, <1>3, Zenon DEF SegmentRequests, BatchStart, BatchCount
<1> HIDE DEF start, count, s
<1> DEFINE upto(j) == IF j = k THEN n ELSE start(j + 1)
<1>6. \A j \in 0 .. k : upto(j) \in Nat /\ upto(j) <= n
  <2> DEFINE T == {i \in Nat : i <= k => upto(k - i) \in Nat /\ upto(k - i) <= n}
  <2>1. 0 \in T
    BY <1>4
  <2>2. ASSUME NEW i \in Nat, i \in T PROVE i + 1 \in T
    <3> SUFFICES ASSUME i + 1 <= k
                 PROVE  upto(k - (i + 1)) \in Nat /\ upto(k - (i + 1)) <= n
      OBVIOUS
    <3>1. PICK j \in 1 .. k : j = k - i /\ k - (i + 1) = j - 1 /\ j - 1 # k
      BY <1>4
    <3>2. upto(j) \in Nat /\ upto(j) <= n
      BY <1>4, <2>2, <3>1
    <3>3. (j - 1) + 1 = j
      OBVIOUS
    <3>4. upto(j - 1) = start(j)
      BY <3>1, <3>3
    <3>5. start(j) + count(j) = upto(j)
      BY <1>4
    <3> QED
      BY <1>4, <3>1, <3>2, <3>4, <3>5
  <2> HIDE DEF T
  <2>3. \A i \in Nat : i \in T
    BY <2>1, <2>2, SetInduction
  <2>4. ASSUME NEW j \in 0 .. k PROVE upto(j) \in Nat /\ upto(j) <= n
    <3>1. k - j \in Nat /\ k - j <= k /\ k - (k - j) = j
      BY <1>4
    <3> QED
      BY <2>3, <3>1 DEF T
  <2> QED
    BY <2>4
<1>7. ASSUME NEW j \in 1 .. k
      PROVE  /\ start(j) = upto(j - 1) /\ start(j) + count(j) = upto(j)
             /\ Splits(Rows, d, at, start(j), count(j))
  <2>1. j - 1 \in 0 .. k /\ j - 1 # k /\ (j - 1) + 1 = j /\ j \in 0 .. k
    BY <1>4
  <2>2. start(j) = upto(j - 1) /\ start(j) + count(j) = upto(j)
    BY <1>4, <2>1
  <2>3. PICK x \in Nat, y \in Nat : x = start(j) /\ y = count(j) /\ x + y = upto(j)
    BY <1>4, <2>2
  <2>4. x + y \in Nat /\ x + y <= n
    BY <1>6, <2>1, <2>3
  <2>5. PICK z \in Nat : n = (x + y) + z
    <3>1. n - (x + y) \in Nat /\ n = (x + y) + (n - (x + y))
      BY <2>4
    <3> QED
      BY <3>1
  <2>6. Stored(Rows, d, at, x + y)
    <3>1. PICK w \in Nat : w = x + y
      OBVIOUS
    <3>2. Stored(Rows, d, at, w + z)
      BY <1>1, <2>5, <3>1
    <3>3. Splits(Rows, d, at, w, z)
      BY <3>2, SplitRun
    <3> QED
      BY <3>1, <3>3 DEF Splits
  <2>7. Splits(Rows, d, at, x, y)
    BY <2>6, SplitRun
  <2> QED
    BY <2>2, <2>3, <2>7
<1>8. s \in Seq(Requested(d)) /\ Len(s) = k /\ DOMAIN s = 1 .. k
  <2>1. ASSUME NEW j \in 1 .. k
        PROVE  [start |-> at + start(j), count |-> count(j)] \in Requested(d)
    <3>1. PICK x \in Nat, y \in Nat \ {0} : x = start(j) /\ y = count(j)
      BY <1>4
    <3>2. Stored(Rows, d, at + x, y) /\ at + x \in Nat
      BY <1>7, <3>1 DEF Splits
    <3> QED
      BY <3>1, <3>2 DEF Requested
  <2>2. s \in [1 .. k -> Requested(d)]
    BY <1>5, <2>1
  <2> QED
    BY <1>4, <2>2
<1> DEFINE replies == Replies(d, s)
<1>9. replies \in Seq(Seq(Rows)) /\ Len(replies) = k
  BY <1>8, RepliesFacts
<1>10. \A j \in 1 .. k : replies[j] = RunRows(d, at + start(j), count(j))
  BY <1>5, <1>8 DEF Replies
<1> HIDE DEF replies
<1> DEFINE T == {j \in Nat : j <= k =>
                    FlattenSeq(SubSeq(replies, 1, j)) = RunRows(d, at, upto(j))}
<1>11. 0 \in T
  <2>1. SubSeq(replies, 1, 0) = <<>>
    BY <1>9
  <2>2. FlattenSeq(<<>>) = <<>>
    BY <1>9, FlattenAppend
  <2>3. upto(0) = 0
    <3>1. 0 + 1 = 1
      OBVIOUS
    <3> QED
      BY <1>4, <3>1
  <2>4. Stored(Rows, d, at, 0)
    BY <1>1 DEF Stored
  <2>5. RunRows(d, at, 0) = <<>>
    BY <2>4, StoredYields DEF YieldsRows
  <2> QED
    BY <2>1, <2>2, <2>3, <2>5
<1>12. ASSUME NEW i \in Nat, i \in T PROVE i + 1 \in T
  <2> SUFFICES ASSUME i + 1 <= k
               PROVE  FlattenSeq(SubSeq(replies, 1, i + 1)) = RunRows(d, at, upto(i + 1))
    OBVIOUS
  <2>1. PICK j \in 1 .. k : j = i + 1 /\ j - 1 = i /\ i <= k
    BY <1>4
  <2>2. /\ SubSeq(replies, 1, j) = Append(SubSeq(replies, 1, i), replies[j])
        /\ SubSeq(replies, 1, i) \in Seq(Seq(Rows)) /\ replies[j] \in Seq(Rows)
    BY <1>9, <2>1
  <2>3. FlattenSeq(SubSeq(replies, 1, j))
            = FlattenSeq(SubSeq(replies, 1, i)) \o replies[j]
    BY <2>2, FlattenAppend
  <2>4. FlattenSeq(SubSeq(replies, 1, i)) = RunRows(d, at, start(j))
    BY <1>7, <1>12, <2>1
  <2>5. RunRows(d, at, start(j) + count(j))
            = RunRows(d, at, start(j)) \o RunRows(d, at + start(j), count(j))
    BY <1>7 DEF Splits
  <2>6. start(j) + count(j) = upto(j)
    BY <1>7
  <2> HIDE DEF upto
  <2> QED
    BY <1>10, <2>1, <2>3, <2>4, <2>5, <2>6, Zenon
<1> HIDE DEF T
<1>13. k \in T
  BY <1>4, <1>11, <1>12, SetInduction
<1>14. FlattenSeq(SubSeq(replies, 1, k)) = RunRows(d, at, n)
  BY <1>4, <1>13 DEF T
<1>15. SubSeq(replies, 1, k) = replies
  BY <1>9
<1> QED
  BY <1>1, <1>8, <1>14, <1>15 DEF ReadRows, replies, s

\* The requests for segments on the disk can be answered, and a segment more
\* adds its rows after the others.
LEMMA SegmentsRead ==
    ASSUME RowsSized(Rows), NEW d, NEW segs \in Seq(Segments(d))
    PROVE  /\ Requests(segs) \in Seq(Requested(d)) /\ SideRows(d, segs) \in Seq(Rows)
           /\ SideRows(d, <<>>) = <<>>
           /\ \A segment \in Segments(d) :
                  SideRows(d, Append(segs, segment))
                      = SideRows(d, segs)
                            \o RunRows(d, segment.start_block, segment.num_blocks)
<1> DEFINE Asks(t) == [i \in DOMAIN t |-> SegmentRequests(t[i])]
           Q == Requested(d)
<1>1. PICK n \in Nat : n = Len(segs) /\ DOMAIN segs = 1 .. n
  BY LenProperties
<1>2. \A segment \in Segments(d) : SegmentRequests(segment) \in Seq(Q)
  BY SegmentRead
<1>3. \A i \in 1 .. n : segs[i] \in Segments(d)
  BY <1>1, ElementOfSeq
<1>4. Asks(segs) \in Seq(Seq(Q)) /\ Len(Asks(segs)) = n
  <2>1. Asks(segs) \in [1 .. n -> Seq(Q)]
    BY <1>1, <1>2, <1>3
  <2> HIDE DEF Asks, Q
  <2> QED
    BY <2>1
<1>5. \A u \in Seq(Seq(Q)), v \in Seq(Q) :
          /\ FlattenSeq(u) \in Seq(Q) /\ FlattenSeq(<<>>) = <<>>
          /\ FlattenSeq(Append(u, v)) = FlattenSeq(u) \o v
  BY FlattenAppend
<1>6. <<>> \in Seq(Q) /\ <<>> \in Seq(Rows)
  OBVIOUS
<1>7. Requests(segs) = FlattenSeq(Asks(segs)) /\ Requests(segs) \in Seq(Q)
  <2> HIDE DEF Q
  <2>1. Requests(segs) = FlattenSeq(Asks(segs))
    BY DEF Requests
  <2> HIDE DEF Asks
  <2> QED
    BY <1>4, <1>5, <1>6, <2>1
<1>8. SideRows(d, segs) \in Seq(Rows)
  BY <1>7, RepliesFacts DEF SideRows
<1>9. SideRows(d, <<>>) = <<>>
  <2>1. Requests(<<>>) = FlattenSeq(<<>>)
    <3>1. [i \in DOMAIN <<>> |-> SegmentRequests(<<>>[i])] = <<>>
      OBVIOUS
    <3> QED
      BY <3>1, Zenon DEF Requests
  <2>2. Requests(<<>>) = <<>>
    BY <1>4, <1>5, <1>6, <2>1, Zenon
  <2>3. Replies(d, <<>>) = <<>>
    BY DEF Replies
  <2>4. FlattenSeq(<<>>) = <<>>
    BY <1>4, <1>5, <1>6, Zenon
  <2> QED
    BY <2>2, <2>3, <2>4, Zenon DEF SideRows, ReadRows
<1>10. ASSUME NEW segment \in Segments(d)
       PROVE  SideRows(d, Append(segs, segment))
                  = SideRows(d, segs)
                        \o RunRows(d, segment.start_block, segment.num_blocks)
  <2> DEFINE t == Append(segs, segment)
  <2>1. /\ DOMAIN t = 1 .. n + 1 /\ t[n + 1] = segment
        /\ \A i \in 1 .. n : t[i] = segs[i]
    BY <1>1, AppendedSeq
  <2> HIDE DEF t
  <2>2. PICK r \in Seq(Q) : r = SegmentRequests(segment)
    BY <1>2
  <2>3. Asks(t) = Append(Asks(segs), r)
    <3>1. /\ DOMAIN Append(Asks(segs), r) = 1 .. n + 1
          /\ Append(Asks(segs), r) = [i \in 1 .. n + 1 |-> Append(Asks(segs), r)[i]]
          /\ Append(Asks(segs), r)[n + 1] = r
          /\ \A i \in 1 .. n : Append(Asks(segs), r)[i] = Asks(segs)[i]
      <4> HIDE DEF Asks, Q
      <4> QED
        BY <1>4, <2>2, AppendedSeq
    <3>2. \A i \in 1 .. n : Asks(segs)[i] = SegmentRequests(segs[i])
      BY <1>1
    <3>3. Asks(t) = [i \in 1 .. n + 1 |-> SegmentRequests(t[i])]
      BY <2>1
    <3>4. \A i \in 1 .. n + 1 : i \in 1 .. n \/ i = n + 1
      OBVIOUS
    <3>5. \A i \in 1 .. n + 1 : SegmentRequests(t[i]) = Append(Asks(segs), r)[i]
      <4> HIDE DEF Asks, Q
      <4> QED
        BY <2>1, <2>2, <3>1, <3>2, <3>4
    <3> HIDE DEF Asks, Q
    <3> QED
      BY <3>1, <3>3, <3>5
  <2>4. Requests(t) = Requests(segs) \o r
    <3>1. Requests(t) = FlattenSeq(Asks(t))
      BY DEF Requests
    <3> HIDE DEF Asks, Q
    <3> QED
      BY <1>4, <1>5, <1>7, <2>2, <2>3, <3>1, Zenon
  <2>5. ReadRows(d, Requests(segs) \o r) = ReadRows(d, Requests(segs)) \o ReadRows(d, r)
    BY <1>7, <2>2, RepliesConcat
  <2>6. ReadRows(d, r) = RunRows(d, segment.start_block, segment.num_blocks)
    BY <2>2, SegmentRead
  <2> QED
    BY <2>4, <2>5, <2>6, Zenon DEF SideRows, t
<1> QED
  BY <1>7, <1>8, <1>9, <1>10 DEF Q

\* A disk on which nothing has been overwritten.
Later(d, e) == \A b \in DOMAIN d.pages : b \in DOMAIN e.pages /\ e.pages[b] = d.pages[b]

\* What was on the disk is read from it as before.
LEMMA StoredLater ==
    ASSUME NEW d, NEW e, Later(d, e), NEW at \in Nat, NEW n \in Nat, Stored(Rows, d, at, n)
    PROVE  Stored(Rows, e, at, n) /\ RunRows(e, at, n) = RunRows(d, at, n)
<1>1. Stored(Rows, e, at, n)
  BY DEF Stored, Later
<1>2. \A i \in 1 .. n : at + i - 1 \in at .. at + n - 1
  OBVIOUS
<1>3. \A i \in 1 .. n : e.pages[at + i - 1] = d.pages[at + i - 1]
  BY <1>2 DEF Stored, Later
<1>4. read_blocks(e, at, n) = read_blocks(d, at, n)
  BY <1>3 DEF read_blocks
<1> QED
  BY <1>1, <1>4 DEF RunRows

\* The segments on it are read as before.
LEMMA SegmentsLater ==
    ASSUME RowsSized(Rows), NEW d, NEW e, Later(d, e), NEW segs \in Seq(Segments(d))
    PROVE  segs \in Seq(Segments(e)) /\ SideRows(e, segs) = SideRows(d, segs)
<1>1. Segments(d) \subseteq Segments(e)
  <2>1. ASSUME NEW run \in Segments(d) PROVE run \in Segments(e)
    <3>1. PICK at \in Nat, n \in Nat : /\ at = run.start_block /\ n = run.num_blocks
                                       /\ Stored(Rows, d, at, n) /\ run \in Run
      BY DEF Segments, RunOnDisk, Run
    <3>2. Stored(Rows, e, at, n)
      BY <3>1, StoredLater
    <3> QED
      BY <3>1, <3>2 DEF Segments, RunOnDisk
  <2> QED
    BY <2>1
<1>2. segs \in Seq(Segments(e))
  BY <1>1, SeqMonotonic
<1>3. PICK requests \in Seq(Requested(d)) : requests = Requests(segs)
  BY SegmentsRead
<1>4. ASSUME NEW i \in DOMAIN requests
      PROVE  RunRows(e, requests[i].start, requests[i].count)
                 = RunRows(d, requests[i].start, requests[i].count)
  <2>1. requests[i] \in Requested(d)
    BY ElementOfSeq, LenProperties
  <2>2. PICK at \in Nat, n \in Nat : /\ at = requests[i].start /\ n = requests[i].count
                                     /\ Stored(Rows, d, at, n)
    BY <2>1 DEF Requested
  <2> QED
    BY <2>2, StoredLater
<1>5. Replies(e, requests) = Replies(d, requests)
  BY <1>4 DEF Replies
<1> QED
  BY <1>2, <1>3, <1>5 DEF SideRows, ReadRows
-----------------------------------------------------------------------------
\* Disks on which every block is a packed one.
Disks ==
    {d \in [pages : UNION {[D -> PackedBlocks(Rows)] : D \in SUBSET Nat}, next_anon_block : Nat] :
        \A b \in DOMAIN d.pages : b < d.next_anon_block}

\* They are the sound disks of the lemmas on spills.
LEMMA DiskIsSound ==
    ASSUME NEW d
    PROVE  d \in Disks <=> SoundDisk(d, PackedBlocks(Rows))
<1>1. ASSUME d \in Disks PROVE SoundDisk(d, PackedBlocks(Rows))
  <2>1. PICK D \in SUBSET Nat : d.pages \in [D -> PackedBlocks(Rows)]
    BY <1>1 DEF Disks
  <2>2. /\ d \in [pages : {d.pages}, next_anon_block : Nat]
        /\ \A b \in DOMAIN d.pages : b < d.next_anon_block
    BY <1>1 DEF Disks
  <2>3. DOMAIN d.pages = D /\ d.pages \in [DOMAIN d.pages -> PackedBlocks(Rows)]
    BY <2>1
  <2> QED
    BY <2>2, <2>3 DEF SoundDisk
<1>2. ASSUME SoundDisk(d, PackedBlocks(Rows)) PROVE d \in Disks
  <2>1. DOMAIN d.pages \in SUBSET Nat /\ d.pages \in [DOMAIN d.pages -> PackedBlocks(Rows)]
    BY <1>2 DEF SoundDisk
  <2>2. d.pages \in UNION {[D -> PackedBlocks(Rows)] : D \in SUBSET Nat}
    BY <2>1
  <2>3. d \in [pages : {d.pages}, next_anon_block : Nat]
        /\ \A b \in DOMAIN d.pages : b < d.next_anon_block
    BY <1>2 DEF SoundDisk
  <2> QED
    BY <2>2, <2>3 DEF Disks
<1> QED
  BY <1>1, <1>2

\* Buffers whose segments are on the disk and whose bytes have been counted.
Buffers ==
    [buffers : [Partitions -> Seq(Rows)], buf_bytes : [Partitions -> Nat],
     segments : [Partitions -> Seq(Run)]]

Stores ==
    {store \in [disk : Disks, bufs : Buffers] :
        \A p \in Partitions :
            /\ store.bufs.segments[p] \in Seq(Segments(store.disk))
            /\ store.bufs.buf_bytes[p] = MemoryOf(store.bufs.buffers[p])}

\* Between two calls of push.
BoundedStores ==
    {store \in Stores : \A p \in Partitions : store.bufs.buf_bytes[p] < FLUSH_THRESHOLD}

\* The rows of a partition, on the disk and then in its buffer.
Contents(store, p) ==
    SideRows(store.disk, store.bufs.segments[p]) \o store.bufs.buffers[p]

StoreHolds(store, S) == \A p \in Partitions : Lists(Contents(store, p), InPartition(S, p))

\* One disk after another.
LEMMA LaterTwice ==
    ASSUME NEW d, NEW e, NEW f, Later(d, e), Later(e, f)
    PROVE  Later(d, f)
  BY DEF Later

\* A spill overwrites nothing.
LEMMA SpillIsLater ==
    ASSUME NEW d \in Disks, NEW blocks \in Seq(PackedBlocks(Rows))
    PROVE  Spill(d, blocks) \in Disks /\ Later(d, Spill(d, blocks))
<1>1. SoundDisk(d, PackedBlocks(Rows))
  BY DiskIsSound
<1> DEFINE e == Spill(d, blocks)
<1>2. /\ SoundDisk(e, PackedBlocks(Rows))
      /\ DOMAIN d.pages \subseteq DOMAIN e.pages
      /\ \A b \in DOMAIN d.pages : e.pages[b] = d.pages[b]
  BY <1>1, SpillExtends
<1> HIDE DEF e
<1> QED
  BY <1>2, DiskIsSound DEF Later, e

\* What flush_one makes of a store: the rows of the partition p go to the disk.
Flushes(store, p, t) ==
    /\ t \in Stores /\ Later(store.disk, t.disk)
    /\ t.bufs.buffers[p] = <<>> /\ t.bufs.buf_bytes[p] = 0
    /\ \A q \in Partitions : /\ Contents(t, q) = Contents(store, q)
                             /\ q # p => /\ t.bufs.buffers[q] = store.bufs.buffers[q]
                                         /\ t.bufs.buf_bytes[q] = store.bufs.buf_bytes[q]

\* Flushing a partition changes where its rows are, not which they are.
LEMMA FlushOne ==
    ASSUME RowsSized(Rows), NEW store \in Stores, NEW p \in Partitions
    PROVE  Flushes(store, p, flush_one(store, p))
<1> DEFINE t == flush_one(store, p)
           b == store.bufs
           rows == b.buffers[p]
           blocks == rows_to_blocks(rows)
           segment == [start_block |-> store.disk.next_anon_block, num_blocks |-> Len(blocks)]
           e == Spill(store.disk, blocks)
<1>1. /\ store \in [disk : {store.disk}, bufs : {b}] /\ store.disk \in Disks
      /\ b \in Buffers /\ b.buffers \in [Partitions -> Seq(Rows)]
      /\ b.buf_bytes \in [Partitions -> Nat] /\ b.segments \in [Partitions -> Seq(Run)]
      /\ \A q \in Partitions : /\ b.segments[q] \in Seq(Segments(store.disk))
                               /\ b.buf_bytes[q] = MemoryOf(b.buffers[q])
  BY DEF Stores, Buffers
<1>2. rows \in Seq(Rows)
  BY <1>1
<1>m. MemoryOf(<<>>) = 0
  BY RowFacts, MemoryAppend, <1>2
<1>3. CASE rows = <<>>
  <2>1. t = store
    BY <1>3 DEF flush_one
  <2>2. b.buf_bytes[p] = 0
    BY <1>1, <1>3, <1>m
  <2> QED
    BY <1>3, <2>1, <2>2 DEF Flushes, Later
<1>4. CASE rows # <<>>
  <2> HIDE DEF b
  <2>1. Packable(rows)
    <3>1. PICK r \in Seq(Rows) : r = rows
      BY <1>2
    <3>2. \A i \in DOMAIN r : r[i] \in Rows
      BY LenProperties, ElementOfSeq
    <3>3. Packable(r)
      BY <3>2, RowFacts DEF Packable
    <3> HIDE DEF rows
    <3> QED
      BY <3>1, <3>3, Zenon
  <2>2. SoundDisk(store.disk, PackedBlocks(Rows))
    BY <1>1, DiskIsSound
  <2>3. /\ blocks \in Seq(PackedBlocks(Rows)) /\ RunOnDisk(Rows, e, segment)
        /\ RunRows(e, segment.start_block, segment.num_blocks) = rows
    <3>1. PICK d : d = store.disk
      OBVIOUS
    <3>2. PICK r \in Seq(Rows) : r = rows
      BY <1>2
    <3>3. SoundDisk(d, PackedBlocks(Rows)) /\ r # <<>> /\ Packable(r)
      BY <1>4, <2>1, <2>2, <3>1, <3>2, Zenon
    <3>4. PICK bl, run : /\ bl = rows_to_blocks(r)
                         /\ run = [start_block |-> d.next_anon_block,
                                   num_blocks  |-> Len(rows_to_blocks(r))]
      OBVIOUS
    <3>5. /\ bl \in Seq(PackedBlocks(Rows)) /\ RunOnDisk(Rows, Spill(d, bl), run)
          /\ RunRows(Spill(d, bl), run.start_block, run.num_blocks) = r
      BY <3>2, <3>3, <3>4, SpillAddsRun
    <3>6. blocks = bl /\ segment = run /\ e = Spill(d, bl)
      BY <3>1, <3>2, <3>4, Zenon
    <3> HIDE DEF rows, blocks, segment, e
    <3> QED
      BY <3>2, <3>5, <3>6, Zenon
  <2>4. e \in Disks /\ Later(store.disk, e)
    BY <1>1, <2>3, SpillIsLater
  <2>5. t = [disk |-> e,
             bufs |-> [buffers   |-> [b.buffers EXCEPT ![p] = <<>>],
                       buf_bytes |-> [b.buf_bytes EXCEPT ![p] = 0],
                       segments  |-> [b.segments EXCEPT ![p] = Append(@, segment)]]]
    BY <1>4 DEF flush_one, b
  <2> HIDE DEF t, rows, blocks, segment, e
  <2>6. segment \in Segments(e)
    BY <2>3 DEF Segments, RunOnDisk
  <2>7. \A q \in Partitions : /\ b.segments[q] \in Seq(Segments(e))
                              /\ SideRows(e, b.segments[q]) = SideRows(store.disk, b.segments[q])
    BY <1>1, <2>4, SegmentsLater
  <2>8. /\ Append(b.segments[p], segment) \in Seq(Segments(e))
        /\ SideRows(e, Append(b.segments[p], segment))
               = SideRows(store.disk, b.segments[p]) \o rows
    <3>1. SideRows(e, Append(b.segments[p], segment))
              = SideRows(e, b.segments[p])
                    \o RunRows(e, segment.start_block, segment.num_blocks)
      BY <2>6, <2>7, SegmentsRead
    <3>2. Append(b.segments[p], segment) \in Seq(Segments(e))
      BY <2>6, <2>7, AppendProperties
    <3> QED
      BY <2>3, <2>7, <3>1, <3>2
  <2>9. /\ t.disk = e
        /\ t.bufs.buffers = [b.buffers EXCEPT ![p] = <<>>]
        /\ t.bufs.buf_bytes = [b.buf_bytes EXCEPT ![p] = 0]
        /\ t.bufs.segments = [b.segments EXCEPT ![p] = Append(@, segment)]
        /\ t \in [disk : {t.disk}, bufs : {t.bufs}]
        /\ t.bufs \in [buffers : {t.bufs.buffers}, buf_bytes : {t.bufs.buf_bytes},
                       segments : {t.bufs.segments}]
    BY <2>5
  <2>10. /\ t.bufs.buffers[p] = <<>> /\ t.bufs.buf_bytes[p] = 0
         /\ t.bufs.segments[p] = Append(b.segments[p], segment)
         /\ \A q \in Partitions : q # p => /\ t.bufs.buffers[q] = b.buffers[q]
                                           /\ t.bufs.buf_bytes[q] = b.buf_bytes[q]
                                           /\ t.bufs.segments[q] = b.segments[q]
    BY <1>1, <2>9
  <2>11. Append(b.segments[p], segment) \in Seq(Run)
    BY <1>1, <2>6, AppendProperties DEF Segments
  <2>12. t.bufs \in Buffers
    <3>1. t.bufs.buffers \in [Partitions -> Seq(Rows)]
      BY <1>1, <2>9, EmptySeq
    <3>2. t.bufs.buf_bytes \in [Partitions -> Nat]
      BY <1>1, <2>9
    <3>3. t.bufs.segments \in [Partitions -> Seq(Run)]
      BY <1>1, <2>9, <2>11
    <3> QED
      BY <2>9, <3>1, <3>2, <3>3 DEF Buffers
  <2>13. \A q \in Partitions : /\ t.bufs.segments[q] \in Seq(Segments(t.disk))
                               /\ t.bufs.buf_bytes[q] = MemoryOf(t.bufs.buffers[q])
    BY <1>1, <1>m, <2>7, <2>8, <2>9, <2>10
  <2>14. t \in Stores
    BY <2>4, <2>9, <2>12, <2>13 DEF Stores
  <2>15. ASSUME NEW q \in Partitions PROVE Contents(t, q) = Contents(store, q)
    <3>1. CASE q = p
      <4>1. SideRows(store.disk, b.segments[p]) \o rows \in Seq(Rows)
        <5>1. SideRows(store.disk, b.segments[p]) \in Seq(Rows)
          BY <1>1, SegmentsRead
        <5> QED
          BY <1>2, <5>1, ConcatProperties
      <4>2. Contents(t, p) = (SideRows(store.disk, b.segments[p]) \o rows) \o <<>>
        BY <2>8, <2>9, <2>10 DEF Contents
      <4>3. Contents(store, p) = SideRows(store.disk, b.segments[p]) \o rows
        BY DEF Contents, b, rows
      <4> QED
        BY <3>1, <4>1, <4>2, <4>3, ConcatEmptySeq
    <3>2. CASE q # p
      BY <2>7, <2>9, <2>10, <3>2 DEF Contents, b
    <3> QED
      BY <3>1, <3>2
  <2> QED
    BY <2>4, <2>9, <2>10, <2>14, <2>15 DEF Flushes, t, b
<1> QED
  BY <1>3, <1>4

\* What push makes of a store: a row more in the partition of its key.
Adds(store, row, t) ==
    /\ t \in BoundedStores /\ Later(store.disk, t.disk)
    /\ \A q \in Partitions :
           Contents(t, q) = IF q = hash_partition(row.key) THEN Append(Contents(store, q), row)
                                                           ELSE Contents(store, q)

\* The row a buffer takes is behind the others, whether or not it is flushed,
\* and afterwards the buffer is below the threshold.
LEMMA PushAdds ==
    ASSUME RowsSized(Rows), NEW store \in BoundedStores, NEW row \in Rows
    PROVE  Adds(store, row, push(store, row))
<1>1. PICK p \in Partitions : p = hash_partition(row.key)
  BY RowFacts
<1>2. PICK d \in Disks, b \in Buffers : /\ store = [disk |-> d, bufs |-> b]
                                        /\ store.disk = d /\ store.bufs = b
  BY DEF BoundedStores, Stores
<1>3. /\ b.buffers \in [Partitions -> Seq(Rows)] /\ b.buf_bytes \in [Partitions -> Nat]
      /\ b.segments \in [Partitions -> Seq(Run)]
      /\ b \in [buffers : {b.buffers}, buf_bytes : {b.buf_bytes}, segments : {b.segments}]
      /\ \A q \in Partitions : /\ b.segments[q] \in Seq(Segments(d))
                               /\ b.buf_bytes[q] = MemoryOf(b.buffers[q])
                               /\ b.buf_bytes[q] < FLUSH_THRESHOLD
  BY <1>2 DEF BoundedStores, Stores, Buffers
<1> DEFINE pushed == [store EXCEPT !.bufs.buffers[p] = Append(@, row),
                                   !.bufs.buf_bytes[p] = @ + row.mem]
<1>4. push(store, row) = IF pushed.bufs.buf_bytes[p] >= FLUSH_THRESHOLD
                         THEN flush_one(pushed, p) ELSE pushed
  BY <1>1 DEF push
<1>5. /\ pushed \in [disk : {pushed.disk}, bufs : {pushed.bufs}]
      /\ pushed.bufs \in [buffers : {pushed.bufs.buffers},
                          buf_bytes : {pushed.bufs.buf_bytes},
                          segments : {pushed.bufs.segments}]
      /\ pushed.disk = d /\ pushed.bufs.segments = b.segments
      /\ pushed.bufs.buffers = [b.buffers EXCEPT ![p] = Append(@, row)]
      /\ pushed.bufs.buf_bytes = [b.buf_bytes EXCEPT ![p] = @ + row.mem]
  BY <1>2, <1>3
<1> HIDE DEF pushed
<1>6. /\ Append(b.buffers[p], row) \in Seq(Rows)
      /\ b.buf_bytes[p] + row.mem \in Nat
      /\ MemoryOf(Append(b.buffers[p], row)) = b.buf_bytes[p] + row.mem
  <2>1. PICK r \in Seq(Rows) : r = b.buffers[p] /\ b.buf_bytes[p] = MemoryOf(r)
    BY <1>3
  <2>2. Append(r, row) \in Seq(Rows)
    BY RowAppended
  <2>3. MemoryOf(r) \in Nat /\ MemoryOf(Append(r, row)) = MemoryOf(r) + row.mem
    BY RowFacts, MemoryAppend
  <2> QED
    BY <2>1, <2>2, <2>3, RowFacts
<1>7. /\ pushed.bufs.buffers[p] = Append(b.buffers[p], row)
      /\ pushed.bufs.buf_bytes[p] = b.buf_bytes[p] + row.mem
      /\ \A q \in Partitions : q # p => /\ pushed.bufs.buffers[q] = b.buffers[q]
                                        /\ pushed.bufs.buf_bytes[q] = b.buf_bytes[q]
  BY <1>3, <1>5
<1>8. pushed \in Stores
  <2>1. pushed.bufs.buffers \in [Partitions -> Seq(Rows)]
    BY <1>3, <1>5, <1>6
  <2>2. pushed.bufs.buf_bytes \in [Partitions -> Nat]
    BY <1>3, <1>5, <1>6
  <2>3. pushed.bufs \in Buffers
    BY <1>3, <1>5, <2>1, <2>2 DEF Buffers
  <2>4. \A q \in Partitions : /\ pushed.bufs.segments[q] \in Seq(Segments(pushed.disk))
                              /\ pushed.bufs.buf_bytes[q] = MemoryOf(pushed.bufs.buffers[q])
    BY <1>3, <1>5, <1>6, <1>7
  <2> QED
    BY <1>5, <2>3, <2>4 DEF Stores
<1>9. ASSUME NEW q \in Partitions
      PROVE  Contents(pushed, q) = IF q = p THEN Append(Contents(store, q), row)
                                            ELSE Contents(store, q)
  <2>1. PICK side \in Seq(Rows) : side = SideRows(d, b.segments[q])
    BY <1>3, SegmentsRead
  <2>2. /\ Contents(store, q) = side \o b.buffers[q]
        /\ Contents(pushed, q) = side \o pushed.bufs.buffers[q]
    BY <1>2, <1>5, <2>1, Zenon DEF Contents
  <2>3. CASE q = p
    <3>1. side \o Append(b.buffers[p], row) = Append(side \o b.buffers[p], row)
      <4>1. PICK r \in Seq(Rows) : r = b.buffers[p]
        BY <1>3
      <4>2. side \o Append(r, row) = Append(side \o r, row)
        BY AppendLater
      <4> QED
        BY <4>1, <4>2, Zenon
    <3> QED
      BY <1>7, <2>2, <2>3, <3>1, Zenon
  <2>4. CASE q # p
    BY <1>7, <2>2, <2>4, Zenon
  <2> QED
    BY <2>3, <2>4
<1>10. CASE pushed.bufs.buf_bytes[p] >= FLUSH_THRESHOLD
  <2> DEFINE t == flush_one(pushed, p)
  <2>1. Flushes(pushed, p, t)
    BY <1>8, FlushOne
  <2>2. push(store, row) = t
    BY <1>4, <1>10
  <2> HIDE DEF t
  <2>3. t \in BoundedStores
    <3>1. ASSUME NEW q \in Partitions PROVE t.bufs.buf_bytes[q] < FLUSH_THRESHOLD
      <4>1. CASE q = p
        BY <2>1, <4>1, RowFacts DEF Flushes
      <4>2. CASE q # p
        BY <1>3, <1>7, <2>1, <4>2 DEF Flushes
      <4> QED
        BY <4>1, <4>2
    <3> QED
      BY <2>1, <3>1 DEF Flushes, BoundedStores
  <2>4. /\ Later(d, t.disk)
        /\ \A q \in Partitions : Contents(t, q) = Contents(pushed, q)
    BY <1>5, <2>1 DEF Flushes
  <2> QED
    BY <1>1, <1>2, <1>9, <2>2, <2>3, <2>4 DEF Adds
<1>11. CASE ~(pushed.bufs.buf_bytes[p] >= FLUSH_THRESHOLD)
  <2>1. push(store, row) = pushed
    BY <1>4, <1>11
  <2>2. pushed \in BoundedStores
    <3>1. ASSUME NEW q \in Partitions PROVE pushed.bufs.buf_bytes[q] < FLUSH_THRESHOLD
      <4>1. CASE q = p
        BY <1>6, <1>7, <1>11, <4>1, RowFacts
      <4>2. CASE q # p
        BY <1>3, <1>7, <4>2
      <4> QED
        BY <4>1, <4>2
    <3> QED
      BY <1>8, <3>1 DEF BoundedStores
  <2>3. Later(d, pushed.disk)
    BY <1>5 DEF Later
  <2> QED
    BY <1>1, <1>2, <1>9, <2>1, <2>2, <2>3 DEF Adds
<1> QED
  BY <1>10, <1>11


\* push and flush_one as the steps of folds.
PushStep == [x \in BoundedStores \X Rows |-> push(x[1], x[2])]

FlushStep == [x \in BoundedStores \X Partitions |-> flush_one(x[1], x[2])]

\* The fold of push takes the rows from the first to the last.
LEMMA PushIsFold ==
    ASSUME RowsSized(Rows), NEW store \in BoundedStores, NEW rows \in Seq(Rows)
    PROVE  /\ FoldTypes(BoundedStores, Rows, PushStep, store, rows)
           /\ FoldLeft(push, store, rows) = Fold(PushStep, store, rows)
<1> DEFINE Body(g) == [t \in SUBSET (DOMAIN rows) |->
                          IF t = {} THEN store
                          ELSE push(g[t \ {Max(t)}], rows[Max(t)])]
           ot == CHOOSE g : g = Body(g)
<1>1. FoldLeft(push, store, rows) = ot[DOMAIN rows]
  BY Zenon DEF FoldLeft, MapThenFoldSet
<1>i. \A x \in BoundedStores \X Rows :
          /\ x[1] \in BoundedStores /\ x[2] \in Rows
          /\ PushStep[x] = push(x[1], x[2]) /\ push(x[1], x[2]) \in BoundedStores
  BY PushAdds DEF PushStep, Adds
<1>2. FoldTypes(BoundedStores, Rows, PushStep, store, rows)
  <2>1. store \in BoundedStores
    OBVIOUS
  <2>2. PushStep \in [BoundedStores \X Rows -> BoundedStores]
    BY <1>i DEF PushStep
  <2> QED
    BY <2>1, <2>2 DEF FoldTypes
<1>3. PICK it \in [SUBSET (DOMAIN rows) -> BoundedStores] :
          IsIteration(it, PushStep, store, rows)
  BY <1>2, IterationExists, Zenon
<1>4. \A t \in SUBSET (DOMAIN rows) : t # {} => Max(t) \in t /\ rows[Max(t)] \in Rows
  <2>1. DOMAIN rows = 1 .. Len(rows) /\ Len(rows) \in Nat
    BY LenProperties
  <2> QED
    BY <2>1, MaxOfPositions, ElementOfSeq
<1>s. \A v \in BoundedStores, e \in Rows : PushStep[<<v, e>>] = push(v, e)
  BY DEF PushStep
<1>5. it = Body(it)
  <2>1. ASSUME NEW t \in SUBSET (DOMAIN rows)
        PROVE  it[t] = IF t = {} THEN store
                       ELSE push(it[t \ {Max(t)}], rows[Max(t)])
    <3>1. CASE t = {}
      BY <1>3, <3>1 DEF IsIteration
    <3>2. CASE t # {}
      <4>1. it[t] = PushStep[<<it[t \ {Max(t)}], rows[Max(t)]>>]
        BY <1>3, <3>2 DEF IsIteration
      <4>2. it[t \ {Max(t)}] \in BoundedStores /\ rows[Max(t)] \in Rows
        BY <1>3, <1>4, <3>2
      <4> QED
        BY <1>s, <3>2, <4>1, <4>2
    <3> QED
      BY <3>1, <3>2
  <2> QED
    BY <1>3, <2>1
<1>6. ot = Body(ot)
  BY <1>5, Zenon
<1> HIDE DEF ot
<1>7. ot[{}] = store
  BY <1>6
<1>8. ASSUME NEW k \in 1 .. Len(rows), ot[1 .. k - 1] \in BoundedStores
      PROVE  ot[1 .. k] = PushStep[<<ot[1 .. k - 1], rows[k]>>]
  <2>1. /\ 1 .. k \in SUBSET (DOMAIN rows) /\ rows[k] \in Rows
        /\ k \in Nat \ {0} /\ 1 .. k # {}
    BY LenProperties
  <2>2. Max(1 .. k) = k /\ (1 .. k) \ {k} = 1 .. k - 1
    BY <2>1, MaxOfInterval
  <2>3. ot[1 .. k] = push(ot[1 .. k - 1], rows[k])
    BY <1>6, <2>1, <2>2
  <2> QED
    BY <1>8, <1>s, <2>1, <2>3
<1>9. IteratesPrefixes(ot, BoundedStores, Rows, PushStep, store, rows)
  BY <1>2, <1>7, <1>8 DEF IteratesPrefixes
<1>10. ot[DOMAIN rows] = Fold(PushStep, store, rows)
  BY <1>9, IterationIsFold
<1> QED
  BY <1>1, <1>2, <1>10, Zenon

\* Flushing leaves the other buffers below the threshold.
LEMMA FlushBounded ==
    ASSUME RowsSized(Rows), NEW store \in BoundedStores, NEW p \in Partitions
    PROVE  Flushes(store, p, flush_one(store, p)) /\ flush_one(store, p) \in BoundedStores
<1> DEFINE t == flush_one(store, p)
<1>1. store \in Stores /\ \A q \in Partitions : store.bufs.buf_bytes[q] < FLUSH_THRESHOLD
  BY DEF BoundedStores
<1>2. Flushes(store, p, t)
  BY <1>1, FlushOne
<1> HIDE DEF t
<1>3. ASSUME NEW q \in Partitions PROVE t.bufs.buf_bytes[q] < FLUSH_THRESHOLD
  <2>1. CASE q = p
    BY <1>2, <2>1, RowFacts DEF Flushes
  <2>2. CASE q # p
    BY <1>1, <1>2, <2>2 DEF Flushes
  <2> QED
    BY <2>1, <2>2
<1>4. t \in BoundedStores
  BY <1>2, <1>3 DEF Flushes, BoundedStores
<1> QED
  BY <1>2, <1>4 DEF t

\* The fold of flush_one takes the partitions from the first to the last.
LEMMA FlushIsFold ==
    ASSUME RowsSized(Rows), NEW store \in BoundedStores, NEW parts \in Seq(Partitions)
    PROVE  /\ FoldTypes(BoundedStores, Partitions, FlushStep, store, parts)
           /\ FoldLeft(flush_one, store, parts) = Fold(FlushStep, store, parts)
<1> DEFINE Body(g) == [t \in SUBSET (DOMAIN parts) |->
                          IF t = {} THEN store
                          ELSE flush_one(g[t \ {Max(t)}], parts[Max(t)])]
           ot == CHOOSE g : g = Body(g)
<1>1. FoldLeft(flush_one, store, parts) = ot[DOMAIN parts]
  BY Zenon DEF FoldLeft, MapThenFoldSet
<1>i. \A x \in BoundedStores \X Partitions :
          /\ x[1] \in BoundedStores /\ x[2] \in Partitions
          /\ FlushStep[x] = flush_one(x[1], x[2]) /\ flush_one(x[1], x[2]) \in BoundedStores
  BY FlushBounded DEF FlushStep, Flushes
<1>2. FoldTypes(BoundedStores, Partitions, FlushStep, store, parts)
  <2>1. store \in BoundedStores
    OBVIOUS
  <2>2. FlushStep \in [BoundedStores \X Partitions -> BoundedStores]
    BY <1>i DEF FlushStep
  <2> QED
    BY <2>1, <2>2 DEF FoldTypes
<1>3. PICK it \in [SUBSET (DOMAIN parts) -> BoundedStores] :
          IsIteration(it, FlushStep, store, parts)
  BY <1>2, IterationExists, Zenon
<1>4. \A t \in SUBSET (DOMAIN parts) : t # {} => Max(t) \in t /\ parts[Max(t)] \in Partitions
  <2>1. DOMAIN parts = 1 .. Len(parts) /\ Len(parts) \in Nat
    BY LenProperties
  <2> QED
    BY <2>1, MaxOfPositions, ElementOfSeq
<1>s. \A v \in BoundedStores, e \in Partitions : FlushStep[<<v, e>>] = flush_one(v, e)
  BY DEF FlushStep
<1>5. it = Body(it)
  <2>1. ASSUME NEW t \in SUBSET (DOMAIN parts)
        PROVE  it[t] = IF t = {} THEN store
                       ELSE flush_one(it[t \ {Max(t)}], parts[Max(t)])
    <3>1. CASE t = {}
      BY <1>3, <3>1 DEF IsIteration
    <3>2. CASE t # {}
      <4>1. it[t] = FlushStep[<<it[t \ {Max(t)}], parts[Max(t)]>>]
        BY <1>3, <3>2 DEF IsIteration
      <4>2. it[t \ {Max(t)}] \in BoundedStores /\ parts[Max(t)] \in Partitions
        BY <1>3, <1>4, <3>2
      <4> QED
        BY <1>s, <3>2, <4>1, <4>2
    <3> QED
      BY <3>1, <3>2
  <2> QED
    BY <1>3, <2>1
<1>6. ot = Body(ot)
  BY <1>5, Zenon
<1> HIDE DEF ot
<1>7. ot[{}] = store
  BY <1>6
<1>8. ASSUME NEW k \in 1 .. Len(parts), ot[1 .. k - 1] \in BoundedStores
      PROVE  ot[1 .. k] = FlushStep[<<ot[1 .. k - 1], parts[k]>>]
  <2>1. /\ 1 .. k \in SUBSET (DOMAIN parts) /\ parts[k] \in Partitions
        /\ k \in Nat \ {0} /\ 1 .. k # {}
    <3>1. PICK n \in Nat : n = Len(parts) /\ DOMAIN parts = 1 .. n
      BY LenProperties
    <3>2. k \in 1 .. n /\ k \in Nat \ {0} /\ 1 .. k # {} /\ 1 .. k \in SUBSET (1 .. n)
      BY <3>1
    <3>3. parts[k] \in Partitions
      BY ElementOfSeq
    <3> QED
      BY <3>1, <3>2, <3>3, Zenon
  <2>2. Max(1 .. k) = k /\ (1 .. k) \ {k} = 1 .. k - 1
    BY <2>1, MaxOfInterval
  <2>3. ot[1 .. k] = flush_one(ot[1 .. k - 1], parts[k])
    BY <1>6, <2>1, <2>2
  <2> QED
    BY <1>8, <1>s, <2>1, <2>3
<1>9. IteratesPrefixes(ot, BoundedStores, Partitions, FlushStep, store, parts)
  BY <1>2, <1>7, <1>8 DEF IteratesPrefixes
<1>10. ot[DOMAIN parts] = Fold(FlushStep, store, parts)
  BY <1>9, IterationIsFold
<1> QED
  BY <1>1, <1>2, <1>10, Zenon

\* A store t that follows another one, and holds the rows of S.
Keeps(store, t, S) == t \in BoundedStores /\ Later(store.disk, t.disk) /\ StoreHolds(t, S)

\* Pushing a new row.
LEMMA PushHolds ==
    ASSUME RowsSized(Rows), NEW store \in BoundedStores, NEW S, StoreHolds(store, S),
           NEW row \in Rows, row \notin S
    PROVE  Keeps(store, push(store, row), S \cup {row})
<1>1. PICK p \in Partitions : p = hash_partition(row.key)
  BY RowFacts
<1>2. PICK t : t = push(store, row)
  OBVIOUS
<1>3. Adds(store, row, t)
  BY <1>2, PushAdds
<1>4. ASSUME NEW q \in Partitions
      PROVE  Lists(Contents(t, q), InPartition(S \cup {row}, q))
  <2>1. Lists(Contents(store, q), InPartition(S, q))
    BY DEF StoreHolds
  <2>2. CASE q = p
    <3>1. /\ InPartition(S \cup {row}, q) = InPartition(S, q) \cup {row}
          /\ row \notin InPartition(S, q)
      BY <1>1, <2>2 DEF InPartition
    <3>2. Lists(Append(Contents(store, q), row), InPartition(S, q) \cup {row})
      BY <2>1, <3>1, ListsAppend
    <3>3. Contents(t, q) = Append(Contents(store, q), row)
      BY <1>1, <1>3, <2>2 DEF Adds
    <3> QED
      BY <3>1, <3>2, <3>3, Zenon
  <2>3. CASE q # p
    <3>1. InPartition(S \cup {row}, q) = InPartition(S, q)
      BY <1>1, <2>3 DEF InPartition
    <3>2. Contents(t, q) = Contents(store, q)
      BY <1>1, <1>3, <2>3 DEF Adds
    <3> QED
      BY <2>1, <3>1, <3>2, Zenon
  <2> QED
    BY <2>2, <2>3
<1> QED
  BY <1>2, <1>3, <1>4 DEF Adds, Keeps, StoreHolds

\* Pushing the rows of a bucket, which are new and each there once.
LEMMA PushAll ==
    ASSUME RowsSized(Rows), NEW store \in BoundedStores, NEW S, StoreHolds(store, S),
           NEW rows, NEW T, Lists(rows, T), S \cap T = {}
    PROVE  Keeps(store, FoldLeft(push, store, rows), S \cup T)
<1>1. rows \in Seq(Rows) /\ ToSet(rows) = T /\ IsInjective(rows)
  BY DEF Lists
<1>2. PICK n \in Nat : n = Len(rows) /\ DOMAIN rows = 1 .. n
  BY <1>1, LenProperties
<1>3. /\ FoldTypes(BoundedStores, Rows, PushStep, store, rows)
      /\ FoldLeft(push, store, rows) = Fold(PushStep, store, rows)
  BY <1>1, PushIsFold
<1>4. Pulled(rows, n) = T /\ Pulled(rows, 0) = {}
  BY <1>1, <1>2 DEF Pulled, ToSet
<1> DEFINE Q == [k \in 0 .. n |-> {v \in BoundedStores : Keeps(store, v, S \cup Pulled(rows, k))}]
<1>5. store \in Q[0]
  <2>1. S \cup Pulled(rows, 0) = S /\ Later(store.disk, store.disk)
    BY <1>4 DEF Later
  <2> QED
    BY <2>1 DEF Keeps
<1>6. ASSUME NEW k \in 1 .. n, NEW v \in BoundedStores, v \in Q[k - 1]
      PROVE  PushStep[<<v, rows[k]>>] \in Q[k]
  <2>1. PICK P : P = S \cup Pulled(rows, k - 1)
    OBVIOUS
  <2>2. k - 1 \in 0 .. n /\ k \in 0 .. n /\ Keeps(store, v, P)
    BY <1>6, <2>1
  <2>3. rows[k] \in Rows /\ rows[k] \notin P
    <3>1. \A i \in 1 .. k - 1 : i \in 1 .. n /\ i # k
      OBVIOUS
    <3>2. rows[k] \in Rows /\ rows[k] \in T
      BY <1>1, <1>2, ElementOfSeq DEF ToSet
    <3> QED
      BY <1>1, <1>2, <2>1, <3>1, <3>2 DEF Pulled, IsInjective
  <2>4. S \cup Pulled(rows, k) = P \cup {rows[k]}
    <3>1. \A i : i \in 1 .. k <=> i \in 1 .. k - 1 \/ i = k
      OBVIOUS
    <3> QED
      BY <2>1, <3>1 DEF Pulled
  <2>5. PICK t : t = push(v, rows[k])
    OBVIOUS
  <2>6. Keeps(v, t, P \cup {rows[k]})
    BY <2>2, <2>3, <2>5, PushHolds DEF Keeps
  <2>7. Keeps(store, t, P \cup {rows[k]})
    BY <2>2, <2>6, LaterTwice DEF Keeps
  <2>8. PushStep[<<v, rows[k]>>] = t
    BY <2>3, <2>5 DEF PushStep
  <2> QED
    BY <2>2, <2>4, <2>7, <2>8 DEF Keeps
<1> HIDE DEF Q
<1>7. Fold(PushStep, store, rows) \in Q[n]
  BY <1>2, <1>3, <1>5, <1>6, FoldInvariant
<1> QED
  BY <1>3, <1>4, <1>7 DEF Q

\* A flush keeps what a store holds.
LEMMA FlushHolds ==
    ASSUME RowsSized(Rows), NEW store \in BoundedStores, NEW S, StoreHolds(store, S),
           NEW p \in Partitions
    PROVE  Keeps(store, flush_one(store, p), S)
<1>1. PICK t : t = flush_one(store, p)
  OBVIOUS
<1>2. Flushes(store, p, t) /\ t \in BoundedStores
  BY <1>1, FlushBounded
<1>3. \A q \in Partitions : Contents(t, q) = Contents(store, q)
  BY <1>2 DEF Flushes
<1>4. StoreHolds(t, S)
  BY <1>3, Zenon DEF StoreHolds
<1> QED
  BY <1>1, <1>2, <1>4 DEF Keeps, Flushes

\* Once all partitions have been flushed, their rows are on the disk.
LEMMA FinishHolds ==
    ASSUME RowsSized(Rows), NEW store \in BoundedStores, NEW S, StoreHolds(store, S),
           NEW t, t = finish(store)
    PROVE  /\ Keeps(store, t, S)
           /\ \A p \in Partitions : /\ t.bufs.segments[p] \in Seq(Segments(t.disk))
                                    /\ Lists(SideRows(t.disk, t.bufs.segments[p]),
                                             InPartition(S, p))
<1>1. PICK n \in Nat : n = NUM_PARTITIONS /\ Partitions = 0 .. n - 1
  BY RowFacts DEF Partitions
<1>2. PICK parts : parts = [i \in 1 .. n |-> i - 1]
  OBVIOUS
<1>3. parts \in Seq(Partitions) /\ Len(parts) = n
  <2>1. parts \in [1 .. n -> Partitions]
    BY <1>1, <1>2
  <2> QED
    BY <2>1
<1>4. /\ FoldTypes(BoundedStores, Partitions, FlushStep, store, parts)
      /\ FoldLeft(flush_one, store, parts) = Fold(FlushStep, store, parts)
  BY <1>3, FlushIsFold
<1> DEFINE Q == [k \in 0 .. n |->
                    {v \in BoundedStores :
                        /\ Keeps(store, v, S)
                        /\ \A p \in Partitions : p < k => v.bufs.buffers[p] = <<>>}]
<1>5. store \in Q[0]
  <2>1. \A p \in Partitions : ~(p < 0)
    BY <1>1
  <2>2. Keeps(store, store, S)
    BY DEF Keeps, Later
  <2> QED
    BY <2>1, <2>2
<1>6. ASSUME NEW k \in 1 .. n, NEW v \in BoundedStores, v \in Q[k - 1]
      PROVE  FlushStep[<<v, parts[k]>>] \in Q[k]
  <2>1. /\ k - 1 \in 0 .. n /\ k \in 0 .. n /\ Keeps(store, v, S)
        /\ \A p \in Partitions : p < k - 1 => v.bufs.buffers[p] = <<>>
    BY <1>6
  <2>2. PICK p \in Partitions : p = k - 1 /\ p = parts[k]
    BY <1>1, <1>2
  <2>3. PICK u : u = flush_one(v, p)
    OBVIOUS
  <2>4. Flushes(v, p, u) /\ Keeps(v, u, S)
    BY <2>1, <2>3, FlushBounded, FlushHolds DEF Keeps
  <2>5. Keeps(store, u, S)
    BY <2>1, <2>4, LaterTwice DEF Keeps
  <2>6. ASSUME NEW q \in Partitions, q < k PROVE u.bufs.buffers[q] = <<>>
    <3>1. CASE q = p
      BY <2>4, <3>1 DEF Flushes
    <3>2. CASE q # p
      <4>1. q < k - 1
        BY <1>1, <2>2, <2>6, <3>2
      <4> QED
        BY <2>1, <2>4, <3>2, <4>1 DEF Flushes
    <3> QED
      BY <3>1, <3>2
  <2>7. FlushStep[<<v, parts[k]>>] = u
    BY <2>2, <2>3 DEF FlushStep
  <2> QED
    BY <2>1, <2>5, <2>6, <2>7 DEF Keeps
<1> HIDE DEF Q
<1>7. Fold(FlushStep, store, parts) \in Q[n]
  BY <1>3, <1>4, <1>5, <1>6, FoldInvariant
<1>8. t = Fold(FlushStep, store, parts)
  BY <1>1, <1>2, <1>4, Zenon DEF finish
<1>9. Keeps(store, t, S) /\ \A p \in Partitions : t.bufs.buffers[p] = <<>>
  <2>1. \A p \in Partitions : p < n
    BY <1>1
  <2> QED
    BY <1>7, <1>8, <2>1 DEF Q
<1>10. ASSUME NEW p \in Partitions
       PROVE  /\ t.bufs.segments[p] \in Seq(Segments(t.disk))
              /\ Lists(SideRows(t.disk, t.bufs.segments[p]), InPartition(S, p))
  <2>1. t.bufs.segments[p] \in Seq(Segments(t.disk))
    BY <1>9 DEF Keeps, BoundedStores, Stores
  <2>2. SideRows(t.disk, t.bufs.segments[p]) \in Seq(Rows)
    BY <2>1, SegmentsRead
  <2>3. Contents(t, p) = SideRows(t.disk, t.bufs.segments[p])
    <3>1. \A s \in Seq(Rows) : s \o <<>> = s
      BY ConcatEmptySeq
    <3>2. Contents(t, p) = SideRows(t.disk, t.bufs.segments[p]) \o <<>>
      BY <1>9, Zenon DEF Contents
    <3> QED
      BY <2>2, <3>1, <3>2, Zenon
  <2>4. Lists(Contents(t, p), InPartition(S, p))
    BY <1>9 DEF Keeps, StoreHolds
  <2> QED
    BY <2>1, <2>3, <2>4, Zenon
<1> QED
  BY <1>9, <1>10
-----------------------------------------------------------------------------
\* What follows the first k rows of a sequence.
Suffix(s, k) == SubSeq(s, k + 1, Len(s))

\* It starts with the next row, and ends with the last one.
LEMMA SuffixFacts ==
    ASSUME NEW s \in Seq(Rows), NEW k \in Nat
    PROVE  /\ Suffix(s, k) \in Seq(Rows) /\ Suffix(s, 0) = s
           /\ k < Len(s) => s[k + 1] \in Rows /\ Suffix(s, k) = <<s[k + 1]>> \o Suffix(s, k + 1)
           /\ ~(k < Len(s)) => Suffix(s, k) = <<>>
<1>1. PICK n \in Nat : n = Len(s)
  BY LenProperties
<1>2. PICK m \in Nat : m = k + 1
  OBVIOUS
<1>3. \A i \in 1 .. n : s[i] \in Rows
  BY <1>1, ElementOfSeq
<1>4. Suffix(s, k) = SubSeq(s, m, n)
  BY <1>1, <1>2 DEF Suffix
<1>5. SubSeq(s, m, n) \in Seq(Rows)
  <2>1. m \in Int /\ n \in Int /\ \A i \in m .. n : i \in 1 .. n
    BY <1>2
  <2>2. \A i \in m .. n : s[i] \in Rows
    BY <1>3, <2>1
  <2> QED
    BY <2>1, <2>2, SubSeqProperties
<1>6. Suffix(s, 0) = s
  <2>1. 0 + 1 = 1
    OBVIOUS
  <2> QED
    BY <2>1, SubSeqFull DEF Suffix
<1>7. ASSUME k < n PROVE s[m] \in Rows /\ Suffix(s, k) = <<s[m]>> \o Suffix(s, m)
  <2>1. m \in 1 .. Len(s) /\ n \in m .. Len(s)
    BY <1>1, <1>2, <1>7
  <2>2. SubSeq(s, m, n) = <<s[m]>> \o SubSeq(s, m + 1, n)
    BY <2>1, SubSeqRecursiveFirst
  <2> QED
    BY <1>1, <1>3, <1>4, <2>1, <2>2 DEF Suffix
<1>8. ASSUME ~(k < n) PROVE SubSeq(s, m, n) = <<>>
  <2>1. n < m
    BY <1>2, <1>8
  <2> QED
    BY <2>1, SubSeqEmpty
<1> QED
  BY <1>1, <1>2, <1>4, <1>5, <1>6, <1>7, <1>8

\* Readers that have a row while there are requests to make, and what they will
\* still return.
Readers(d) ==
    {r \in [requests : Seq(Requested(d)), buffer : Seq(Rows), buf_idx : Nat] :
        HasRow(r) \/ (r.requests = <<>> /\ r.buffer = <<>>)}

Rest(d, reader) == Suffix(reader.buffer, reader.buf_idx) \o ReadRows(d, reader.requests)

\* The reader x will return the rows of s.
Returns(d, x, s) == x \in Readers(d) /\ Rest(d, x) = s /\ s \in Seq(Rows)

\* No request is answered with nothing, so the first one is taken.
LEMMA LoadFacts ==
    ASSUME RowsSized(Rows), NEW reader, reader.requests \in Seq(Requested(disk))
    PROVE  Returns(disk, load_next_batch(reader), ReadRows(disk, reader.requests))
<1>1. PICK requests \in Seq(Requested(disk)) : requests = reader.requests
  OBVIOUS
<1>2. PICK n \in Nat : n = Len(requests) /\ DOMAIN requests = 1 .. n
  BY LenProperties
<1>3. PICK next : next = load_next_batch(reader)
  OBVIOUS
<1>4. ReadRows(disk, requests) \in Seq(Rows)
  BY RepliesFacts
<1>5. \A i \in 1 .. n :
          Answer(requests[i]) = Replies(disk, requests)[i] /\ Answer(requests[i]) # <<>>
  <2>1. \A i \in 1 .. n : Answer(requests[i]) = Replies(disk, requests)[i]
    BY <1>2, Zenon DEF Replies, Answer, RunRows
  <2>2. \A i \in 1 .. n : Replies(disk, requests)[i] # <<>>
    BY <1>2, RepliesFacts
  <2> QED
    BY <2>1, <2>2
<1>6. {i \in DOMAIN reader.requests : Answer(reader.requests[i]) # <<>>} = 1 .. n
  BY <1>1, <1>2, <1>5
<1>7. CASE n = 0
  <2>1. requests = <<>> /\ 1 .. n = {}
    BY <1>2, <1>7, EmptySeq
  <2>2. next = [requests |-> <<>>, buffer |-> <<>>, buf_idx |-> 0]
    BY <1>3, <1>6, <2>1 DEF load_next_batch
  <2>3. <<>> \in Seq(Rows) /\ <<>> \in Seq(Requested(disk))
    OBVIOUS
  <2>4. next \in Readers(disk)
    BY <2>2, <2>3 DEF Readers
  <2>5. Rest(disk, next) = <<>> \o ReadRows(disk, requests)
    BY <2>1, <2>2, <2>3, SuffixFacts DEF Rest
  <2>6. <<>> \o ReadRows(disk, requests) = ReadRows(disk, requests)
    BY <1>4, ConcatEmptySeq
  <2> QED
    BY <1>1, <1>3, <1>4, <2>4, <2>5, <2>6 DEF Returns
<1>8. CASE n # 0
  <2>1. 1 .. n # {} /\ Min(1 .. n) = 1
    <3>1. \E x \in 1 .. n : \A y \in 1 .. n : x <= y
      BY <1>8
    <3>2. Min(1 .. n) \in 1 .. n /\ \A y \in 1 .. n : Min(1 .. n) <= y
      BY <3>1, Zenon DEF Min
    <3>3. 1 \in 1 .. n
      BY <1>8
    <3> QED
      BY <3>2, <3>3
  <2>2. PICK first \in Requested(disk), others \in Seq(Requested(disk)) :
            /\ first = requests[1] /\ others = SubSeq(requests, 2, n)
            /\ requests = <<first>> \o others
    <3>1. 1 \in 1 .. Len(requests) /\ n \in 1 .. Len(requests) /\ 1 + 1 = 2
      BY <1>2, <1>8
    <3>2. SubSeq(requests, 1, n) = <<requests[1]>> \o SubSeq(requests, 2, n)
      BY <3>1, SubSeqRecursiveFirst
    <3>3. SubSeq(requests, 1, n) = requests
      BY <1>2, SubSeqFull
    <3>4. SubSeq(requests, 2, n) \in Seq(Requested(disk))
      <4>1. 2 \in Int /\ n \in Int /\ \A i \in 2 .. n : i \in 1 .. n
        OBVIOUS
      <4>2. \A i \in 2 .. n : requests[i] \in Requested(disk)
        BY <1>2, <4>1, ElementOfSeq
      <4> QED
        BY <4>1, <4>2, SubSeqProperties
    <3>5. requests[1] \in Requested(disk)
      BY <3>1, ElementOfSeq
    <3> QED
      BY <3>2, <3>3, <3>4, <3>5
  <2>3. PICK rows : rows = Answer(first)
    OBVIOUS
  <2>4. next = [requests |-> others, buffer |-> rows, buf_idx |-> 0]
    <3>1. 1 + 1 = 2 /\ Len(reader.requests) = n
      BY <1>1, <1>2
    <3> QED
      BY <1>1, <1>3, <1>6, <2>1, <2>2, <2>3, <3>1 DEF load_next_batch
  <2>5. rows \in Seq(Rows) /\ rows # <<>> /\ ReadRows(disk, <<first>>) = rows
    <3>1. <<first>> \in Seq(Requested(disk)) /\ DOMAIN <<first>> = 1 .. 1 /\ <<first>>[1] = first
      OBVIOUS
    <3>2. Replies(disk, <<first>>) = <<rows>>
      BY <2>3, <3>1 DEF Replies, Answer, RunRows
    <3>3. Replies(disk, <<first>>) \in Seq(Seq(Rows)) /\ Replies(disk, <<first>>)[1] # <<>>
      <4>1. PICK one \in Seq(Requested(disk)) : one = <<first>> /\ DOMAIN one = 1 .. 1
        BY <3>1
      <4>2. /\ Replies(disk, one) \in Seq(Seq(Rows))
            /\ \A i \in DOMAIN one : Replies(disk, one)[i] # <<>>
        BY RepliesFacts
      <4>3. 1 \in DOMAIN one
        BY <4>1
      <4> QED
        BY <4>1, <4>2, <4>3, Zenon
    <3>4. <<rows>> \in Seq(Seq(Rows)) /\ rows # <<>>
      BY <3>2, <3>3
    <3>5. rows \in Seq(Rows)
      <4>1. Len(<<rows>>) = 1 /\ 1 \in 1 .. 1 /\ <<rows>>[1] = rows
        OBVIOUS
      <4>2. <<rows>>[1] \in Seq(Rows)
        BY <3>4, <4>1, ElementOfSeq
      <4> QED
        BY <4>1, <4>2
    <3>6. FlattenSeq(<<rows>>) = rows
      <4>1. \A u \in Seq(Seq(Rows)), v \in Seq(Rows) :
                /\ FlattenSeq(<<>>) = <<>>
                /\ FlattenSeq(Append(u, v)) = FlattenSeq(u) \o v
        BY FlattenAppend
      <4>2. <<>> \in Seq(Seq(Rows)) /\ Append(<<>>, rows) = <<rows>>
        OBVIOUS
      <4>3. <<>> \o rows = rows
        BY <3>5, ConcatEmptySeq
      <4> QED
        BY <3>5, <4>1, <4>2, <4>3, Zenon
    <3> QED
      BY <3>2, <3>4, <3>5, <3>6 DEF ReadRows
  <2>6. ReadRows(disk, requests) = rows \o ReadRows(disk, others)
    <3>1. <<first>> \in Seq(Requested(disk))
      OBVIOUS
    <3>2. ReadRows(disk, <<first>> \o others) = ReadRows(disk, <<first>>) \o ReadRows(disk, others)
      BY <3>1, RepliesConcat
    <3> QED
      BY <2>2, <2>5, <3>2, Zenon
  <2>7. next \in Readers(disk)
    <3>1. Len(rows) \in Nat /\ Len(rows) # 0
      BY <2>5, EmptySeq
    <3> QED
      BY <2>2, <2>4, <2>5, <3>1 DEF Readers, HasRow
  <2>8. Rest(disk, next) = rows \o ReadRows(disk, others)
    BY <2>4, <2>5, SuffixFacts DEF Rest
  <2> QED
    BY <1>1, <1>3, <1>4, <2>6, <2>7, <2>8 DEF Returns
<1> QED
  BY <1>7, <1>8

\* A fresh reader returns the rows of its segments.
LEMMA NewReaderReturns ==
    ASSUME RowsSized(Rows), NEW segs \in Seq(Segments(disk))
    PROVE  Returns(disk, NewReader(segs), SideRows(disk, segs))
<1>1. PICK reader : reader = [requests |-> Requests(segs), buffer |-> <<>>, buf_idx |-> 0]
  OBVIOUS
<1>2. reader.requests = Requests(segs) /\ reader.requests \in Seq(Requested(disk))
  BY <1>1, SegmentsRead
<1>3. Returns(disk, load_next_batch(reader), ReadRows(disk, reader.requests))
  BY <1>2, LoadFacts
<1> QED
  BY <1>1, <1>2, <1>3, Zenon DEF NewReader, SideRows

\* next_row takes the first of the rows that the reader has to return.
LEMMA AdvanceReturns ==
    ASSUME RowsSized(Rows), NEW x, NEW s, Returns(disk, x, s), HasRow(x)
    PROVE  \E row \in Rows, t \in Seq(Rows) :
               /\ row = x.buffer[x.buf_idx + 1] /\ s = <<row>> \o t
               /\ Returns(disk, advance(x), t)
<1>1. PICK buffer \in Seq(Rows), i \in Nat, requests \in Seq(Requested(disk)) :
          /\ buffer = x.buffer /\ i = x.buf_idx /\ requests = x.requests
          /\ x = [requests |-> requests, buffer |-> buffer, buf_idx |-> i]
  BY DEF Returns, Readers
<1>2. PICK n \in Nat : n = Len(buffer) /\ i < n
  BY <1>1, LenProperties DEF HasRow
<1>3. PICK later \in Seq(Rows) : later = ReadRows(disk, requests)
  BY RepliesFacts
<1>4. PICK row \in Rows : row = buffer[i + 1]
  BY <1>1, <1>2, SuffixFacts
<1>5. PICK others \in Seq(Rows) :
          others = Suffix(buffer, i + 1) /\ Suffix(buffer, i) = <<row>> \o others
  <2>1. i + 1 \in Nat
    BY <1>1
  <2>2. Suffix(buffer, i + 1) \in Seq(Rows)
    BY <1>1, <2>1, SuffixFacts
  <2>3. Suffix(buffer, i) = <<buffer[i + 1]>> \o Suffix(buffer, i + 1)
    BY <1>1, <1>2, SuffixFacts
  <2> QED
    BY <1>4, <2>2, <2>3
<1>6. s = <<row>> \o (others \o later) /\ others \o later \in Seq(Rows)
  <2>1. s = (<<row>> \o others) \o later
    BY <1>1, <1>3, <1>5, Zenon DEF Returns, Rest
  <2>2. <<row>> \in Seq(Rows)
    BY OneRow
  <2>3. (<<row>> \o others) \o later = <<row>> \o (others \o later)
    BY <2>2, ConcatAssociative
  <2>4. others \o later \in Seq(Rows)
    BY ConcatProperties
  <2> QED
    BY <2>1, <2>3, <2>4
<1>7. Returns(disk, advance(x), others \o later)
  <2>1. CASE i + 1 < n
    <3>1. advance(x) = [requests |-> requests, buffer |-> buffer, buf_idx |-> i + 1]
      BY <1>1, <1>2, <2>1 DEF advance
    <3>2. advance(x) \in Readers(disk)
      BY <1>1, <1>2, <2>1, <3>1 DEF Readers, HasRow
    <3>3. Rest(disk, advance(x)) = others \o later
      BY <1>3, <1>5, <3>1 DEF Rest
    <3> QED
      BY <1>6, <3>2, <3>3 DEF Returns
  <2>2. CASE ~(i + 1 < n)
    <3>1. advance(x) = load_next_batch(x)
      BY <1>1, <1>2, <2>2 DEF advance
    <3>2. Returns(disk, load_next_batch(x), later)
      BY <1>1, <1>3, LoadFacts
    <3>3. others = <<>>
      <4>1. i + 1 \in Nat
        BY <1>1
      <4> QED
        BY <1>1, <1>2, <1>5, <2>2, <4>1, SuffixFacts
    <3>4. <<>> \o later = later
      BY ConcatEmptySeq
    <3> QED
      BY <3>1, <3>2, <3>3, <3>4
  <2> QED
    BY <2>1, <2>2
<1> QED
  BY <1>1, <1>4, <1>6, <1>7

\* A reader without a row has returned all of them.
LEMMA ExhaustedReturns ==
    ASSUME RowsSized(Rows), NEW x, NEW s, Returns(disk, x, s), ~HasRow(x)
    PROVE  s = <<>>
<1>1. PICK i \in Nat : /\ i = x.buf_idx /\ x.requests = <<>> /\ x.buffer = <<>>
                       /\ <<>> \in Seq(Requested(disk))
  BY DEF Returns, Readers
<1>2. Suffix(<<>>, i) = <<>>
  <2>1. <<>> \in Seq(Rows) /\ ~(i < Len(<<>>))
    OBVIOUS
  <2> QED
    BY <2>1, SuffixFacts
<1>3. ReadRows(disk, <<>>) = <<>>
  <2>1. Replies(disk, <<>>) = <<>>
    BY DEF Replies
  <2>2. \A u \in Seq(Seq(Rows)), v \in Seq(Rows) : FlattenSeq(<<>>) = <<>>
    BY FlattenAppend
  <2>3. <<>> \in Seq(Seq(Rows)) /\ <<>> \in Seq(Rows)
    OBVIOUS
  <2> QED
    BY <2>1, <2>2, <2>3, Zenon DEF ReadRows
<1>4. s = Suffix(<<>>, i) \o ReadRows(disk, <<>>)
  BY <1>1, Zenon DEF Returns, Rest
<1> QED
  BY <1>2, <1>3, <1>4

\* What the model calls the rows of some segments.
LEMMA SegmentRowsAre == \A segs : SegmentRows(segs) = SideRows(disk, segs)
  BY Zenon DEF SegmentRows, SideRows, ReadRows, Replies, Answer, RunRows
-----------------------------------------------------------------------------
\* The segments of a side hold the rows of S on a disk.
SideHolds(d, segs, S) ==
    \A p \in Partitions : /\ segs[p] \in Seq(Segments(d))
                          /\ Lists(SideRows(d, segs[p]), InPartition(S, p))

\* What a side holds is there on a later disk.
LEMMA SideLater ==
    ASSUME RowsSized(Rows), NEW d, NEW e, Later(d, e), NEW segs, NEW S, SideHolds(d, segs, S)
    PROVE  SideHolds(e, segs, S)
<1>1. ASSUME NEW p \in Partitions
      PROVE  /\ segs[p] \in Seq(Segments(e))
             /\ Lists(SideRows(e, segs[p]), InPartition(S, p))
  <2>1. PICK side \in Seq(Segments(d)) :
            side = segs[p] /\ Lists(SideRows(d, side), InPartition(S, p))
    BY DEF SideHolds
  <2>2. side \in Seq(Segments(e)) /\ SideRows(e, side) = SideRows(d, side)
    BY SegmentsLater
  <2> QED
    BY <2>1, <2>2, Zenon
<1> QED
  BY <1>1 DEF SideHolds

\* So is what a store holds.
LEMMA StoreLater ==
    ASSUME RowsSized(Rows), NEW store \in BoundedStores, NEW e \in Disks,
           Later(store.disk, e), NEW t, t = [disk |-> e, bufs |-> store.bufs]
    PROVE  t \in BoundedStores /\ \A S : StoreHolds(store, S) => StoreHolds(t, S)
<1>1. /\ store.bufs \in Buffers /\ t.disk = e /\ t.bufs = store.bufs
      /\ t \in [disk : Disks, bufs : Buffers]
      /\ \A p \in Partitions : /\ store.bufs.segments[p] \in Seq(Segments(store.disk))
                               /\ store.bufs.buf_bytes[p] = MemoryOf(store.bufs.buffers[p])
                               /\ store.bufs.buf_bytes[p] < FLUSH_THRESHOLD
  BY DEF BoundedStores, Stores
<1>2. ASSUME NEW p \in Partitions
      PROVE  t.bufs.segments[p] \in Seq(Segments(e)) /\ Contents(t, p) = Contents(store, p)
  <2>1. PICK segs \in Seq(Segments(store.disk)) : segs = store.bufs.segments[p]
    BY <1>1
  <2>2. segs \in Seq(Segments(e)) /\ SideRows(e, segs) = SideRows(store.disk, segs)
    BY SegmentsLater
  <2> QED
    BY <1>1, <2>1, <2>2 DEF Contents
<1>3. t \in BoundedStores
  BY <1>1, <1>2 DEF BoundedStores, Stores
<1>4. ASSUME NEW S, StoreHolds(store, S) PROVE StoreHolds(t, S)
  BY <1>2, <1>4, Zenon DEF StoreHolds
<1> QED
  BY <1>3, <1>4

\* New buffers hold nothing.
LEMMA NewStore ==
    ASSUME RowsSized(Rows), NEW d \in Disks, NEW t, t = [disk |-> d, bufs |-> NewBuffers]
    PROVE  t \in BoundedStores /\ StoreHolds(t, {})
<1>1. /\ NewBuffers.buffers = [p \in Partitions |-> <<>>]
      /\ NewBuffers.buf_bytes = [p \in Partitions |-> 0]
      /\ NewBuffers.segments = [p \in Partitions |-> <<>>]
  BY DEF NewBuffers
<1>2. <<>> \in Seq(Rows) /\ <<>> \in Seq(Run) /\ <<>> \in Seq(Segments(d))
  OBVIOUS
<1>3. NewBuffers \in Buffers
  BY <1>2 DEF NewBuffers, Buffers
<1>4. t \in [disk : Disks, bufs : Buffers] /\ t.disk = d /\ t.bufs = NewBuffers
  BY <1>3
<1>5. MemoryOf(<<>>) = 0
  BY <1>2, MemoryAppend, RowFacts
<1>6. \A p \in Partitions :
          /\ t.bufs.buffers[p] = <<>> /\ t.bufs.buf_bytes[p] = 0 /\ t.bufs.segments[p] = <<>>
  BY <1>1, <1>4
<1>7. t \in BoundedStores
  <2>1. ASSUME NEW p \in Partitions
        PROVE  /\ t.bufs.segments[p] \in Seq(Segments(t.disk))
               /\ t.bufs.buf_bytes[p] = MemoryOf(t.bufs.buffers[p])
               /\ t.bufs.buf_bytes[p] < FLUSH_THRESHOLD
    <3>1. t.bufs.segments[p] \in Seq(Segments(t.disk))
      BY <1>2, <1>4, <1>6, Zenon
    <3>2. t.bufs.buf_bytes[p] = MemoryOf(t.bufs.buffers[p])
      BY <1>5, <1>6, Zenon
    <3>3. 0 < FLUSH_THRESHOLD
      BY RowFacts
    <3> QED
      BY <1>6, <3>1, <3>2, <3>3, Zenon
  <2> QED
    BY <1>4, <2>1 DEF BoundedStores, Stores
<1>8. SideRows(d, <<>>) = <<>> /\ <<>> \o <<>> = <<>>
  <2>1. SideRows(d, <<>>) = <<>>
    <3>1. PICK segs \in Seq(Segments(d)) : segs = <<>>
      BY <1>2
    <3> QED
      BY SegmentsRead
  <2>2. <<>> \o <<>> = <<>>
    OBVIOUS
  <2> QED
    BY <2>1, <2>2
<1>9. ASSUME NEW p \in Partitions PROVE Lists(Contents(t, p), InPartition({}, p))
  <2>1. Contents(t, p) = <<>>
    BY <1>4, <1>6, <1>8, Zenon DEF Contents
  <2>2. Lists(<<>>, {}) /\ InPartition({}, p) = {}
    BY <1>2 DEF Lists, ToSet, IsInjective, InPartition
  <2> QED
    BY <2>1, <2>2, Zenon
<1> QED
  BY <1>7, <1>9 DEF StoreHolds
-----------------------------------------------------------------------------
RightRows == Pulled(right_input, right_pulled)

LeftRows == Pulled(left_input, left_pulled)

TypeOK ==
    /\ left_input \in LeftInputs /\ right_input \in RightInputs
    /\ left_pulled \in 0 .. Len(left_input) /\ right_pulled \in 0 .. Len(right_input)
    /\ phase \in {"Build", "Repartition", "PartitionLeft", "InMemory", "Partitioned"}
    /\ Store \in BoundedStores
    /\ cur_part \in 0 .. NUM_PARTITIONS
    /\ match_idx \in Nat /\ ended \in BOOLEAN
    /\ emitted \in Seq((Nat \ {0}) \X (Nat \ {0}))

\* Where the rows of both children are in the constructor, and after it.
Placed ==
    /\ phase \in {"Build", "InMemory"} => TableHolds(hash_table, RightRows)
    /\ phase = "Build" => StoreHolds(Store, {})
    /\ phase = "Repartition" => /\ TableHolds(hash_table, TableRows)
                                /\ TableRows \subseteq RightRows
                                /\ StoreHolds(Store, RightRows \ TableRows)
    /\ phase = "PartitionLeft" => StoreHolds(Store, LeftRows)
    /\ phase \in {"PartitionLeft", "Partitioned"} => SideHolds(disk, right_segs, RightRows)
    /\ phase = "Partitioned" => SideHolds(disk, left_segs, LeftRows)

\* How far the children are read in every phase, and that next() waits for the
\* constructor.
Pace ==
    /\ phase \in {"Build", "Repartition"} => left_pulled = 0
    /\ phase = "InMemory" => left_reader = NoReader
    /\ phase \in {"InMemory", "PartitionLeft", "Partitioned"} => right_pulled = Len(right_input)
    /\ phase = "Partitioned" => left_pulled = Len(left_input)
    /\ phase \in {"Build", "Repartition", "PartitionLeft"} =>
           /\ emitted = <<>> /\ ~ended
           /\ current_left = NoRow /\ left_reader = NoReader /\ cur_part = 0

\* The rows the reader has still to return.
Unread == ToSet(Rest(disk, left_reader[1]))

\* A reader is open on the partition whose right rows are in the table.
Reading ==
    left_reader # NoReader =>
        /\ phase = "Partitioned" /\ cur_part \in Partitions
        /\ left_reader[1] \in Readers(disk)
        /\ Lists(Rest(disk, left_reader[1]), Unread)
        /\ Unread \subseteq InPartition(LeftRows, cur_part)
        /\ TableHolds(hash_table, InPartition(RightRows, cur_part))

\* The left row that is being probed is of that partition, and has been read.
Probed ==
    current_left # NoRow =>
        /\ current_left \in LeftRows
        /\ phase = "Partitioned" =>
               /\ left_reader # NoReader
               /\ current_left \in InPartition(LeftRows, cur_part) \ Unread

\* The left rows whose turn has yet to come, and the matches of the present one.
Todo ==
    IF phase = "Partitioned"
    THEN {l \in LeftRows :
              \/ hash_partition(l.key) > cur_part
              \/ hash_partition(l.key) = cur_part /\ (left_reader # NoReader => l \in Unread)}
    ELSE ToSet(left_input) \ LeftRows

Coming == ToSet(Suffix(Matches, match_idx))

\* Of the pairs with equal keys, those have been returned whose left row had its
\* turn and whose right row is no match that is still to come.
Returned ==
    phase \in {"InMemory", "Partitioned"} =>
        \A pair \in KeysMatch :
            pair \in ToSet(emitted) <=>
                /\ left_input[pair[1]] \notin Todo
                /\ left_input[pair[1]] = current_left => right_input[pair[2]] \notin Coming

IInv == TypeOK /\ Placed /\ Pace /\ Reading /\ Probed /\ Returned

\* The rows pulled so far.
LEMMA PulledRows ==
    ASSUME TypeOK
    PROVE  /\ LeftRows \subseteq ToSet(left_input) /\ RightRows \subseteq ToSet(right_input)
           /\ ToSet(left_input) \subseteq Rows /\ ToSet(right_input) \subseteq Rows
           /\ left_pulled = 0 => LeftRows = {}
           /\ right_pulled = 0 => RightRows = {}
           /\ left_pulled = Len(left_input) => LeftRows = ToSet(left_input)
           /\ right_pulled = Len(right_input) => RightRows = ToSet(right_input)
<1>1. ASSUME NEW stream \in LeftInputs \cup RightInputs, NEW n \in 0 .. Len(stream)
      PROVE  /\ Pulled(stream, n) \subseteq ToSet(stream) /\ ToSet(stream) \subseteq Rows
             /\ n = 0 => Pulled(stream, n) = {}
             /\ n = Len(stream) => Pulled(stream, n) = ToSet(stream)
  <2>1. /\ Len(stream) \in Nat /\ ToSet(stream) = Pulled(stream, Len(stream))
        /\ \A i \in 1 .. Len(stream) : stream[i] \in Rows
    BY StreamFacts
  <2>2. \A i \in 1 .. n : i \in 1 .. Len(stream)
    BY <2>1
  <2>3. Pulled(stream, n) \subseteq Pulled(stream, Len(stream))
    BY <2>2 DEF Pulled
  <2>4. Pulled(stream, Len(stream)) \subseteq Rows
    BY <2>1 DEF Pulled
  <2>5. n = 0 => Pulled(stream, n) = {}
    BY PullFacts
  <2> QED
    BY <2>1, <2>3, <2>4, <2>5
<1>2. /\ LeftRows \subseteq ToSet(left_input) /\ ToSet(left_input) \subseteq Rows
      /\ left_pulled = 0 => LeftRows = {}
      /\ left_pulled = Len(left_input) => LeftRows = ToSet(left_input)
  BY <1>1 DEF LeftRows, TypeOK
<1>3. /\ RightRows \subseteq ToSet(right_input) /\ ToSet(right_input) \subseteq Rows
      /\ right_pulled = 0 => RightRows = {}
      /\ right_pulled = Len(right_input) => RightRows = ToSet(right_input)
  BY <1>1 DEF RightRows, TypeOK
<1> QED
  BY <1>2, <1>3

\* A pair of KeysMatch names two rows with the same key, and every two such rows
\* are named by a pair.
LEMMA MatchFacts ==
    ASSUME TypeOK
    PROVE  /\ \A pair \in KeysMatch :
                  /\ pair = <<left_input[pair[1]].id, right_input[pair[2]].id>>
                  /\ pair \in (Nat \ {0}) \X (Nat \ {0})
                  /\ left_input[pair[1]] \in ToSet(left_input)
                  /\ right_input[pair[2]] \in ToSet(right_input)
                  /\ left_input[pair[1]].key = right_input[pair[2]].key
           /\ \A l \in ToSet(left_input), r \in ToSet(right_input) :
                  l.key = r.key => /\ <<l.id, r.id>> \in KeysMatch
                                   /\ left_input[l.id] = l /\ right_input[r.id] = r
           /\ NoRow \notin ToSet(left_input)
<1>1. PICK m \in Nat, n \in Nat :
          /\ m = Len(left_input) /\ DOMAIN left_input = 1 .. m
          /\ n = Len(right_input) /\ DOMAIN right_input = 1 .. n
          /\ \A i \in 1 .. m : left_input[i].id = i
          /\ \A i \in 1 .. n : right_input[i].id = i
  <2>1. left_input \in LeftInputs \cup RightInputs /\ right_input \in LeftInputs \cup RightInputs
    BY DEF TypeOK
  <2> QED
    BY <2>1, StreamFacts
<1>2. ASSUME NEW pair \in KeysMatch
      PROVE  /\ pair = <<left_input[pair[1]].id, right_input[pair[2]].id>>
             /\ pair \in (Nat \ {0}) \X (Nat \ {0})
             /\ left_input[pair[1]] \in ToSet(left_input)
             /\ right_input[pair[2]] \in ToSet(right_input)
             /\ left_input[pair[1]].key = right_input[pair[2]].key
  <2>1. PICK i \in 1 .. m, j \in 1 .. n :
            pair = <<i, j>> /\ left_input[i].key = right_input[j].key
    BY <1>1 DEF KeysMatch
  <2>2. pair[1] = i /\ pair[2] = j
    BY <2>1
  <2> QED
    BY <1>1, <2>1, <2>2 DEF ToSet
<1>3. ASSUME NEW l \in ToSet(left_input), NEW r \in ToSet(right_input), l.key = r.key
      PROVE  <<l.id, r.id>> \in KeysMatch /\ left_input[l.id] = l /\ right_input[r.id] = r
  <2>1. PICK i \in 1 .. m, j \in 1 .. n : l = left_input[i] /\ r = right_input[j]
    BY <1>1 DEF ToSet
  <2>2. l.id = i /\ r.id = j
    BY <1>1, <2>1
  <2>3. <<i, j>> \in KeysMatch
    BY <1>1, <1>3, <2>1 DEF KeysMatch
  <2> QED
    BY <2>1, <2>2, <2>3
<1>4. NoRow \notin ToSet(left_input)
  <2>1. ASSUME NEW i \in 1 .. m, left_input[i] = NoRow PROVE FALSE
    <3>1. NoRow.id = 0
      BY DEF NoRow
    <3> QED
      BY <1>1, <2>1, <3>1
  <2> QED
    BY <1>1, <2>1 DEF ToSet
<1> QED
  BY <1>2, <1>3, <1>4
-----------------------------------------------------------------------------
\* While the constructor runs, nothing is probed.
LEMMA Constructing ==
    ASSUME Pace, phase \in {"Build", "Repartition", "PartitionLeft"},
           phase' \in {"Build", "Repartition", "PartitionLeft"},
           UNCHANGED <<left_reader, current_left>>
    PROVE  Reading' /\ Probed' /\ Returned'
<1>1. left_reader' = NoReader /\ current_left' = NoRow
  BY DEF Pace, NoReader, NoRow
<1> QED
  BY <1>1 DEF Reading, Probed, Returned, NoReader, NoRow

\* The blocks a child spills are written behind all others.
LEMMA ChildSpillKeeps ==
    ASSUME RowsSized(Rows), IInv, ChildSpill
    PROVE  IInv'
<1>1. PICK n \in Nat : disk' = Spill(disk, [i \in 1 .. n |-> EmptyBlock])
  BY HashJoinAssumption DEF ChildSpill
<1>2. /\ phase \in {"Build", "PartitionLeft"} /\ phase' = phase /\ Store \in BoundedStores
      /\ UNCHANGED <<inputVars, pulledVars, hash_table, right_bytes, bufs, segVars,
                     probeVars, outVars>>
      /\ TypeOK /\ Placed /\ Pace
  BY DEF ChildSpill, IInv, TypeOK
<1>3. [i \in 1 .. n |-> EmptyBlock] \in Seq(PackedBlocks(Rows))
  <2>1. EmptyBlock \in PackedBlocks(Rows)
    BY BlockFacts
  <2> QED
    BY <2>1
<1>4. disk \in Disks
  BY <1>2 DEF BoundedStores, Stores, Store
<1>5. disk' \in Disks /\ Later(disk, disk')
  <2>1. PICK blocks \in Seq(PackedBlocks(Rows)) : blocks = [i \in 1 .. n |-> EmptyBlock]
    BY <1>3
  <2>2. disk' = Spill(disk, blocks)
    BY <1>1, <2>1, Zenon
  <2> QED
    BY <1>4, <2>2, SpillIsLater
<1>6. Store' \in BoundedStores /\ \A S : StoreHolds(Store, S) => StoreHolds(Store', S)
  <2>1. Store.disk = disk /\ Store' = [disk |-> disk', bufs |-> Store.bufs]
    BY <1>2 DEF Store
  <2> QED
    BY <1>2, <1>5, <2>1, StoreLater
<1>7. \A segs, S : SideHolds(disk, segs, S) => SideHolds(disk', segs, S)
  BY <1>5, SideLater
<1>8. /\ RightRows' = RightRows /\ LeftRows' = LeftRows /\ TableRows' = TableRows
      /\ left_segs' = left_segs /\ right_segs' = right_segs
  BY <1>2 DEF inputVars, pulledVars, segVars, RightRows, LeftRows, TableRows
<1>9. TypeOK'
  BY <1>2, <1>6
  DEF TypeOK, inputVars, pulledVars, probeVars, outVars
<1>10. Placed'
  <2>1. phase = "Build" => TableHolds(hash_table', RightRows') /\ StoreHolds(Store', {})
    BY <1>2, <1>6, <1>8 DEF Placed
  <2>2. phase = "PartitionLeft" => /\ StoreHolds(Store', LeftRows')
                                   /\ SideHolds(disk', right_segs', RightRows')
    BY <1>2, <1>6, <1>7, <1>8 DEF Placed
  <2> QED
    BY <1>2, <2>1, <2>2 DEF Placed
<1>11. Pace'
  BY <1>2 DEF Pace, inputVars, pulledVars, probeVars, outVars, NoReader, NoRow
<1>12. Reading' /\ Probed' /\ Returned'
  BY <1>2, Constructing DEF probeVars
<1> QED
  BY <1>9, <1>10, <1>11, <1>12 DEF IInv

\* A row enters the table.
LEMMA BuildKeeps ==
    ASSUME RowsSized(Rows), IInv, Build
    PROVE  IInv'
<1>1. PICK row : row = right_input[right_pulled + 1]
  OBVIOUS
<1>2. /\ phase = "Build" /\ phase' \in {"Build", "Repartition"}
      /\ right_pulled < Len(right_input) /\ right_pulled' = right_pulled + 1
      /\ hash_table' = TableInsert(hash_table, row)
      /\ UNCHANGED <<inputVars, left_pulled, disk, bufs, segVars, probeVars, outVars>>
  BY <1>1 DEF Build
<1>3. /\ TypeOK /\ Placed /\ Pace /\ right_input \in RightInputs
      /\ right_pulled \in 0 .. Len(right_input) /\ Len(right_input) \in Nat
  BY StreamFacts DEF IInv, TypeOK
<1>4. /\ row \in Rows \ RightRows /\ RightRows' = RightRows \cup {row}
  <2>1. right_input' = right_input
    BY <1>2 DEF inputVars
  <2> QED
    BY <1>1, <1>2, <1>3, <2>1, PullFacts DEF RightRows
<1>5. TableHolds(hash_table', RightRows')
  <2>1. TableHolds(hash_table, RightRows)
    BY <1>2, <1>3 DEF Placed
  <2>2. TableHolds(TableInsert(hash_table, row), RightRows \cup {row})
    BY <1>4, <2>1, InsertHolds
  <2> QED
    BY <1>2, <1>4, <2>2, Zenon
<1>6. TableRows' = RightRows'
  BY <1>5, TableRowsAre DEF TableRows
<1>7. Store' = Store /\ StoreHolds(Store, {})
  BY <1>2, <1>3 DEF Store, Placed
<1>8. TypeOK'
  BY <1>2, <1>3, <1>7 DEF TypeOK, inputVars, probeVars, outVars
<1>9. Placed'
  <2>1. RightRows' \ TableRows' = {}
    BY <1>6
  <2> QED
    BY <1>2, <1>5, <1>6, <1>7, <2>1 DEF Placed
<1>10. Pace'
  BY <1>2, <1>3 DEF Pace, probeVars, outVars, NoReader, NoRow
<1>11. Reading' /\ Probed' /\ Returned'
  BY <1>2, <1>3, Constructing DEF probeVars
<1> QED
  BY <1>8, <1>9, <1>10, <1>11 DEF IInv

\* An entry of the table goes to its partition.
LEMMA RepartitionEntryKeeps ==
    ASSUME RowsSized(Rows), IInv, RepartitionEntry
    PROVE  IInv'
<1>1. PICK key \in DOMAIN hash_table :
          /\ StoreBecomes(FoldLeft(push, Store, hash_table[key]))
          /\ hash_table' = [k \in DOMAIN hash_table \ {key} |-> hash_table[k]]
  BY DEF RepartitionEntry
<1>2. /\ phase = "Repartition" /\ phase' = phase
      /\ UNCHANGED <<inputVars, pulledVars, right_bytes, segVars, probeVars, outVars>>
  BY DEF RepartitionEntry
<1>3. /\ TypeOK /\ Pace /\ Store \in BoundedStores
      /\ TableHolds(hash_table, TableRows) /\ TableRows \subseteq RightRows
      /\ StoreHolds(Store, RightRows \ TableRows)
  BY <1>2 DEF IInv, TypeOK, Placed
<1>4. PICK T : T = Keyed(TableRows, key)
  OBVIOUS
<1>5. Lists(hash_table[key], T) /\ T \subseteq TableRows
  BY <1>3, <1>4 DEF TableHolds, Keyed
<1>6. PICK t : t = FoldLeft(push, Store, hash_table[key])
  OBVIOUS
<1>7. Keeps(Store, t, (RightRows \ TableRows) \cup T)
  <2>1. (RightRows \ TableRows) \cap T = {}
    BY <1>5
  <2> QED
    BY <1>3, <1>5, <1>6, <2>1, PushAll
<1>8. Store' = t /\ t \in BoundedStores
  <2>1. t \in [disk : Disks, bufs : Buffers] /\ disk' = t.disk /\ bufs' = t.bufs
    BY <1>1, <1>6, <1>7 DEF StoreBecomes, Keeps, BoundedStores, Stores
  <2> QED
    BY <1>7, <2>1 DEF Store, Keeps
<1>9. TableHolds(hash_table', TableRows \ T)
  BY <1>1, <1>3, <1>4, DrainHolds
<1>10. TableRows' = TableRows \ T
  BY <1>9, TableRowsAre DEF TableRows
<1>11. RightRows' = RightRows
  BY <1>2 DEF RightRows, inputVars, pulledVars
<1>12. RightRows \ (TableRows \ T) = (RightRows \ TableRows) \cup T
  BY <1>3, <1>5
<1>13. TypeOK'
  BY <1>2, <1>3, <1>8 DEF TypeOK, inputVars, pulledVars, probeVars, outVars
<1>14. Placed'
  <2>1. StoreHolds(Store', RightRows' \ TableRows')
    BY <1>7, <1>8, <1>10, <1>11, <1>12, Zenon DEF Keeps
  <2>2. TableHolds(hash_table', TableRows') /\ TableRows' \subseteq RightRows'
    BY <1>3, <1>9, <1>10, <1>11
  <2> QED
    BY <1>2, <2>1, <2>2 DEF Placed
<1>15. Pace'
  BY <1>2, <1>3 DEF Pace, inputVars, pulledVars, probeVars, outVars, NoReader, NoRow
<1>16. Reading' /\ Probed' /\ Returned'
  BY <1>2, <1>3, Constructing DEF probeVars
<1> QED
  BY <1>13, <1>14, <1>15, <1>16 DEF IInv

\* A row of the right child that the table did not take.
LEMMA PartitionRightKeeps ==
    ASSUME RowsSized(Rows), IInv, PartitionRight
    PROVE  IInv'
<1>1. PICK row : row = right_input[right_pulled + 1]
  OBVIOUS
<1>2. /\ phase = "Repartition" /\ phase' = phase /\ DOMAIN hash_table = {}
      /\ right_pulled < Len(right_input) /\ right_pulled' = right_pulled + 1
      /\ StoreBecomes(push(Store, row)) /\ hash_table' = hash_table
      /\ UNCHANGED <<inputVars, left_pulled, right_bytes, segVars, probeVars, outVars>>
  BY <1>1 DEF PartitionRight
<1>3. /\ TypeOK /\ Pace /\ Store \in BoundedStores
      /\ TableHolds(hash_table, TableRows)
      /\ StoreHolds(Store, RightRows \ TableRows)
  BY <1>2 DEF IInv, TypeOK, Placed
<1>4. TableRows = {} /\ TableRows' = {}
  BY <1>2 DEF TableRows
<1>5. row \in Rows \ RightRows /\ RightRows' = RightRows \cup {row}
  <2>1. right_input' = right_input
    BY <1>2 DEF inputVars
  <2>2. right_input \in RightInputs /\ right_pulled \in 0 .. Len(right_input)
    BY <1>3 DEF TypeOK
  <2> QED
    BY <1>1, <1>2, <2>1, <2>2, PullFacts DEF RightRows
<1>6. PICK t : t = push(Store, row)
  OBVIOUS
<1>7. Keeps(Store, t, RightRows \cup {row})
  <2>1. RightRows \ TableRows = RightRows
    BY <1>4
  <2>2. StoreHolds(Store, RightRows)
    BY <1>3, <2>1, Zenon
  <2> QED
    BY <1>3, <1>5, <1>6, <2>2, PushHolds
<1>8. Store' = t /\ t \in BoundedStores
  <2>1. t \in [disk : Disks, bufs : Buffers] /\ disk' = t.disk /\ bufs' = t.bufs
    BY <1>2, <1>6, <1>7 DEF StoreBecomes, Keeps, BoundedStores, Stores
  <2> QED
    BY <1>7, <2>1 DEF Store, Keeps
<1>9. TypeOK'
  <2>1. right_pulled' \in 0 .. Len(right_input)
    BY <1>2, <1>3, StreamFacts DEF TypeOK
  <2> QED
    BY <1>2, <1>3, <1>8, <2>1 DEF TypeOK, inputVars, probeVars, outVars
<1>10. Placed'
  <2>1. RightRows' \ TableRows' = RightRows \cup {row}
    BY <1>4, <1>5
  <2>2. StoreHolds(Store', RightRows' \ TableRows')
    BY <1>7, <1>8, <2>1, Zenon DEF Keeps
  <2>3. TableHolds(hash_table', TableRows') /\ TableRows' \subseteq RightRows'
    BY <1>2, <1>3, <1>4
  <2> QED
    BY <1>2, <2>2, <2>3 DEF Placed
<1>11. Pace'
  BY <1>2, <1>3 DEF Pace, probeVars, outVars, NoReader, NoRow
<1>12. Reading' /\ Probed' /\ Returned'
  BY <1>2, <1>3, Constructing DEF probeVars
<1> QED
  BY <1>9, <1>10, <1>11, <1>12 DEF IInv

\* All right rows are on the disk.
LEMMA FinishRightKeeps ==
    ASSUME RowsSized(Rows), IInv, FinishRight
    PROVE  IInv'
<1>1. PICK t : t = finish(Store)
  OBVIOUS
<1>2. /\ phase = "Repartition" /\ phase' = "PartitionLeft" /\ DOMAIN hash_table = {}
      /\ right_pulled = Len(right_input) /\ disk' = t.disk /\ bufs' = NewBuffers
      /\ right_segs' = t.bufs.segments
      /\ UNCHANGED <<inputVars, pulledVars, hash_table, right_bytes, left_segs, probeVars,
                     outVars>>
  BY <1>1 DEF FinishRight
<1>3. /\ TypeOK /\ Pace /\ Store \in BoundedStores /\ left_pulled = 0
      /\ StoreHolds(Store, RightRows \ TableRows)
  BY <1>2 DEF IInv, TypeOK, Placed, Pace
<1>4. StoreHolds(Store, RightRows)
  <2>1. RightRows \ TableRows = RightRows
    BY <1>2 DEF TableRows
  <2> QED
    BY <1>3, <2>1, Zenon
<1>5. /\ Keeps(Store, t, RightRows)
      /\ \A p \in Partitions : /\ t.bufs.segments[p] \in Seq(Segments(t.disk))
                               /\ Lists(SideRows(t.disk, t.bufs.segments[p]),
                                        InPartition(RightRows, p))
  BY <1>1, <1>3, <1>4, FinishHolds
<1>6. Store' \in BoundedStores /\ StoreHolds(Store', {})
  <2>1. disk' \in Disks
    BY <1>2, <1>5 DEF Keeps, BoundedStores, Stores
  <2>2. Store' = [disk |-> disk', bufs |-> NewBuffers]
    BY <1>2 DEF Store
  <2> QED
    BY <2>1, <2>2, NewStore
<1>7. RightRows' = RightRows /\ LeftRows' = LeftRows /\ LeftRows = {}
  BY <1>2, <1>3, PulledRows DEF RightRows, LeftRows, inputVars, pulledVars
<1>8. SideHolds(disk', right_segs', RightRows')
  BY <1>2, <1>5, <1>7 DEF SideHolds
<1>9. TypeOK'
  BY <1>2, <1>3, <1>6 DEF TypeOK, inputVars, pulledVars, probeVars, outVars
<1>10. Placed'
  BY <1>2, <1>6, <1>7, <1>8 DEF Placed
<1>11. Pace'
  BY <1>2, <1>3 DEF Pace, inputVars, pulledVars, probeVars, outVars, NoReader, NoRow
<1>12. Reading' /\ Probed' /\ Returned'
  BY <1>2, <1>3, Constructing DEF probeVars
<1> QED
  BY <1>9, <1>10, <1>11, <1>12 DEF IInv

\* A row of the left child.
LEMMA PartitionLeftKeeps ==
    ASSUME RowsSized(Rows), IInv, PartitionLeft
    PROVE  IInv'
<1>1. PICK row : row = left_input[left_pulled + 1]
  OBVIOUS
<1>2. /\ phase = "PartitionLeft" /\ phase' = phase
      /\ left_pulled < Len(left_input) /\ left_pulled' = left_pulled + 1
      /\ StoreBecomes(push(Store, row))
      /\ UNCHANGED <<inputVars, right_pulled, hash_table, right_bytes, segVars, probeVars,
                     outVars>>
  BY <1>1 DEF PartitionLeft
<1>3. /\ TypeOK /\ Pace /\ Store \in BoundedStores
      /\ SideHolds(disk, right_segs, RightRows) /\ StoreHolds(Store, LeftRows)
  BY <1>2 DEF IInv, TypeOK, Placed
<1>4. row \in Rows \ LeftRows /\ LeftRows' = LeftRows \cup {row} /\ RightRows' = RightRows
  <2>1. left_input' = left_input /\ right_input' = right_input /\ right_pulled' = right_pulled
    BY <1>2 DEF inputVars
  <2>2. left_input \in LeftInputs /\ left_pulled \in 0 .. Len(left_input)
    BY <1>3 DEF TypeOK
  <2> QED
    BY <1>1, <1>2, <2>1, <2>2, PullFacts DEF LeftRows, RightRows
<1>5. PICK t : t = push(Store, row)
  OBVIOUS
<1>6. Keeps(Store, t, LeftRows \cup {row})
  BY <1>3, <1>4, <1>5, PushHolds
<1>7. Store' = t /\ t \in BoundedStores
  <2>1. t \in [disk : Disks, bufs : Buffers] /\ disk' = t.disk /\ bufs' = t.bufs
    BY <1>2, <1>5, <1>6 DEF StoreBecomes, Keeps, BoundedStores, Stores
  <2> QED
    BY <1>6, <2>1 DEF Store, Keeps
<1>8. SideHolds(disk', right_segs', RightRows')
  <2>1. Later(disk, disk')
    BY <1>2, <1>5, <1>6 DEF Keeps, Store, StoreBecomes
  <2>2. SideHolds(disk', right_segs, RightRows)
    BY <1>3, <2>1, SideLater
  <2> QED
    BY <1>2, <1>4, <2>2 DEF segVars
<1>9. TypeOK'
  <2>1. left_pulled' \in 0 .. Len(left_input)
    BY <1>2, <1>3, StreamFacts DEF TypeOK
  <2> QED
    BY <1>2, <1>3, <1>7, <2>1 DEF TypeOK, inputVars, probeVars, outVars
<1>10. Placed'
  <2>1. StoreHolds(Store', LeftRows')
    BY <1>4, <1>6, <1>7, Zenon DEF Keeps
  <2> QED
    BY <1>2, <1>8, <2>1 DEF Placed
<1>11. Pace'
  BY <1>2, <1>3 DEF Pace, inputVars, probeVars, outVars, NoReader, NoRow
<1>12. Reading' /\ Probed' /\ Returned'
  BY <1>2, <1>3, Constructing DEF probeVars
<1> QED
  BY <1>9, <1>10, <1>11, <1>12 DEF IInv

\* All left rows are on the disk, and next() begins with the first partition.
LEMMA FinishLeftKeeps ==
    ASSUME RowsSized(Rows), IInv, FinishLeft
    PROVE  IInv'
<1>1. PICK t : t = finish(Store)
  OBVIOUS
<1>2. /\ phase = "PartitionLeft" /\ phase' = "Partitioned"
      /\ left_pulled = Len(left_input) /\ disk' = t.disk /\ bufs' = NewBuffers
      /\ left_segs' = t.bufs.segments
      /\ UNCHANGED <<inputVars, pulledVars, hash_table, right_bytes, right_segs, probeVars,
                     outVars>>
  BY <1>1 DEF FinishLeft
<1>3. /\ TypeOK /\ Pace /\ Store \in BoundedStores
      /\ StoreHolds(Store, LeftRows) /\ SideHolds(disk, right_segs, RightRows)
      /\ emitted = <<>> /\ ~ended /\ current_left = NoRow /\ left_reader = NoReader
      /\ cur_part = 0 /\ right_pulled = Len(right_input)
  BY <1>2 DEF IInv, TypeOK, Placed, Pace
<1>4. /\ Keeps(Store, t, LeftRows)
      /\ \A p \in Partitions : /\ t.bufs.segments[p] \in Seq(Segments(t.disk))
                               /\ Lists(SideRows(t.disk, t.bufs.segments[p]),
                                        InPartition(LeftRows, p))
  BY <1>1, <1>3, FinishHolds
<1>5. Store' \in BoundedStores
  <2>1. disk' \in Disks
    BY <1>2, <1>4 DEF Keeps, BoundedStores, Stores
  <2>2. Store' = [disk |-> disk', bufs |-> NewBuffers]
    BY <1>2 DEF Store
  <2> QED
    BY <2>1, <2>2, NewStore
<1>6. /\ RightRows' = RightRows /\ LeftRows' = LeftRows /\ LeftRows = ToSet(left_input)
      /\ LeftRows \subseteq Rows
  BY <1>2, <1>3, PulledRows DEF RightRows, LeftRows, inputVars, pulledVars
<1>7. SideHolds(disk', left_segs', LeftRows')
  BY <1>2, <1>4, <1>6 DEF SideHolds
<1>8. SideHolds(disk', right_segs', RightRows')
  <2>1. Later(disk, disk')
    BY <1>2, <1>4 DEF Keeps, Store
  <2>2. SideHolds(disk', right_segs, RightRows)
    BY <1>3, <2>1, SideLater
  <2> QED
    BY <1>2, <1>6, <2>2
<1>9. TypeOK'
  BY <1>2, <1>3, <1>5 DEF TypeOK, inputVars, pulledVars, probeVars, outVars
<1>10. Placed'
  BY <1>2, <1>7, <1>8 DEF Placed
<1>11. /\ left_reader' = NoReader /\ current_left' = NoRow /\ cur_part' = 0
       /\ emitted' = <<>> /\ left_input' = left_input /\ right_input' = right_input
  BY <1>2, <1>3 DEF inputVars, probeVars, outVars, NoReader, NoRow
<1>12. Pace'
  BY <1>2, <1>3, <1>11 DEF Pace, inputVars, pulledVars
<1>13. Reading' /\ Probed'
  BY <1>11 DEF Reading, Probed, NoReader, NoRow
<1>14. Returned'
  <2>1. Todo' = LeftRows
    <3>1. \A l \in LeftRows : hash_partition(l.key) > 0 \/ hash_partition(l.key) = 0
      <4>1. \A p \in Partitions : p > 0 \/ p = 0
        BY RowFacts DEF Partitions
      <4> QED
        BY <1>6, <4>1, RowFacts
    <3> QED
      BY <1>2, <1>6, <1>11, <3>1 DEF Todo, NoReader
  <2>2. KeysMatch' = KeysMatch
    BY <1>11 DEF KeysMatch
  <2>3. \A pair \in KeysMatch : left_input[pair[1]] \in LeftRows
    BY <1>3, <1>6, MatchFacts
  <2>4. ToSet(emitted') = {}
    BY <1>11 DEF ToSet
  <2> QED
    BY <1>11, <2>1, <2>2, <2>3, <2>4 DEF Returned
<1> QED
  BY <1>9, <1>10, <1>12, <1>13, <1>14 DEF IInv

\* The whole right child is in the table.
LEMMA BuiltInMemoryKeeps ==
    ASSUME IInv, BuiltInMemory
    PROVE  IInv'
<1>1. /\ phase = "Build" /\ phase' = "InMemory" /\ right_pulled = Len(right_input)
      /\ UNCHANGED <<inputVars, pulledVars, disk, hash_table, right_bytes, bufs, segVars,
                     probeVars, outVars>>
  BY DEF BuiltInMemory
<1>2. /\ TypeOK /\ Pace /\ Store \in BoundedStores /\ TableHolds(hash_table, RightRows)
      /\ emitted = <<>> /\ ~ended /\ current_left = NoRow /\ left_reader = NoReader
      /\ left_pulled = 0
  BY <1>1 DEF IInv, TypeOK, Placed, Pace
<1>3. RightRows' = RightRows /\ LeftRows' = {} /\ Store' = Store
  BY <1>1, <1>2, PulledRows DEF RightRows, LeftRows, inputVars, pulledVars, Store
<1>4. /\ left_reader' = NoReader /\ current_left' = NoRow
      /\ emitted' = <<>> /\ left_input' = left_input /\ right_input' = right_input
  BY <1>1, <1>2 DEF inputVars, probeVars, outVars, NoReader, NoRow
<1>5. TypeOK'
  BY <1>1, <1>2, <1>3 DEF TypeOK, inputVars, pulledVars, probeVars, outVars
<1>6. Placed' /\ Pace'
  BY <1>1, <1>2, <1>3, <1>4 DEF Placed, Pace, inputVars, pulledVars
<1>7. Reading' /\ Probed'
  BY <1>4 DEF Reading, Probed, NoReader, NoRow
<1>8. Returned'
  <2>1. Todo' = ToSet(left_input)
    BY <1>1, <1>3, <1>4 DEF Todo
  <2>2. KeysMatch' = KeysMatch
    BY <1>4 DEF KeysMatch
  <2>3. \A pair \in KeysMatch : left_input[pair[1]] \in ToSet(left_input)
    BY <1>2, MatchFacts
  <2>4. ToSet(emitted') = {}
    BY <1>4 DEF ToSet
  <2> QED
    BY <1>4, <2>1, <2>2, <2>3, <2>4 DEF Returned
<1> QED
  BY <1>5, <1>6, <1>7, <1>8 DEF IInv
-----------------------------------------------------------------------------
\* A list from its k-th row on.
LEMMA SuffixLists ==
    ASSUME NEW s \in Seq(Rows), IsInjective(s), NEW k \in Nat
    PROVE  /\ Lists(Suffix(s, k), ToSet(Suffix(s, k))) /\ ToSet(Suffix(s, k)) \subseteq ToSet(s)
           /\ ~(k < Len(s)) => ToSet(Suffix(s, k)) = {}
           /\ k < Len(s) => /\ s[k + 1] \in ToSet(Suffix(s, k))
                            /\ ToSet(Suffix(s, k + 1)) = ToSet(Suffix(s, k)) \ {s[k + 1]}
<1> DEFINE T == {j \in Nat : /\ Lists(Suffix(s, j), ToSet(Suffix(s, j)))
                             /\ ToSet(Suffix(s, j)) \subseteq ToSet(s)}
<1>1. 0 \in T
  BY SuffixFacts DEF Lists
<1>2. ASSUME NEW j \in Nat, j \in T, j < Len(s)
      PROVE  /\ j + 1 \in T /\ s[j + 1] \in ToSet(Suffix(s, j))
             /\ ToSet(Suffix(s, j + 1)) = ToSet(Suffix(s, j)) \ {s[j + 1]}
  <2>1. PICK row, u : row \in Rows /\ row = s[j + 1] /\ u = Suffix(s, j + 1)
    <3>1. s[j + 1] \in Rows
      BY <1>2, SuffixFacts
    <3> QED
      BY <3>1
  <2>2. u \in Seq(Rows) /\ Suffix(s, j) = <<row>> \o u
    <3>1. j + 1 \in Nat
      OBVIOUS
    <3>2. Suffix(s, j + 1) \in Seq(Rows)
      BY <3>1, SuffixFacts
    <3> QED
      BY <1>2, <2>1, <3>2, SuffixFacts
  <2>3. PICK S : S = ToSet(Suffix(s, j)) /\ S \subseteq ToSet(s)
    BY <1>2
  <2>4. Lists(<<row>> \o u, S)
    BY <1>2, <2>2, <2>3
  <2>5. row \in S /\ Lists(u, S \ {row})
    BY <2>1, <2>2, <2>4, ListsTail
  <2>6. ToSet(u) = S \ {row}
    BY <2>5 DEF Lists
  <2>7. j + 1 \in T
    <3>1. PICK m \in Nat : m = j + 1 /\ u = Suffix(s, m)
      BY <2>1
    <3>2. Lists(Suffix(s, m), ToSet(Suffix(s, m)))
      BY <2>5, <2>6, <3>1, Zenon
    <3>3. ToSet(Suffix(s, m)) \subseteq ToSet(s)
      BY <2>3, <2>6, <3>1
    <3>4. m \in T
      BY <3>2, <3>3
    <3> QED
      BY <3>1, <3>4
  <2> HIDE DEF T
  <2> QED
    BY <2>1, <2>3, <2>5, <2>6, <2>7
<1>3. ASSUME NEW j \in Nat, ~(j < Len(s)) PROVE j \in T /\ ToSet(Suffix(s, j)) = {}
  <2>1. Suffix(s, j) = <<>>
    BY <1>3, SuffixFacts
  <2> QED
    BY <2>1 DEF Lists, ToSet, IsInjective
<1> HIDE DEF T
<1>4. \A j \in Nat : j \in T => j + 1 \in T
  <2>1. ASSUME NEW j \in Nat, j \in T PROVE j + 1 \in T
    <3>1. CASE j < Len(s)
      BY <1>2, <2>1, <3>1
    <3>2. CASE ~(j < Len(s))
      <4>1. j + 1 \in Nat /\ ~(j + 1 < Len(s))
        BY <3>2, LenProperties
      <4> QED
        BY <1>3, <4>1
    <3> QED
      BY <3>1, <3>2
  <2> QED
    BY <2>1
<1>5. k \in T
  BY <1>1, <1>4, SetInduction
<1> QED
  BY <1>2, <1>3, <1>5 DEF T

\* The matches of the left row that is being probed are all the right rows with
\* its key, and its turn has come.
LEMMA MatchesAre ==
    ASSUME IInv
    PROVE  /\ Matches \in Seq(Rows) /\ IsInjective(Matches)
           /\ current_left # NoRow =>
                  /\ ToSet(Matches) = Keyed(ToSet(right_input), current_left.key)
                  /\ current_left \in ToSet(left_input) \ Todo
<1>1. TypeOK /\ Placed /\ Pace /\ Reading /\ Probed
  BY DEF IInv
<1>2. CASE current_left = NoRow
  <2>1. Matches = <<>>
    BY <1>2 DEF Matches
  <2> QED
    BY <1>2, <2>1 DEF IsInjective
<1>3. CASE current_left # NoRow
  <2>1. /\ phase \in {"InMemory", "Partitioned"} /\ right_pulled = Len(right_input)
        /\ RightRows = ToSet(right_input) /\ current_left \in ToSet(left_input)
        /\ Matches = Bucket(hash_table, current_left.key)
    BY <1>1, <1>3, PulledRows DEF TypeOK, Pace, Probed, Matches
  <2>2. Lists(Matches, Keyed(ToSet(right_input), current_left.key))
    <3>1. CASE phase = "InMemory"
      <4>1. TableHolds(hash_table, ToSet(right_input))
        BY <1>1, <2>1, <3>1 DEF Placed
      <4> QED
        BY <2>1, <4>1, BucketLists
    <3>2. CASE phase = "Partitioned"
      <4>1. PICK S : S = InPartition(ToSet(right_input), cur_part)
        OBVIOUS
      <4>2. TableHolds(hash_table, S) /\ hash_partition(current_left.key) = cur_part
        BY <1>1, <1>3, <2>1, <3>2, <4>1 DEF Probed, Reading, InPartition
      <4>3. Keyed(S, current_left.key) = Keyed(ToSet(right_input), current_left.key)
        BY <4>1, <4>2 DEF Keyed, InPartition
      <4>4. Lists(Matches, Keyed(S, current_left.key))
        BY <2>1, <4>2, BucketLists
      <4> QED
        BY <4>3, <4>4, Zenon
    <3> QED
      BY <2>1, <3>1, <3>2
  <2>3. current_left \notin Todo
    <3>1. CASE phase = "InMemory"
      BY <1>1, <1>3, <3>1 DEF Probed, Todo
    <3>2. CASE phase = "Partitioned"
      <4>1. /\ left_reader # NoReader /\ hash_partition(current_left.key) = cur_part
            /\ current_left \notin Unread /\ cur_part \in Partitions
        BY <1>1, <1>3, <3>2 DEF Probed, Reading, InPartition
      <4>2. ~(cur_part > cur_part)
        BY <4>1, RowFacts DEF Partitions
      <4> QED
        BY <3>2, <4>1, <4>2 DEF Todo
    <3> QED
      BY <2>1, <3>1, <3>2
  <2> QED
    BY <2>1, <2>2, <2>3 DEF Lists
<1> QED
  BY <1>2, <1>3

\* Once the matches of a row are exhausted, the pairs that have not been
\* returned are those of the left rows whose turn is to come.
LEMMA BetweenRows ==
    ASSUME IInv, NeedsLeft
    PROVE  /\ phase \in {"InMemory", "Partitioned"} /\ ~ended
           /\ \A pair \in KeysMatch :
                  pair \in ToSet(emitted) <=> left_input[pair[1]] \notin Todo
<1>1. Returned /\ phase \in {"InMemory", "Partitioned"} /\ ~ended
      /\ match_idx \in Nat /\ match_idx >= Len(Matches)
  BY DEF IInv, NeedsLeft, Probing, TypeOK
<1>2. Matches \in Seq(Rows) /\ IsInjective(Matches) /\ Len(Matches) \in Nat
  BY MatchesAre, LenProperties
<1>3. Coming = {}
  <2>1. ~(match_idx < Len(Matches))
    BY <1>1, <1>2
  <2> QED
    BY <1>1, <1>2, <2>1, SuffixLists DEF Coming
<1> QED
  BY <1>1, <1>3 DEF Returned

\* What no step of next() touches.
LEMMA NextKeeps ==
    ASSUME IInv, phase \in {"InMemory", "Partitioned"},
           UNCHANGED <<inputVars, right_pulled, disk, phase, bufs, segVars>>,
           phase = "InMemory" => UNCHANGED <<hash_table, left_reader>>,
           phase = "Partitioned" => UNCHANGED left_pulled,
           left_pulled' \in 0 .. Len(left_input), cur_part' \in 0 .. NUM_PARTITIONS,
           match_idx' \in Nat, ended' \in BOOLEAN,
           emitted' \in Seq((Nat \ {0}) \X (Nat \ {0}))
    PROVE  /\ TypeOK' /\ Placed' /\ Pace'
           /\ RightRows' = RightRows /\ KeysMatch' = KeysMatch
           /\ phase = "Partitioned" => LeftRows' = LeftRows
<1>1. TypeOK /\ Placed /\ Pace
  BY DEF IInv
<1>2. /\ RightRows' = RightRows /\ KeysMatch' = KeysMatch /\ Store' = Store
      /\ left_input' = left_input /\ right_input' = right_input
      /\ phase = "Partitioned" => LeftRows' = LeftRows
  BY DEF inputVars, RightRows, KeysMatch, Store, LeftRows
<1>3. TypeOK'
  BY <1>1, <1>2 DEF TypeOK
<1>4. Placed'
  BY <1>1, <1>2 DEF Placed, segVars
<1>5. Pace'
  BY <1>1, <1>2 DEF Pace, NoReader
<1> QED
  BY <1>2, <1>3, <1>4, <1>5

\* next() returns the next match of the row that is being probed: a pair of
\* KeysMatch that has not been returned before.
LEMMA ReturnMatchKeeps ==
    ASSUME IInv, ReturnMatch
    PROVE  /\ IInv'
           /\ \E pair \in KeysMatch \ ToSet(emitted) : emitted' = Append(emitted, pair)
<1>1. PICK match : match = Matches[match_idx + 1]
  OBVIOUS
<1>2. /\ phase \in {"InMemory", "Partitioned"} /\ match_idx < Len(Matches)
      /\ emitted' = Append(emitted, <<current_left.id, match.id>>)
      /\ match_idx' = match_idx + 1
      /\ UNCHANGED <<inputVars, pulledVars, disk, phase, hash_table, right_bytes, bufs,
                     segVars, cur_part, left_reader, current_left, ended>>
  BY <1>1 DEF ReturnMatch, Probing
<1>3. /\ TypeOK /\ Reading /\ Probed /\ Returned /\ match_idx \in Nat
      /\ emitted \in Seq((Nat \ {0}) \X (Nat \ {0}))
  BY DEF IInv, TypeOK
<1>4. Matches \in Seq(Rows) /\ IsInjective(Matches)
  BY MatchesAre
<1>5. current_left # NoRow
  <2>1. ASSUME current_left = NoRow PROVE FALSE
    <3>1. Matches = <<>> /\ Len(<<>>) = 0
      BY <2>1 DEF Matches
    <3> QED
      BY <1>2, <1>3, <3>1
  <2> QED
    BY <2>1
<1>6. /\ ToSet(Matches) = Keyed(ToSet(right_input), current_left.key)
      /\ current_left \in ToSet(left_input) \ Todo
  BY <1>5, MatchesAre
<1>7. match \in Coming /\ match \in ToSet(Matches)
  BY <1>1, <1>2, <1>3, <1>4, SuffixLists DEF Coming
<1>8. match \in ToSet(right_input) /\ match.key = current_left.key
  BY <1>6, <1>7 DEF Keyed
<1>9. PICK pair \in KeysMatch :
          /\ pair = <<current_left.id, match.id>> /\ pair \in (Nat \ {0}) \X (Nat \ {0})
          /\ left_input[pair[1]] = current_left /\ right_input[pair[2]] = match
  <2>1. PICK p : p = <<current_left.id, match.id>>
    OBVIOUS
  <2>2. /\ p \in KeysMatch
        /\ left_input[current_left.id] = current_left /\ right_input[match.id] = match
    BY <1>3, <1>6, <1>8, <2>1, MatchFacts
  <2>3. p[1] = current_left.id /\ p[2] = match.id
    BY <2>1
  <2>4. p \in (Nat \ {0}) \X (Nat \ {0})
    BY <1>3, <2>2, MatchFacts
  <2> QED
    BY <2>1, <2>2, <2>3, <2>4, Zenon
<1>10. pair \notin ToSet(emitted)
  BY <1>2, <1>3, <1>7, <1>9 DEF Returned
<1>11. /\ emitted' = Append(emitted, pair) /\ ToSet(emitted') = ToSet(emitted) \cup {pair}
       /\ emitted' \in Seq((Nat \ {0}) \X (Nat \ {0}))
  <2>1. PICK R : R = (Nat \ {0}) \X (Nat \ {0})
    OBVIOUS
  <2>2. emitted \in Seq(R) /\ pair \in R
    BY <1>3, <1>9, <2>1
  <2>3. emitted' = Append(emitted, pair)
    BY <1>2, <1>9
  <2>4. /\ Append(emitted, pair) \in Seq(R)
        /\ ToSet(Append(emitted, pair)) = ToSet(emitted) \cup {pair}
    BY <2>2, RowAppended
  <2> QED
    BY <2>1, <2>3, <2>4
<1>12. Coming' = Coming \ {match}
  <2>1. Matches' = Matches
    BY <1>2 DEF Matches
  <2>2. ToSet(Suffix(Matches, match_idx + 1)) = ToSet(Suffix(Matches, match_idx)) \ {match}
    BY <1>1, <1>2, <1>3, <1>4, SuffixLists
  <2> QED
    BY <1>2, <2>1, <2>2 DEF Coming
<1>13. /\ TypeOK' /\ Placed' /\ Pace' /\ RightRows' = RightRows /\ KeysMatch' = KeysMatch
  <2>1. match_idx' \in Nat /\ left_pulled' \in 0 .. Len(left_input) /\ ended' \in BOOLEAN
        /\ cur_part' \in 0 .. NUM_PARTITIONS
    BY <1>2, <1>3 DEF TypeOK, pulledVars
  <2>2. UNCHANGED <<inputVars, right_pulled, disk, phase, bufs, segVars, hash_table,
                    left_reader, left_pulled>>
    BY <1>2 DEF pulledVars
  <2> QED
    BY <1>2, <1>11, <2>1, <2>2, NextKeeps
<1>14. /\ LeftRows' = LeftRows /\ left_input' = left_input /\ right_input' = right_input
       /\ Unread' = Unread
  BY <1>2 DEF LeftRows, inputVars, pulledVars, Unread
<1>15. Reading' /\ Probed'
  BY <1>2, <1>3, <1>13, <1>14 DEF Reading, Probed
<1>16. Todo' = Todo
  BY <1>2, <1>14 DEF Todo
<1>17. Returned'
  <2>1. ASSUME NEW other \in KeysMatch
        PROVE  other \in ToSet(emitted) \cup {pair} <=>
                   /\ left_input[other[1]] \notin Todo
                   /\ left_input[other[1]] = current_left =>
                          right_input[other[2]] \notin Coming \ {match}
    <3>1. CASE other = pair
      BY <1>6, <1>9, <3>1
    <3>2. CASE other # pair
      <4>1. other \in ToSet(emitted) <=>
                /\ left_input[other[1]] \notin Todo
                /\ left_input[other[1]] = current_left => right_input[other[2]] \notin Coming
        BY <1>2, <1>3 DEF Returned
      <4>2. ~(left_input[other[1]] = current_left /\ right_input[other[2]] = match)
        <5>1. other = <<left_input[other[1]].id, right_input[other[2]].id>>
          BY <1>3, MatchFacts
        <5> QED
          BY <1>9, <3>2, <5>1
      <4> QED
        BY <3>2, <4>1, <4>2
    <3> QED
      BY <3>1, <3>2
  <2> QED
    BY <1>2, <1>11, <1>12, <1>13, <1>14, <1>16, <2>1 DEF Returned
<1> QED
  BY <1>10, <1>11, <1>13, <1>15, <1>17 DEF IInv

\* The turn of another left row: all its matches are to come.
LEMMA NextRow ==
    ASSUME IInv, NeedsLeft, UNCHANGED <<left_input, right_input, emitted>>,
           NEW row \in Todo, Todo' = Todo \ {row}, current_left' = row, match_idx' = 0,
           row # NoRow, Lists(Bucket(hash_table', row.key), Keyed(ToSet(right_input), row.key))
    PROVE  Returned'
<1>1. /\ \A pair \in KeysMatch : pair \in ToSet(emitted) <=> left_input[pair[1]] \notin Todo
      /\ \A pair \in KeysMatch :
            /\ right_input[pair[2]] \in ToSet(right_input)
            /\ left_input[pair[1]].key = right_input[pair[2]].key
  BY BetweenRows, MatchFacts DEF IInv
<1>2. Coming' = Keyed(ToSet(right_input), row.key)
  <2>1. Matches' = Bucket(hash_table', row.key)
    BY DEF Matches
  <2>2. PICK s \in Seq(Rows) : s = Matches' /\ ToSet(s) = Keyed(ToSet(right_input), row.key)
    BY <2>1 DEF Lists
  <2>3. Suffix(s, 0) = s
    BY SuffixFacts
  <2>4. Coming' = ToSet(Suffix(s, 0))
    BY <2>2 DEF Coming
  <2> QED
    BY <2>2, <2>3, <2>4
<1>3. KeysMatch' = KeysMatch
  BY DEF KeysMatch
<1>4. ASSUME NEW pair \in KeysMatch
      PROVE  pair \in ToSet(emitted) <=>
                 /\ left_input[pair[1]] \notin Todo \ {row}
                 /\ left_input[pair[1]] = row =>
                        right_input[pair[2]] \notin Keyed(ToSet(right_input), row.key)
  <2>1. CASE left_input[pair[1]] = row
    BY <1>1, <2>1 DEF Keyed
  <2>2. CASE left_input[pair[1]] # row
    BY <1>1, <2>2
  <2> QED
    BY <2>1, <2>2
<1> QED
  BY <1>2, <1>3, <1>4 DEF Returned

\* Between two partitions no row has its turn.
LEMMA NoRowNow ==
    ASSUME IInv, NeedsLeft, UNCHANGED <<left_input, right_input, emitted>>,
           Todo' = Todo, current_left' = NoRow
    PROVE  Returned'
<1>1. \A pair \in KeysMatch :
          /\ pair \in ToSet(emitted) <=> left_input[pair[1]] \notin Todo
          /\ left_input[pair[1]] # NoRow
  BY BetweenRows, MatchFacts DEF IInv
<1>2. KeysMatch' = KeysMatch
  BY DEF KeysMatch
<1> QED
  BY <1>1, <1>2 DEF Returned

\* In memory the next left row comes from the left child; None is returned when
\* the child has no other.
LEMMA StreamLeftKeeps ==
    ASSUME IInv, StreamLeft
    PROVE  /\ IInv' /\ emitted' = emitted /\ KeysMatch' = KeysMatch
           /\ ended' # ended => ended' = TRUE /\ Todo = {}
<1>1. /\ NeedsLeft /\ phase = "InMemory" /\ match_idx' = 0
      /\ UNCHANGED <<inputVars, right_pulled, disk, phase, hash_table, right_bytes, bufs,
                     segVars, cur_part, left_reader, emitted>>
      /\ \/ /\ left_pulled < Len(left_input) /\ left_pulled' = left_pulled + 1
            /\ current_left' = left_input[left_pulled + 1] /\ ended' = ended
         \/ /\ ~(left_pulled < Len(left_input)) /\ left_pulled' = left_pulled
            /\ current_left' = NoRow /\ ended' = TRUE
  BY DEF StreamLeft
<1>2. /\ TypeOK /\ Placed /\ Pace /\ left_reader = NoReader
      /\ right_pulled = Len(right_input) /\ RightRows = ToSet(right_input)
      /\ left_input \in LeftInputs /\ left_pulled \in 0 .. Len(left_input)
      /\ Len(left_input) \in Nat
  BY <1>1, PulledRows, StreamFacts DEF IInv, TypeOK, Pace
<1>3. left_input' = left_input /\ right_input' = right_input
  BY <1>1 DEF inputVars
<1>4. TypeOK' /\ Placed' /\ Pace' /\ KeysMatch' = KeysMatch
  <2>1. left_pulled' \in 0 .. Len(left_input) /\ match_idx' \in Nat
    BY <1>1, <1>2
  <2>2. /\ cur_part' \in 0 .. NUM_PARTITIONS
        /\ emitted' \in Seq((Nat \ {0}) \X (Nat \ {0}))
    BY <1>1, <1>2 DEF TypeOK
  <2>3. ended' \in BOOLEAN
    BY <1>1, <1>2, Zenon DEF TypeOK
  <2> QED
    BY <1>1, <2>1, <2>2, <2>3, NextKeeps
<1>5. Reading'
  BY <1>1, <1>2 DEF Reading, NoReader
<1>6. Todo = ToSet(left_input) \ LeftRows /\ Todo' = ToSet(left_input) \ LeftRows'
  BY <1>1, <1>3 DEF Todo
<1>7. CASE /\ left_pulled < Len(left_input) /\ left_pulled' = left_pulled + 1
           /\ current_left' = left_input[left_pulled + 1] /\ ended' = ended
  <2>1. PICK row : row = left_input[left_pulled + 1]
    OBVIOUS
  <2>2. row \in Rows \ LeftRows /\ LeftRows' = LeftRows \cup {row}
    BY <1>2, <1>3, <1>7, <2>1, PullFacts DEF LeftRows
  <2>3. row \in ToSet(left_input)
    BY <1>2, <1>7, <2>1, StreamFacts DEF ToSet
  <2>4. row \in Todo /\ Todo' = Todo \ {row} /\ row # NoRow
    BY <1>2, <1>6, <2>2, <2>3, MatchFacts
  <2>5. Lists(Bucket(hash_table', row.key), Keyed(ToSet(right_input), row.key))
    <3>1. TableHolds(hash_table, ToSet(right_input)) /\ hash_table' = hash_table
      BY <1>1, <1>2 DEF Placed
    <3> QED
      BY <3>1, BucketLists
  <2>6. Returned'
    BY <1>1, <1>3, <1>7, <2>1, <2>4, <2>5, NextRow
  <2>7. Probed'
    BY <1>1, <1>7, <2>1, <2>2 DEF Probed
  <2> QED
    BY <1>1, <1>4, <1>5, <1>7, <2>6, <2>7 DEF IInv
<1>8. CASE /\ ~(left_pulled < Len(left_input)) /\ left_pulled' = left_pulled
           /\ current_left' = NoRow /\ ended' = TRUE
  <2>1. LeftRows = ToSet(left_input) /\ LeftRows' = LeftRows
    <3>1. left_pulled = Len(left_input)
      BY <1>2, <1>8
    <3> QED
      BY <1>2, <1>3, <1>8, <3>1, PulledRows DEF LeftRows
  <2>2. Todo = {} /\ Todo' = Todo
    BY <1>6, <2>1
  <2>3. Returned'
    BY <1>1, <1>3, <1>8, <2>2, NoRowNow
  <2>4. Probed'
    BY <1>8 DEF Probed, NoRow
  <2> QED
    BY <1>1, <1>4, <1>5, <1>8, <2>2, <2>3, <2>4 DEF IInv
<1> QED
  BY <1>1, <1>7, <1>8

\* The next partition: its right rows make the table, and the reader will return
\* all its left rows.
LEMMA OpenPartitionKeeps ==
    ASSUME RowsSized(Rows), IInv, OpenPartition
    PROVE  IInv'
<1>1. /\ NeedsLeft /\ phase = "Partitioned" /\ left_reader = NoReader
      /\ cur_part < NUM_PARTITIONS /\ hash_table' = PartitionTable(cur_part)
      /\ left_reader' = <<NewReader(left_segs[cur_part])>>
      /\ current_left' = NoRow /\ match_idx' = 0
      /\ UNCHANGED <<inputVars, pulledVars, disk, phase, right_bytes, bufs, segVars,
                     cur_part, outVars>>
  BY DEF OpenPartition
<1>2. TypeOK /\ Placed /\ SideHolds(disk, left_segs, LeftRows)
      /\ SideHolds(disk, right_segs, RightRows)
  BY <1>1 DEF IInv, Placed
<1>3. PICK p \in Partitions : p = cur_part
  BY <1>1, <1>2, RowFacts DEF TypeOK, Partitions
<1>4. TableHolds(hash_table', InPartition(RightRows, p))
  <2>1. Lists(SegmentRows(right_segs[p]), InPartition(RightRows, p))
    BY <1>2, SegmentRowsAre DEF SideHolds
  <2>2. TableHolds(FoldLeft(TableInsert, EmptyTable, SegmentRows(right_segs[p])),
                   InPartition(RightRows, p))
    BY <2>1, TableOfRows
  <2> QED
    BY <1>1, <1>3, <2>2, Zenon DEF PartitionTable
<1>5. PICK x : x = NewReader(left_segs[p])
  OBVIOUS
<1>6. x \in Readers(disk) /\ Lists(Rest(disk, x), InPartition(LeftRows, p))
  <2>1. PICK segs \in Seq(Segments(disk)) :
            segs = left_segs[p] /\ Lists(SideRows(disk, segs), InPartition(LeftRows, p))
    BY <1>2 DEF SideHolds
  <2>2. Returns(disk, x, SideRows(disk, segs))
    BY <1>5, <2>1, NewReaderReturns
  <2> QED
    BY <2>1, <2>2 DEF Returns
<1>7. left_reader' = <<x>> /\ left_reader'[1] = x /\ left_reader' # NoReader
  BY <1>1, <1>3, <1>5 DEF NoReader
<1>8. Unread' = InPartition(LeftRows, p)
  BY <1>1, <1>6, <1>7 DEF Unread, Lists
<1>9. /\ TypeOK' /\ Placed' /\ Pace' /\ RightRows' = RightRows /\ LeftRows' = LeftRows
      /\ KeysMatch' = KeysMatch
  <2>1. /\ left_pulled' \in 0 .. Len(left_input) /\ cur_part' \in 0 .. NUM_PARTITIONS
        /\ match_idx' \in Nat
    BY <1>1, <1>2 DEF TypeOK, pulledVars
  <2>2. ended' \in BOOLEAN /\ emitted' \in Seq((Nat \ {0}) \X (Nat \ {0}))
    BY <1>1, <1>2, Zenon DEF TypeOK, outVars
  <2>3. UNCHANGED <<inputVars, right_pulled, disk, phase, bufs, segVars>>
        /\ UNCHANGED left_pulled
    BY <1>1 DEF pulledVars
  <2> QED
    BY <1>1, <2>1, <2>2, <2>3, NextKeeps
<1>10. Reading'
  <2>1. phase' = "Partitioned" /\ cur_part' = p /\ disk' = disk
    BY <1>1, <1>3
  <2>2. Lists(Rest(disk', left_reader'[1]), Unread')
    BY <1>6, <1>7, <1>8, <2>1
  <2> QED
    BY <1>4, <1>6, <1>7, <1>8, <1>9, <2>1, <2>2 DEF Reading
<1>11. Probed'
  BY <1>1 DEF Probed, NoRow
<1>12. Todo' = Todo
  BY <1>1, <1>3, <1>7, <1>8, <1>9 DEF Todo, InPartition
<1>13. Returned'
  <2>1. left_input' = left_input /\ right_input' = right_input /\ emitted' = emitted
    BY <1>1 DEF inputVars, outVars
  <2> QED
    BY <1>1, <1>12, <2>1, NoRowNow
<1> QED
  BY <1>9, <1>10, <1>11, <1>13 DEF IInv

\* A left row of the partition has its turn.
LEMMA ProbePartitionKeeps ==
    ASSUME RowsSized(Rows), IInv, ProbePartition
    PROVE  IInv'
<1>1. PICK x : x = left_reader[1]
  OBVIOUS
<1>2. /\ NeedsLeft /\ left_reader # NoReader /\ HasRow(x) /\ match_idx' = 0
      /\ current_left' = x.buffer[x.buf_idx + 1] /\ left_reader' = <<advance(x)>>
      /\ UNCHANGED <<inputVars, pulledVars, disk, phase, hash_table, right_bytes, bufs,
                     segVars, cur_part, outVars>>
  BY <1>1 DEF ProbePartition
<1>3. /\ TypeOK /\ Pace /\ phase = "Partitioned" /\ cur_part \in Partitions
      /\ x \in Readers(disk) /\ Lists(Rest(disk, x), Unread)
      /\ Unread \subseteq InPartition(LeftRows, cur_part)
      /\ TableHolds(hash_table, InPartition(RightRows, cur_part))
      /\ right_pulled = Len(right_input)
  BY <1>1, <1>2 DEF IInv, Reading, Pace
<1>4. PICK row \in Rows, t \in Seq(Rows) :
          /\ row = x.buffer[x.buf_idx + 1] /\ Rest(disk, x) = <<row>> \o t
          /\ Returns(disk, advance(x), t)
  <2>1. Returns(disk, x, Rest(disk, x))
    BY <1>3 DEF Returns, Lists
  <2> QED
    BY <1>2, <2>1, AdvanceReturns
<1>5. row \in Unread /\ Lists(t, Unread \ {row})
  <2>1. Lists(<<row>> \o t, Unread)
    BY <1>3, <1>4
  <2> QED
    BY <2>1, ListsTail
<1>6. /\ left_reader'[1] = advance(x) /\ left_reader' # NoReader
      /\ advance(x) \in Readers(disk) /\ Rest(disk, advance(x)) = t
  BY <1>2, <1>4 DEF Returns, NoReader
<1>7. Unread' = Unread \ {row} /\ Lists(Rest(disk', left_reader'[1]), Unread')
  <2>1. Unread' = ToSet(t)
    BY <1>2, <1>6 DEF Unread
  <2>2. Unread' = Unread \ {row}
    BY <1>5, <2>1 DEF Lists
  <2> QED
    BY <1>2, <1>5, <1>6, <2>2
<1>8. row \in LeftRows /\ hash_partition(row.key) = cur_part
  BY <1>3, <1>5 DEF InPartition
<1>9. /\ TypeOK' /\ Placed' /\ Pace' /\ RightRows' = RightRows /\ LeftRows' = LeftRows
      /\ KeysMatch' = KeysMatch
  <2>1. /\ left_pulled' \in 0 .. Len(left_input) /\ cur_part' \in 0 .. NUM_PARTITIONS
        /\ match_idx' \in Nat
    BY <1>2, <1>3 DEF TypeOK, pulledVars
  <2>2. ended' \in BOOLEAN /\ emitted' \in Seq((Nat \ {0}) \X (Nat \ {0}))
    BY <1>2, <1>3, Zenon DEF TypeOK, outVars
  <2>3. UNCHANGED <<inputVars, right_pulled, disk, phase, bufs, segVars>>
        /\ UNCHANGED left_pulled
    BY <1>2 DEF pulledVars
  <2> QED
    BY <1>2, <1>3, <2>1, <2>2, <2>3, NextKeeps
<1>10. Reading'
  BY <1>2, <1>3, <1>6, <1>7, <1>9 DEF Reading
<1>11. Probed'
  BY <1>2, <1>3, <1>4, <1>6, <1>7, <1>8, <1>9 DEF Probed, InPartition
<1>12. row \in Todo /\ Todo' = Todo \ {row}
  <2>1. ~(hash_partition(row.key) > cur_part)
    BY <1>3, <1>8, RowFacts DEF Partitions
  <2>2. row \in Todo
    BY <1>2, <1>3, <1>5, <1>8 DEF Todo
  <2>3. Todo' = Todo \ {row}
    BY <1>2, <1>3, <1>6, <1>7, <1>8, <1>9, <2>1 DEF Todo
  <2> QED
    BY <2>2, <2>3
<1>13. row # NoRow /\ RightRows = ToSet(right_input)
  <2>1. row \in ToSet(left_input)
    BY <1>3, <1>8, PulledRows
  <2> QED
    BY <1>3, <2>1, PulledRows, MatchFacts
<1>14. Lists(Bucket(hash_table', row.key), Keyed(ToSet(right_input), row.key))
  <2>1. PICK S : S = InPartition(RightRows, cur_part)
    OBVIOUS
  <2>2. Lists(Bucket(hash_table, row.key), Keyed(S, row.key))
    BY <1>3, <2>1, BucketLists
  <2>3. Keyed(S, row.key) = Keyed(ToSet(right_input), row.key)
    BY <1>8, <1>13, <2>1 DEF Keyed, InPartition
  <2> QED
    BY <1>2, <2>2, <2>3
<1>15. Returned'
  <2>1. left_input' = left_input /\ right_input' = right_input /\ emitted' = emitted
    BY <1>2 DEF inputVars, outVars
  <2> QED
    BY <1>2, <1>4, <1>12, <1>13, <1>14, <2>1, NextRow
<1> QED
  BY <1>9, <1>10, <1>11, <1>15 DEF IInv

\* The reader is exhausted: all left rows of the partition had their turn.
LEMMA ClosePartitionKeeps ==
    ASSUME RowsSized(Rows), IInv, ClosePartition
    PROVE  IInv'
<1>1. PICK x : x = left_reader[1]
  OBVIOUS
<1>2. /\ NeedsLeft /\ left_reader # NoReader /\ ~HasRow(x)
      /\ current_left' = NoRow /\ left_reader' = NoReader /\ cur_part' = cur_part + 1
      /\ UNCHANGED <<inputVars, pulledVars, disk, phase, hash_table, right_bytes, bufs,
                     segVars, match_idx, outVars>>
  BY <1>1 DEF ClosePartition
<1>3. /\ TypeOK /\ Pace /\ phase = "Partitioned" /\ cur_part \in Partitions
      /\ x \in Readers(disk) /\ Lists(Rest(disk, x), Unread)
  BY <1>1, <1>2 DEF IInv, Reading
<1>4. Unread = {}
  <2>1. Returns(disk, x, Rest(disk, x))
    BY <1>3 DEF Returns, Lists
  <2>2. Rest(disk, x) = <<>>
    BY <1>2, <2>1, ExhaustedReturns
  <2> QED
    BY <1>1, <2>2 DEF Unread, ToSet
<1>5. PICK n \in Nat : /\ n = NUM_PARTITIONS /\ Partitions = 0 .. n - 1
                       /\ cur_part \in 0 .. n - 1
  BY <1>3, RowFacts DEF Partitions
<1>6. /\ TypeOK' /\ Placed' /\ Pace' /\ LeftRows' = LeftRows /\ KeysMatch' = KeysMatch
  <2>1. cur_part' \in 0 .. NUM_PARTITIONS
    BY <1>2, <1>5
  <2>2. left_pulled' \in 0 .. Len(left_input) /\ match_idx' \in Nat
    BY <1>2, <1>3 DEF TypeOK, pulledVars
  <2>3. ended' \in BOOLEAN /\ emitted' \in Seq((Nat \ {0}) \X (Nat \ {0}))
    BY <1>2, <1>3, Zenon DEF TypeOK, outVars
  <2>4. UNCHANGED <<inputVars, right_pulled, disk, phase, bufs, segVars>>
        /\ UNCHANGED left_pulled
    BY <1>2 DEF pulledVars
  <2> QED
    BY <1>2, <1>3, <2>1, <2>2, <2>3, <2>4, NextKeeps
<1>7. Reading' /\ Probed'
  BY <1>2 DEF Reading, Probed, NoReader, NoRow
<1>8. Todo' = Todo
  <2>1. ASSUME NEW l \in LeftRows
        PROVE  hash_partition(l.key) > cur_part
                   <=> hash_partition(l.key) > cur_part + 1 \/ hash_partition(l.key) = cur_part + 1
    <3>1. hash_partition(l.key) \in 0 .. n - 1
      BY <1>3, <1>5, PulledRows, RowFacts
    <3> QED
      BY <1>5, <3>1
  <2> QED
    BY <1>2, <1>3, <1>4, <1>6, <2>1 DEF Todo
<1>9. Returned'
  <2>1. left_input' = left_input /\ right_input' = right_input /\ emitted' = emitted
    BY <1>2 DEF inputVars, outVars
  <2> QED
    BY <1>2, <1>8, <2>1, NoRowNow
<1> QED
  BY <1>6, <1>7, <1>9 DEF IInv

\* None is returned after the last partition, when no row's turn is to come.
LEMMA EndOfPartitionsKeeps ==
    ASSUME IInv, EndOfPartitions
    PROVE  IInv' /\ Todo = {}
<1>1. /\ NeedsLeft /\ phase = "Partitioned" /\ left_reader = NoReader
      /\ cur_part = NUM_PARTITIONS /\ ended' = TRUE /\ emitted' = emitted
      /\ UNCHANGED <<inputVars, pulledVars, disk, phase, hash_table, right_bytes, bufs,
                     segVars, probeVars>>
  BY DEF EndOfPartitions
<1>2. TypeOK /\ Placed /\ Pace /\ Reading /\ Probed /\ Returned
  BY DEF IInv
<1>3. Todo = {}
  <2>1. ASSUME NEW l \in LeftRows
        PROVE  ~(hash_partition(l.key) > cur_part) /\ hash_partition(l.key) # cur_part
    <3>1. PICK n \in Nat : n = NUM_PARTITIONS /\ hash_partition(l.key) \in 0 .. n - 1
      BY <1>2, PulledRows, RowFacts DEF Partitions
    <3> QED
      BY <1>1, <3>1
  <2> QED
    BY <1>1, <2>1 DEF Todo
<1>4. TypeOK'
  BY <1>1, <1>2 DEF TypeOK, inputVars, pulledVars, probeVars, Store
<1>5. /\ Placed' /\ Pace' /\ Reading' /\ Probed' /\ Returned'
  <2>1. /\ RightRows' = RightRows /\ LeftRows' = LeftRows /\ Store' = Store
        /\ TableRows' = TableRows /\ Unread' = Unread /\ Matches' = Matches
        /\ KeysMatch' = KeysMatch
    BY <1>1 DEF RightRows, LeftRows, Store, TableRows, Unread, Matches, KeysMatch,
                inputVars, pulledVars, probeVars
  <2>2. Placed'
    BY <1>1, <1>2, <2>1 DEF Placed, segVars
  <2>3. Pace'
    BY <1>1, <1>2 DEF Pace, inputVars, pulledVars
  <2>4. Reading' /\ Probed'
    BY <1>1, <1>2, <2>1 DEF Reading, Probed, probeVars
  <2>5. Coming' = Coming /\ Todo' = Todo
    BY <1>1, <2>1 DEF Coming, Todo, probeVars, inputVars
  <2>6. Returned'
    BY <1>1, <1>2, <2>1, <2>5 DEF Returned, probeVars, inputVars
  <2> QED
    BY <2>2, <2>3, <2>4, <2>6
<1> QED
  BY <1>3, <1>4, <1>5, <1>2 DEF IInv
-----------------------------------------------------------------------------
\* At the start nothing has been pulled, and both sides are empty.
LEMMA InitHolds ==
    ASSUME RowsSized(Rows), Init
    PROVE  IInv
<1>1. /\ left_input \in LeftInputs /\ right_input \in RightInputs
      /\ left_pulled = 0 /\ right_pulled = 0 /\ disk = NewDisk /\ phase = "Build"
      /\ hash_table = EmptyTable /\ bufs = NewBuffers /\ cur_part = 0
      /\ left_reader = NoReader /\ current_left = NoRow /\ match_idx = 0
      /\ emitted = <<>> /\ ended = FALSE
  BY DEF Init
<1>2. NewDisk \in Disks
  <2>1. EmptyTable \in [{} -> PackedBlocks(Rows)] /\ {} \in SUBSET Nat /\ EmptyTable = <<>>
    <3>1. DOMAIN EmptyTable = {} /\ EmptyTable = [k \in {} |-> <<>>]
      BY DEF EmptyTable
    <3> QED
      BY <3>1 DEF EmptyTable
  <2>2. NewDisk \in [pages : UNION {[D -> PackedBlocks(Rows)] : D \in SUBSET Nat},
                     next_anon_block : Nat]
    BY <2>1, AnonStartAssumption DEF NewDisk
  <2>3. DOMAIN NewDisk.pages = {}
    BY DEF NewDisk
  <2> QED
    BY <2>2, <2>3 DEF Disks
<1>3. Store \in BoundedStores /\ StoreHolds(Store, {})
  BY <1>1, <1>2, NewStore DEF Store
<1>4. TypeOK
  <2>1. left_pulled \in 0 .. Len(left_input) /\ right_pulled \in 0 .. Len(right_input)
    <3>1. left_input \in LeftInputs \cup RightInputs /\ right_input \in LeftInputs \cup RightInputs
      BY <1>1
    <3>2. Len(left_input) \in Nat /\ Len(right_input) \in Nat
      BY <3>1, StreamFacts
    <3> QED
      BY <1>1, <3>2
  <2>2. cur_part \in 0 .. NUM_PARTITIONS /\ match_idx \in Nat
    BY <1>1, RowFacts
  <2>3. emitted \in Seq((Nat \ {0}) \X (Nat \ {0}))
    <3>1. \A S : <<>> \in Seq(S)
      OBVIOUS
    <3> QED
      BY <1>1, <3>1, Zenon
  <2>4. ended \in BOOLEAN
    BY <1>1
  <2> QED
    BY <1>1, <1>3, <2>1, <2>2, <2>3, <2>4 DEF TypeOK
<1>5. Placed
  <2>1. RightRows = {}
    BY <1>1, <1>4, PulledRows
  <2>2. TableHolds(hash_table, RightRows)
    BY <1>1, <2>1, EmptyTableHolds
  <2> QED
    BY <1>1, <1>3, <2>2 DEF Placed
<1>6. Pace /\ Reading /\ Probed /\ Returned
  BY <1>1 DEF Pace, Reading, Probed, Returned
<1> QED
  BY <1>4, <1>5, <1>6 DEF IInv

\* A step that changes nothing changes nothing of the invariant.
LEMMA StutterKeeps ==
    ASSUME IInv, UNCHANGED vars
    PROVE  IInv'
<1>1. UNCHANGED <<left_input, right_input, left_pulled, right_pulled, disk, phase, hash_table,
                  right_bytes, bufs, left_segs, right_segs, cur_part, left_reader,
                  current_left, match_idx, emitted, ended>>
  BY DEF vars, inputVars, pulledVars, segVars, probeVars, outVars
<1>2. /\ RightRows' = RightRows /\ LeftRows' = LeftRows /\ Store' = Store
      /\ TableRows' = TableRows /\ Unread' = Unread /\ Matches' = Matches
      /\ KeysMatch' = KeysMatch
  BY <1>1 DEF RightRows, LeftRows, Store, TableRows, Unread, Matches, KeysMatch
<1>3. Coming' = Coming /\ Todo' = Todo
  BY <1>1, <1>2 DEF Coming, Todo
<1>4. TypeOK'
  BY <1>1, <1>2 DEF IInv, TypeOK
<1>5. Placed'
  BY <1>1, <1>2 DEF IInv, Placed
<1>6. Pace' /\ Reading' /\ Probed'
  BY <1>1, <1>2 DEF IInv, Pace, Reading, Probed
<1>7. Returned'
  BY <1>1, <1>2, <1>3 DEF IInv, Returned
<1> QED
  BY <1>4, <1>5, <1>6, <1>7 DEF IInv

\* The invariant holds in every state of the join.
LEMMA IInvHolds ==
    ASSUME RowsSized(Rows)
    PROVE  Spec => []IInv
<1>1. Init => IInv
  BY InitHolds
<1>2. IInv /\ [Next]_vars => IInv'
  <2> SUFFICES ASSUME IInv, [Next]_vars PROVE IInv'
    OBVIOUS
  <2>1. CASE ChildSpill
    BY <2>1, ChildSpillKeeps
  <2>2. CASE Build
    BY <2>2, BuildKeeps
  <2>3. CASE BuiltInMemory
    BY <2>3, BuiltInMemoryKeeps
  <2>4. CASE RepartitionEntry
    BY <2>4, RepartitionEntryKeeps
  <2>5. CASE PartitionRight
    BY <2>5, PartitionRightKeeps
  <2>6. CASE FinishRight
    BY <2>6, FinishRightKeeps
  <2>7. CASE PartitionLeft
    BY <2>7, PartitionLeftKeeps
  <2>8. CASE FinishLeft
    BY <2>8, FinishLeftKeeps
  <2>9. CASE ReturnMatch
    BY <2>9, ReturnMatchKeeps
  <2>10. CASE StreamLeft
    BY <2>10, StreamLeftKeeps
  <2>11. CASE OpenPartition
    BY <2>11, OpenPartitionKeeps
  <2>12. CASE ProbePartition
    BY <2>12, ProbePartitionKeeps
  <2>13. CASE ClosePartition
    BY <2>13, ClosePartitionKeeps
  <2>14. CASE EndOfPartitions
    BY <2>14, EndOfPartitionsKeeps
  <2>15. CASE Stopped \/ UNCHANGED vars
    BY <2>15, StutterKeeps DEF Stopped
  <2> QED
    BY <2>1, <2>2, <2>3, <2>4, <2>5, <2>6, <2>7, <2>8, <2>9, <2>10, <2>11, <2>12, <2>13,
       <2>14, <2>15 DEF Next
<1> QED
  BY <1>1, <1>2, PTL DEF Spec
-----------------------------------------------------------------------------
\* A store holds the rows of a side as RowsConserved says, and so do segments
\* with nothing in the buffers.
LEMMA HeldExactly ==
    ASSUME NEW rows
    PROVE  /\ StoreHolds(Store, rows) => PartitionedExactly(bufs.segments, bufs.buffers, rows)
           /\ \A segs : SideHolds(disk, segs, rows) =>
                  PartitionedExactly(segs, NewBuffers.buffers, rows)
<1>1. ASSUME StoreHolds(Store, rows)
      PROVE  PartitionedExactly(bufs.segments, bufs.buffers, rows)
  <2>1. ASSUME NEW p \in Partitions
        PROVE  Lists(SegmentRows(bufs.segments[p]) \o bufs.buffers[p], InPartition(rows, p))
    <3>1. Contents(Store, p) = SegmentRows(bufs.segments[p]) \o bufs.buffers[p]
      <4>1. Store.disk = disk /\ Store.bufs = bufs
        BY DEF Store
      <4> QED
        BY <4>1, SegmentRowsAre, Zenon DEF Contents
    <3> QED
      BY <1>1, <3>1, Zenon DEF StoreHolds
  <2> QED
    BY <2>1 DEF PartitionedExactly, Lists, InPartition
<1>2. ASSUME NEW segs, SideHolds(disk, segs, rows)
      PROVE  PartitionedExactly(segs, NewBuffers.buffers, rows)
  <2>1. ASSUME NEW p \in Partitions
        PROVE  Lists(SegmentRows(segs[p]) \o NewBuffers.buffers[p], InPartition(rows, p))
    <3>1. PICK s \in Seq(Rows) : s = SegmentRows(segs[p]) /\ Lists(s, InPartition(rows, p))
      <4>1. Lists(SegmentRows(segs[p]), InPartition(rows, p))
        BY <1>2, SegmentRowsAre, Zenon DEF SideHolds
      <4> QED
        BY <4>1 DEF Lists
    <3>2. s \o <<>> = s
      BY ConcatEmptySeq
    <3>3. NewBuffers.buffers[p] = <<>>
      BY DEF NewBuffers
    <3> QED
      BY <3>1, <3>2, <3>3, Zenon
  <2> QED
    BY <2>1 DEF PartitionedExactly, Lists, InPartition
<1> QED
  BY <1>1, <1>2

\* RowsConserved: no row is lost, duplicated or misplaced while both children are
\* partitioned, whatever the budget, the threshold and the hash function.
THEOREM HashJoinRowsConserved ==
    ASSUME RowsSized(Rows)
    PROVE  Spec => []RowsConserved
<1>1. IInv => RowsConserved
  <2> SUFFICES ASSUME IInv PROVE RowsConserved
    OBVIOUS
  <2>1. /\ ToSet(SubSeq(right_input, 1, right_pulled)) = RightRows
        /\ ToSet(SubSeq(left_input, 1, left_pulled)) = LeftRows
    BY PullFacts DEF IInv, TypeOK, RightRows, LeftRows
  <2>2. phase \in {"Build", "InMemory"} => TableRows = RightRows
    BY TableRowsAre DEF IInv, Placed, TableRows
  <2>3. phase = "Repartition" =>
            PartitionedExactly(bufs.segments, bufs.buffers, RightRows \ TableRows)
    BY HeldExactly DEF IInv, Placed
  <2>4. phase \in {"PartitionLeft", "Partitioned"} =>
            PartitionedExactly(right_segs, NewBuffers.buffers, RightRows)
    BY HeldExactly DEF IInv, Placed
  <2>5. phase = "PartitionLeft" => PartitionedExactly(bufs.segments, bufs.buffers, LeftRows)
    BY HeldExactly DEF IInv, Placed
  <2>6. phase = "Partitioned" => PartitionedExactly(left_segs, NewBuffers.buffers, LeftRows)
    BY HeldExactly DEF IInv, Placed
  <2> QED
    BY <2>1, <2>2, <2>3, <2>4, <2>5, <2>6 DEF RowsConserved
<1> QED
  BY <1>1, IInvHolds, PTL

\* TableMatchesProbe: a left row is probed against all the right rows with its
\* key, in memory and in every partition.
THEOREM HashJoinTableMatchesProbe ==
    ASSUME RowsSized(Rows)
    PROVE  Spec => []TableMatchesProbe
<1>1. IInv => TableMatchesProbe
  <2> SUFFICES ASSUME IInv PROVE TableMatchesProbe
    OBVIOUS
  <2>1. current_left # NoRow =>
            ToSet(Matches) = {r \in ToSet(right_input) : r.key = current_left.key}
    BY MatchesAre DEF Keyed
  <2>2. ASSUME left_reader # NoReader
        PROVE  TableRows = {r \in ToSet(right_input) : hash_partition(r.key) = cur_part}
    <3>1. TableHolds(hash_table, InPartition(RightRows, cur_part)) /\ phase = "Partitioned"
      BY <2>2 DEF IInv, Reading
    <3>2. RightRows = ToSet(right_input)
      BY <3>1, PulledRows DEF IInv, Pace
    <3>3. TableRows = InPartition(RightRows, cur_part)
      BY <3>1, TableRowsAre DEF TableRows
    <3> QED
      BY <3>2, <3>3 DEF InPartition
  <2> QED
    BY <2>1, <2>2 DEF TableMatchesProbe
<1> QED
  BY <1>1, IInvHolds, PTL
-----------------------------------------------------------------------------
\* Only the steps of next() that return something change what has been returned.
LEMMA QuietSteps ==
    ASSUME \/ ChildSpill \/ Build \/ BuiltInMemory \/ RepartitionEntry
           \/ PartitionRight \/ FinishRight \/ PartitionLeft \/ FinishLeft
           \/ OpenPartition \/ ProbePartition \/ ClosePartition
           \/ Stopped \/ UNCHANGED vars
    PROVE  UNCHANGED Stream!vars
<1>1. ASSUME UNCHANGED <<inputVars, outVars>> PROVE UNCHANGED Stream!vars
  <2>1. /\ left_input' = left_input /\ right_input' = right_input
        /\ emitted' = emitted /\ ended' = ended
    BY <1>1 DEF inputVars, outVars
  <2>2. KeysMatch' = KeysMatch
    BY <2>1 DEF KeysMatch
  <2> QED
    BY <2>1, <2>2 DEF Stream!vars
<1>2. UNCHANGED <<inputVars, outVars>>
  BY DEF ChildSpill, Build, BuiltInMemory, RepartitionEntry, PartitionRight, FinishRight,
         PartitionLeft, FinishLeft, OpenPartition, ProbePartition, ClosePartition, Stopped,
         vars
<1> QED
  BY <1>1, <1>2

\* ImplementsResultStream, its safety part: next() returns a pair of rows only
\* when their keys match, no pair twice, and None only when no pair is missing.
THEOREM HashJoinImplementsStream ==
    ASSUME RowsSized(Rows)
    PROVE  Spec => Stream!Spec
<1>1. Init => Stream!Init
  <2> SUFFICES ASSUME Init PROVE Stream!Init
    OBVIOUS
  <2>1. emitted = <<>> /\ ended = FALSE
    BY DEF Init
  <2>2. KeysMatch \subseteq (Nat \ {0}) \X (Nat \ {0})
    BY InitHolds, MatchFacts DEF IInv
  <2> QED
    BY <2>1, <2>2 DEF Stream!Init
<1>2. IInv /\ [Next]_vars => [Stream!Next]_Stream!vars
  <2> SUFFICES ASSUME IInv, [Next]_vars PROVE [Stream!Next]_Stream!vars
    OBVIOUS
  <2>1. CASE ReturnMatch
    <3>1. PICK pair \in KeysMatch \ ToSet(emitted) : emitted' = Append(emitted, pair)
      BY <2>1, ReturnMatchKeeps
    <3>2. /\ left_input' = left_input /\ right_input' = right_input
          /\ ended' = ended /\ ~ended
      BY <2>1 DEF ReturnMatch, Probing, inputVars
    <3>3. emitted \in Seq((Nat \ {0}) \X (Nat \ {0})) /\ pair \in (Nat \ {0}) \X (Nat \ {0})
      BY <3>1, MatchFacts DEF IInv, TypeOK
    <3>4. ToSet(Append(emitted, pair)) = ToSet(emitted) \cup {pair}
      BY <3>3, RowAppended
    <3>5. KeysMatch' \ ToSet(emitted') = (KeysMatch \ ToSet(emitted)) \ {pair}
      <4>1. KeysMatch' = KeysMatch
        BY <3>2 DEF KeysMatch
      <4> QED
        BY <3>1, <3>4, <4>1
    <3>6. Stream!Emit(pair)
      BY <3>1, <3>2, <3>5 DEF Stream!Emit
    <3> QED
      BY <3>1, <3>6 DEF Stream!Next
  <2>2. CASE StreamLeft \/ EndOfPartitions
    <3>1. /\ NeedsLeft /\ emitted' = emitted /\ KeysMatch' = KeysMatch
          /\ ended' # ended => ended' = TRUE /\ Todo = {}
      <4>1. CASE StreamLeft
        BY <4>1, StreamLeftKeeps DEF StreamLeft
      <4>2. CASE EndOfPartitions
        BY <4>2, EndOfPartitionsKeeps DEF EndOfPartitions, KeysMatch, inputVars
      <4> QED
        BY <2>2, <4>1, <4>2
    <3>2. CASE ended' = ended
      BY <3>1, <3>2 DEF Stream!vars
    <3>3. CASE ended' # ended
      <4>1. KeysMatch \ ToSet(emitted) = {}
        BY <3>1, <3>3, BetweenRows
      <4> QED
        BY <3>1, <3>3, <4>1 DEF Stream!Next, Stream!Finish
    <3> QED
      BY <3>2, <3>3
  <2>3. CASE ~(ReturnMatch \/ StreamLeft \/ EndOfPartitions)
    BY <2>3, QuietSteps DEF Next
  <2> QED
    BY <2>1, <2>2, <2>3
<1> QED
  BY <1>1, <1>2, IInvHolds, PTL DEF Spec, Stream!Spec
-----------------------------------------------------------------------------
\* A sum over the subsets of D, whatever the order its terms are taken in.
AddsUp(sum, f, D) ==
    /\ sum \in [SUBSET D -> Nat] /\ sum[{}] = 0
    /\ \A t \in SUBSET D : \A x \in t : sum[t] = f[x] + sum[t \ {x}]

\* One that takes its terms in some order.
AddsInOrder(sum, f, D) ==
    /\ sum[{}] = 0
    /\ \A t \in SUBSET D : t # {} => \E x \in t : sum[t] = f[x] + sum[t \ {x}]

\* Over a finite set there is one.
LEMMA SumExists ==
    ASSUME NEW D, IsFiniteSet(D), NEW f \in [D -> Nat]
    PROVE  \E sum : AddsUp(sum, f, D)
<1>1. PICK n, e : n \in Nat /\ e \in Bijection(1 .. n, D)
  <2>1. Cardinality(D) \in Nat /\ ExistsBijection(1 .. Cardinality(D), D)
    BY FS_CardinalityType
  <2> QED
    BY <2>1 DEF ExistsBijection
<1>2. /\ e \in [1 .. n -> D] /\ \A x \in D : \E i \in 1 .. n : e[i] = x
      /\ \A i, j \in 1 .. n : e[i] = e[j] => i = j
  BY <1>1 DEF Bijection, Injection, Surjection, IsInjective
<1>3. PICK rows \in Seq([mem : Nat]) : DOMAIN rows = 1 .. n
                                       /\ \A i \in 1 .. n : rows[i].mem = f[e[i]]
  <2>1. \A i \in 1 .. n : f[e[i]] \in Nat
    BY <1>2
  <2>2. [i \in 1 .. n |-> [mem |-> f[e[i]]]] \in Seq([mem : Nat])
    BY <1>1, <2>1
  <2> QED
    BY <1>1, <2>2
<1>4. PICK s : SumsMemory(s, rows)
  <2>1. \A r \in [mem : Nat] : r.mem \in Nat
    OBVIOUS
  <2> QED
    BY <2>1, MemorySum
<1> DEFINE At(t) == {i \in 1 .. n : e[i] \in t}
           sum == [t \in SUBSET D |-> s[At(t)]]
<1>5. /\ \A t : At(t) \in SUBSET (1 .. n) /\ s[At(t)] \in Nat
      /\ At({}) = {} /\ s[{}] = 0
  <2>1. s \in [SUBSET (1 .. n) -> Nat] /\ s[{}] = 0
    BY <1>3, <1>4 DEF SumsMemory
  <2> QED
    BY <2>1
<1>6. ASSUME NEW t \in SUBSET D, NEW x \in t PROVE sum[t] = f[x] + sum[t \ {x}]
  <2>1. PICK i \in 1 .. n : e[i] = x
    BY <1>2
  <2>2. i \in At(t) /\ At(t \ {x}) = At(t) \ {i}
    BY <1>2, <2>1
  <2>3. s[At(t)] = s[At(t) \ {i}] + rows[i].mem
    BY <1>3, <1>4, <1>5, <2>2, Zenon DEF SumsMemory
  <2>4. PICK u \in Nat, v \in Nat : u = s[At(t \ {x})] /\ v = f[x] /\ rows[i].mem = v
    <3> HIDE DEF At
    <3>1. s[At(t \ {x})] \in Nat
      BY <1>5
    <3>2. f[x] \in Nat /\ rows[i].mem = f[x]
      BY <1>3, <2>1
    <3> QED
      BY <3>1, <3>2
  <2>5. s[At(t)] = u + v
    BY <2>2, <2>3, <2>4, Zenon
  <2>6. t \ {x} \in SUBSET D
    OBVIOUS
  <2>7. sum[t] = u + v /\ sum[t \ {x}] = u
    <3>1. sum[t] = s[At(t)] /\ sum[t \ {x}] = s[At(t \ {x})]
      BY <2>6
    <3> HIDE DEF sum, At
    <3> QED
      BY <2>4, <2>5, <3>1
  <2> QED
    BY <2>4, <2>7
<1>7. sum \in [SUBSET D -> Nat] /\ sum[{}] = 0
  BY <1>5
<1> HIDE DEF sum
<1> QED
  BY <1>6, <1>7 DEF AddsUp

\* It is what any order of the terms comes to.
LEMMA SumsAgree ==
    ASSUME NEW D, IsFiniteSet(D), NEW f, NEW sum, AddsUp(sum, f, D),
           NEW g, AddsInOrder(g, f, D)
    PROVE  g[D] = sum[D]
<1> DEFINE T == {k \in Nat : \A t \in SUBSET D : Cardinality(t) = k => g[t] = sum[t]}
<1>1. \A t \in SUBSET D : IsFiniteSet(t) /\ Cardinality(t) \in Nat
  <2>1. \A t \in SUBSET D : IsFiniteSet(t)
    BY FS_Subset
  <2> QED
    BY <2>1, FS_CardinalityType
<1>2. 0 \in T
  <2>1. \A t \in SUBSET D : Cardinality(t) = 0 => t = {}
    BY <1>1, FS_EmptySet
  <2> QED
    BY <2>1 DEF AddsUp, AddsInOrder
<1>3. ASSUME NEW k \in Nat, k \in T PROVE k + 1 \in T
  <2>1. ASSUME NEW t \in SUBSET D, Cardinality(t) = k + 1 PROVE g[t] = sum[t]
    <3>1. t # {}
      <4>1. Cardinality({}) = 0
        BY FS_EmptySet
      <4>2. k + 1 # 0
        OBVIOUS
      <4> QED
        BY <2>1, <4>1, <4>2, Zenon
    <3>2. PICK x \in t : g[t] = f[x] + g[t \ {x}]
      BY <3>1 DEF AddsInOrder
    <3>3. Cardinality(t \ {x}) = k
      <4>1. Cardinality(t \ {x}) = Cardinality(t) - 1
        BY <1>1, FS_RemoveElement
      <4> QED
        BY <2>1, <4>1
    <3>4. g[t \ {x}] = sum[t \ {x}]
      BY <1>3, <3>3
    <3> QED
      BY <3>2, <3>4 DEF AddsUp
  <2>2. k + 1 \in Nat
    OBVIOUS
  <2> QED
    BY <2>1, <2>2
<1> HIDE DEF T
<1>4. Cardinality(D) \in T
  BY <1>1, <1>2, <1>3, SetInduction
<1> QED
  BY <1>4 DEF T

\* The memory of the rows in the buckets of a table.
Buckets(table) == [key \in DOMAIN table |-> MemoryOf(table[key])]

MemoryHeld(table) == FoldFunction(LAMBDA rows, sum : MemoryOf(rows) + sum, 0, table)

\* It is their sum.
LEMMA HeldIsSum ==
    ASSUME NEW table, IsFiniteSet(DOMAIN table), NEW sum,
           AddsUp(sum, Buckets(table), DOMAIN table)
    PROVE  MemoryHeld(table) = sum[DOMAIN table]
<1> DEFINE D == DOMAIN table
           Body(g) == [t \in SUBSET D |->
                          IF t = {} THEN 0
                          ELSE MemoryOf(table[CHOOSE x \in t : TRUE])
                                   + g[t \ {CHOOSE x \in t : TRUE}]]
           ot == CHOOSE g : g = Body(g)
<1>1. MemoryHeld(table) = ot[D]
  BY Zenon DEF MemoryHeld, FoldFunction, FoldFunctionOnSet, MapThenFoldSet
<1>2. \A t \in SUBSET D : t # {} => (CHOOSE x \in t : TRUE) \in t
  OBVIOUS
<1>3. \A x \in D : Buckets(table)[x] = MemoryOf(table[x])
  BY DEF Buckets
<1>4. sum = Body(sum)
  <2>1. ASSUME NEW t \in SUBSET D
        PROVE  sum[t] = IF t = {} THEN 0
                        ELSE MemoryOf(table[CHOOSE x \in t : TRUE])
                                 + sum[t \ {CHOOSE x \in t : TRUE}]
    BY <1>2, <1>3 DEF AddsUp
  <2> QED
    BY <2>1 DEF AddsUp
<1>5. ot = Body(ot)
  BY <1>4, Zenon
<1> HIDE DEF ot
<1>6. AddsInOrder(ot, Buckets(table), D)
  <2>1. ot[{}] = 0
    BY <1>5
  <2>2. ASSUME NEW t \in SUBSET D, t # {}
        PROVE  \E x \in t : ot[t] = Buckets(table)[x] + ot[t \ {x}]
    <3>1. PICK x \in t : x = CHOOSE y \in t : TRUE
      BY <1>2, <2>2
    <3>2. ot[t] = MemoryOf(table[x]) + ot[t \ {x}]
      BY <1>5, <2>2, <3>1
    <3> QED
      BY <1>3, <3>2
  <2> QED
    BY <2>1, <2>2 DEF AddsInOrder
<1> QED
  BY <1>1, <1>6, SumsAgree

\* A row that enters the table adds what it takes, whichever bucket it goes to.
LEMMA InsertAddsMemory ==
    ASSUME NEW table \in Tables, IsFiniteSet(DOMAIN table), NEW row \in Rows
    PROVE  /\ IsFiniteSet(DOMAIN TableInsert(table, row))
           /\ MemoryHeld(table) \in Nat
           /\ MemoryHeld(TableInsert(table, row)) = MemoryHeld(table) + row.mem
<1>1. PICK new, k, D, E :
          /\ new \in Tables /\ new = TableInsert(table, row) /\ k = row.key
          /\ D = DOMAIN table /\ E = D \cup {k}
  BY InsertTyped
<1>2. /\ DOMAIN new = E /\ new[k] = Append(Bucket(table, k), row)
      /\ \A x \in D \ {k} : new[x] = table[x]
  BY <1>1 DEF TableInsert
<1>3. IsFiniteSet(D) /\ IsFiniteSet(E) /\ IsFiniteSet(D \ {k})
  BY <1>1, FS_AddElement, FS_RemoveElement
<1>4. \A t \in Tables : \A x \in DOMAIN t : t[x] \in Seq(Rows) /\ MemoryOf(t[x]) \in Nat
  <2>1. \A t \in Tables : \A x \in DOMAIN t : t[x] \in Seq(Rows)
    BY DEF Tables
  <2> QED
    BY <2>1, MemoryAppend, RowFacts
<1>5. Bucket(table, k) \in Seq(Rows)
  BY <1>4 DEF Bucket
<1>6. MemoryOf(new[k]) = MemoryOf(Bucket(table, k)) + row.mem /\ row.mem \in Nat
  BY <1>2, <1>5, MemoryAppend, RowFacts
<1>7. Buckets(table) \in [D -> Nat] /\ Buckets(new) \in [E -> Nat]
  BY <1>1, <1>2, <1>4 DEF Buckets
<1>8. PICK sum, more : AddsUp(sum, Buckets(table), D) /\ AddsUp(more, Buckets(new), E)
  BY <1>3, <1>7, SumExists
<1>9. MemoryHeld(table) = sum[D] /\ MemoryHeld(new) = more[E] /\ sum[D] \in Nat
  <2>1. sum[D] \in Nat
    BY <1>8 DEF AddsUp
  <2> QED
    BY <1>1, <1>2, <1>3, <1>8, <2>1, HeldIsSum
<1>10. more[D \ {k}] = sum[D \ {k}]
  <2>1. PICK F, f : F = D \ {k} /\ f = [x \in F |-> MemoryOf(table[x])]
    OBVIOUS
  <2>2. /\ \A x \in F : Buckets(table)[x] = f[x] /\ Buckets(new)[x] = f[x]
        /\ F \subseteq D /\ F \subseteq E
    BY <1>1, <1>2, <2>1 DEF Buckets
  <2>3. PICK part : part = [t \in SUBSET F |-> sum[t]]
    OBVIOUS
  <2>4. AddsUp(part, f, F)
    BY <1>8, <2>2, <2>3 DEF AddsUp
  <2>5. AddsInOrder(more, f, F)
    BY <1>8, <2>2 DEF AddsUp, AddsInOrder
  <2>6. more[F] = part[F]
    BY <1>3, <2>1, <2>4, <2>5, SumsAgree
  <2> QED
    BY <2>1, <2>3, <2>6
<1>11. more[E] = sum[D] + row.mem
  <2>1. more[E] = MemoryOf(new[k]) + more[E \ {k}] /\ E \ {k} = D \ {k}
    <3>1. k \in E /\ E \in SUBSET E /\ E \ {k} = D \ {k}
      BY <1>1
    <3>2. more[E] = Buckets(new)[k] + more[E \ {k}]
      BY <1>8, <3>1, Zenon DEF AddsUp
    <3>3. Buckets(new)[k] = MemoryOf(new[k])
      BY <1>2, <3>1 DEF Buckets
    <3> QED
      BY <3>1, <3>2, <3>3, Zenon
  <2>2. PICK m \in Nat, u \in Nat : m = MemoryOf(Bucket(table, k)) /\ u = sum[D \ {k}]
    <3>1. MemoryOf(Bucket(table, k)) \in Nat
      BY <1>5, MemoryAppend, RowFacts
    <3>2. sum[D \ {k}] \in Nat
      BY <1>8 DEF AddsUp
    <3> QED
      BY <3>1, <3>2
  <2>3. more[E] = (m + row.mem) + u
    BY <1>6, <1>10, <2>1, <2>2, Zenon
  <2>4. sum[D] = m + u
    <3>1. CASE k \in D
      <4>1. sum[D] = Buckets(table)[k] + sum[D \ {k}]
        BY <1>8, <3>1 DEF AddsUp
      <4>2. Buckets(table)[k] = m
        BY <1>1, <2>2, <3>1 DEF Buckets, Bucket
      <4> QED
        BY <2>2, <4>1, <4>2, Zenon
    <3>2. CASE k \notin D
      <4>1. D \ {k} = D
        BY <3>2
      <4>2. m = 0
        <5>1. Bucket(table, k) = <<>>
          BY <1>1, <3>2 DEF Bucket
        <5>2. MemoryOf(<<>>) = 0
          BY <1>5, MemoryAppend, RowFacts
        <5> QED
          BY <2>2, <5>1, <5>2, Zenon
      <4>3. sum[D] = u
        BY <2>2, <4>1, Zenon
      <4> QED
        BY <4>2, <4>3
    <3> QED
      BY <3>1, <3>2
  <2> QED
    BY <1>6, <2>3, <2>4
<1> QED
  BY <1>1, <1>2, <1>3, <1>9, <1>11, Zenon

\* While the table is kept in memory, its bytes have been counted.
Counted ==
    phase \in {"Build", "InMemory"} =>
        /\ IsFiniteSet(DOMAIN hash_table) /\ right_bytes \in Nat
        /\ MemoryHeld(hash_table) = right_bytes /\ right_bytes < INMEM_BUILD_BUDGET

\* MemoryWithinBudget: a join that is done in memory keeps less than the build
\* budget there, and a partition buffer never reaches the flush threshold.
THEOREM HashJoinMemoryWithinBudget ==
    ASSUME RowsSized(Rows)
    PROVE  Spec => []MemoryWithinBudget
<1>1. Init => Counted
  <2> SUFFICES ASSUME Init PROVE Counted
    OBVIOUS
  <2>1. hash_table = EmptyTable /\ right_bytes = 0 /\ DOMAIN EmptyTable = {}
    BY DEF Init, EmptyTable
  <2>2. IsFiniteSet({})
    BY FS_EmptySet
  <2>3. PICK f \in [{} -> Nat] : f = Buckets(EmptyTable)
    BY <2>1 DEF Buckets
  <2>4. PICK sum : AddsUp(sum, Buckets(EmptyTable), {}) /\ sum[{}] = 0
    BY <2>2, <2>3, SumExists DEF AddsUp
  <2>5. MemoryHeld(EmptyTable) = sum[{}]
    BY <2>1, <2>2, <2>4, HeldIsSum
  <2>6. 0 < INMEM_BUILD_BUDGET
    BY RowFacts
  <2> QED
    BY <2>1, <2>2, <2>4, <2>5, <2>6 DEF Counted
<1>2. IInv /\ Counted /\ [Next]_vars => Counted'
  <2> SUFFICES ASSUME IInv, Counted, [Next]_vars PROVE Counted'
    OBVIOUS
  <2>1. CASE Build
    <3>1. PICK row : row = right_input[right_pulled + 1]
      OBVIOUS
    <3>2. /\ phase = "Build" /\ right_bytes' = right_bytes + row.mem
          /\ hash_table' = TableInsert(hash_table, row)
          /\ phase' = IF right_bytes' >= INMEM_BUILD_BUDGET THEN "Repartition" ELSE "Build"
      BY <2>1, <3>1 DEF Build
    <3>3. row \in Rows
      BY <2>1, <3>1, PullFacts DEF IInv, TypeOK, Build
    <3>4. hash_table \in Tables
      BY <3>2 DEF IInv, Placed, TableHolds
    <3>5. /\ IsFiniteSet(DOMAIN hash_table') /\ right_bytes \in Nat /\ row.mem \in Nat
          /\ MemoryHeld(hash_table') = right_bytes + row.mem
      BY <3>2, <3>3, <3>4, InsertAddsMemory, RowFacts DEF Counted
    <3>6. right_bytes' \in Nat /\ INMEM_BUILD_BUDGET \in Nat
      BY <3>2, <3>5, RowFacts
    <3>7. phase' = "Build" => right_bytes' < INMEM_BUILD_BUDGET
      BY <3>2, <3>6
    <3> QED
      BY <3>2, <3>5, <3>6, <3>7 DEF Counted
  <2>2. CASE ~Build
    <3>1. phase' \in {"Build", "InMemory"} =>
              /\ phase \in {"Build", "InMemory"}
              /\ hash_table' = hash_table /\ right_bytes' = right_bytes
      BY <2>2 DEF Next, ChildSpill, BuiltInMemory, RepartitionEntry, PartitionRight,
                  FinishRight, PartitionLeft, FinishLeft, ReturnMatch, StreamLeft,
                  OpenPartition, ProbePartition, ClosePartition, EndOfPartitions, Stopped,
                  NeedsLeft, Probing, vars, IInv, Reading
    <3> QED
      BY <3>1 DEF Counted
  <2> QED
    BY <2>1, <2>2
<1>3. IInv /\ Counted => MemoryWithinBudget
  <2> SUFFICES ASSUME IInv, Counted PROVE MemoryWithinBudget
    OBVIOUS
  <2>1. TableMemory = MemoryHeld(hash_table)
    BY Zenon DEF TableMemory, MemoryHeld
  <2>2. \A p \in Partitions : /\ bufs.buf_bytes[p] = MemoryOf(bufs.buffers[p])
                              /\ bufs.buf_bytes[p] < FLUSH_THRESHOLD
    BY DEF IInv, TypeOK, Store, BoundedStores, Stores
  <2> QED
    BY <2>1, <2>2 DEF Counted, MemoryWithinBudget
<1> QED
  BY <1>1, <1>2, <1>3, IInvHolds, PTL DEF Spec
=============================================================================
