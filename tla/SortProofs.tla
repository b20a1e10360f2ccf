------------------------------ MODULE SortProofs ------------------------------
(* The external merge sort, for every input, budget and batch size: what it  *)
(* has pulled is in the buffer, in the runs on the disk, in the readers or   *)
(* returned, no run is overwritten, and what it returns is in order.         *)
EXTENDS SortOperator, RowBlocksProofs, FiniteSetTheorems
-----------------------------------------------------------------------------
\* What a stable sort returns: the rows, each in a new place.
Permuted(rows, sorted, p) ==
    /\ p \in Bijection(DOMAIN rows, DOMAIN rows)
    /\ sorted = [i \in DOMAIN rows |-> rows[p[i]]]

\* Sorting a buffer does not change what it takes.
LEMMA MemoryPermuted ==
    ASSUME NEW R, \A r \in R : r.mem \in Nat, NEW rows \in Seq(R),
           NEW sorted \in Seq(R), NEW p, Permuted(rows, sorted, p)
    PROVE  MemoryOf(sorted) = MemoryOf(rows)
<1> DEFINE D == DOMAIN rows
           Image(t) == {p[i] : i \in t}
<1>1. /\ p \in [D -> D] /\ \A i, j \in D : p[i] = p[j] => i = j
      /\ \A j \in D : \E i \in D : p[i] = j
  BY Zenon DEF Permuted, Bijection, Injection, Surjection, IsInjective
<1>2. /\ D = 1 .. Len(rows) /\ Len(rows) \in Nat
      /\ DOMAIN sorted = D /\ \A i \in D : sorted[i] = rows[p[i]]
  BY LenProperties DEF Permuted
<1>3. PICK sum : SumsMemory(sum, rows) /\ MemoryOf(rows) = sum[D]
  BY MemorySum
<1>4. PICK sum2 : SumsMemory(sum2, sorted) /\ MemoryOf(sorted) = sum2[D]
  BY <1>2, MemorySum
<1>s. /\ \A t \in SUBSET D : \A x \in t : sum[t] = sum[t \ {x}] + rows[x].mem
      /\ \A t \in SUBSET D : \A x \in t : sum2[t] = sum2[t \ {x}] + sorted[x].mem
      /\ sum[{}] = 0 /\ sum2[{}] = 0
  BY <1>2, <1>3, <1>4 DEF SumsMemory
<1> DEFINE T == {n \in Nat : n <= Len(rows) => sum2[1 .. n] = sum[Image(1 .. n)]}
<1>5. 0 \in T
  <2>1. 1 .. 0 = {} /\ Image({}) = {}
    OBVIOUS
  <2> QED
    BY <1>s, <2>1
<1>6. ASSUME NEW n \in Nat, n \in T PROVE n + 1 \in T
  <2> SUFFICES ASSUME n + 1 <= Len(rows) PROVE sum2[1 .. n + 1] = sum[Image(1 .. n + 1)]
    OBVIOUS
  <2>1. /\ n + 1 \in 1 .. n + 1 /\ (1 .. n + 1) \ {n + 1} = 1 .. n
        /\ 1 .. n + 1 \in SUBSET D /\ n <= Len(rows) /\ n + 1 \in D
    BY <1>2
  <2>2. sum2[1 .. n + 1] = sum2[1 .. n] + rows[p[n + 1]].mem
    <3>1. sum2[1 .. n + 1] = sum2[(1 .. n + 1) \ {n + 1}] + sorted[n + 1].mem
      BY <1>s, <2>1, Zenon
    <3>2. sorted[n + 1] = rows[p[n + 1]]
      BY <1>2, <2>1, Zenon
    <3> QED
      BY <2>1, <3>1, <3>2, Zenon
  <2>3. Image(1 .. n + 1) \in SUBSET D /\ p[n + 1] \in Image(1 .. n + 1)
    BY <1>1, <2>1
  <2>4. Image(1 .. n + 1) \ {p[n + 1]} = Image(1 .. n)
    <3>1. \A i \in 1 .. n : i \in 1 .. n + 1 /\ i \in D /\ i # n + 1
      BY <1>2
    <3>2. \A i \in 1 .. n + 1 : i \in 1 .. n \/ i = n + 1
      OBVIOUS
    <3>3. \A i \in 1 .. n : p[i] # p[n + 1]
      BY <1>1, <2>1, <3>1
    <3> QED
      BY <3>1, <3>2, <3>3
  <2>5. sum[Image(1 .. n + 1)] = sum[Image(1 .. n)] + rows[p[n + 1]].mem
    <3>1. PICK t \in SUBSET D : t = Image(1 .. n + 1)
      BY <2>3
    <3>2. PICK x \in t : x = p[n + 1]
      BY <2>3, <3>1
    <3>3. sum[t] = sum[t \ {x}] + rows[x].mem
      BY <1>s
    <3> HIDE DEF Image
    <3>4. t \ {x} = Image(1 .. n)
      BY <2>4, <3>1, <3>2
    <3> QED
      BY <3>1, <3>2, <3>3, <3>4
  <2> QED
    BY <1>6, <2>1, <2>2, <2>5
<1> HIDE DEF T
<1>7. Len(rows) \in T
  BY <1>2, <1>5, <1>6, SetInduction
<1>8. Image(D) = D
  <2>1. \A i \in D : p[i] \in D
    BY <1>1
  <2>2. \A j \in D : j \in Image(D)
    BY <1>1
  <2>3. \A j \in Image(D) : j \in D
    BY <2>1
  <2> HIDE DEF Image
  <2> QED
    BY <2>2, <2>3
<1>9. sum2[D] = sum[Image(D)]
  BY <1>2, <1>7 DEF T
<1> QED
  BY <1>3, <1>4, <1>8, <1>9, Zenon
-----------------------------------------------------------------------------

InOrder(rows) == \A i, j \in DOMAIN rows : i < j => ~RowLess(rows[j], rows[i])

\* Two rows are never each before the other, and a row between two others is
\* after the first or before the second.
RowOrder ==
    /\ \A a, b \in Rows : RowLess(a, b) => ~RowLess(b, a)
    /\ \A a, b, c \in Rows : RowLess(a, c) => RowLess(a, b) \/ RowLess(b, c)

\* The rows of a run, sorted, are the same rows.
LEMMA SortedRows ==
    ASSUME NEW rows \in Seq(Rows), NEW sorted \in StableSorts(rows)
    PROVE  /\ sorted \in Seq(Rows) /\ Len(sorted) = Len(rows)
           /\ ToSet(sorted) = ToSet(rows)
           /\ MemoryOf(sorted) = MemoryOf(rows)
           /\ Packable(rows) => Packable(sorted)
<1>1. PICK p : Permuted(rows, sorted, p)
  BY Zenon DEF StableSorts, Permuted
<1>2. /\ p \in [DOMAIN rows -> DOMAIN rows]
      /\ \A j \in DOMAIN rows : \E i \in DOMAIN rows : p[i] = j
      /\ sorted = [i \in DOMAIN rows |-> rows[p[i]]]
  BY <1>1, Zenon DEF Permuted, Bijection, Injection, Surjection
<1>3. DOMAIN rows = 1 .. Len(rows) /\ Len(rows) \in Nat
  BY LenProperties
<1>4. \A i \in 1 .. Len(rows) : p[i] \in 1 .. Len(rows) /\ rows[p[i]] \in Rows
  BY <1>2, <1>3, ElementOfSeq
<1>5. sorted \in Seq(Rows) /\ Len(sorted) = Len(rows) /\ DOMAIN sorted = DOMAIN rows
  BY <1>2, <1>3, <1>4
<1>6. \A i \in DOMAIN rows : sorted[i] = rows[p[i]] /\ p[i] \in DOMAIN rows
  BY <1>2
<1>7. ToSet(sorted) = ToSet(rows)
  <2>1. \A i \in DOMAIN rows : sorted[i] \in ToSet(rows)
    BY <1>6 DEF ToSet
  <2>2. \A j \in DOMAIN rows : rows[j] \in ToSet(sorted)
    BY <1>2, <1>5, <1>6 DEF ToSet
  <2> QED
    BY <1>5, <2>1, <2>2 DEF ToSet
<1>8. MemoryOf(sorted) = MemoryOf(rows)
  BY <1>1, <1>5, MemoryPermuted, SortAssumption
<1>9. Packable(rows) => Packable(sorted)
  BY <1>5, <1>6 DEF Packable
<1> QED
  BY <1>5, <1>7, <1>8, <1>9

\* And they are in order.
LEMMA SortedOrder ==
    ASSUME RowOrder, NEW rows \in Seq(Rows), NEW sorted \in StableSorts(rows)
    PROVE  InOrder(sorted)
<1>1. PICK p : /\ p \in Bijection(DOMAIN rows, DOMAIN rows)
               /\ sorted = [i \in DOMAIN rows |-> rows[p[i]]]
               /\ \A i, j \in DOMAIN rows : i < j =>
                     \/ RowLess(rows[p[i]], rows[p[j]])
                     \/ ~RowLess(rows[p[j]], rows[p[i]]) /\ p[i] < p[j]
  BY Zenon DEF StableSorts
<1>2. p \in [DOMAIN rows -> DOMAIN rows]
  BY <1>1, Zenon DEF Bijection, Injection
<1>3. \A i \in DOMAIN rows : rows[p[i]] \in Rows /\ sorted[i] = rows[p[i]]
  BY <1>1, <1>2, LenProperties, ElementOfSeq
<1>4. DOMAIN sorted = DOMAIN rows
  BY <1>1
<1> QED
  BY <1>1, <1>3, <1>4, Zenon DEF InOrder, RowOrder
-----------------------------------------------------------------------------
\* A reader somewhere in a run.
ReaderIn(reader, run) ==
    /\ reader \in [start_block : {run.start_block}, total_blocks : {run.num_blocks},
                   blocks_read : 0 .. run.num_blocks, buffer : Seq(Rows), buf_idx : Nat,
                   batch_blocks : Nat \ {0}]
    /\ reader.buf_idx <= Len(reader.buffer)

\* Between calls a reader has a row in its buffer, or nothing left on the disk.
ReaderOn(reader, run) ==
    /\ ReaderIn(reader, run)
    /\ reader.buf_idx = Len(reader.buffer) => reader.blocks_read = run.num_blocks

\* Unread, for any disk.
OnDiskRest(store, reader) ==
    RunRows(store, reader.start_block + reader.blocks_read,
            reader.total_blocks - reader.blocks_read)

Rest(store, reader) ==
    SubSeq(reader.buffer, reader.buf_idx + 1, Len(reader.buffer)) \o OnDiskRest(store, reader)

\* What a reader buffers comes from at most one batch of its blocks.
OneBatch(store, reader, run) ==
    \E m, t \in Nat : /\ m + t <= run.num_blocks /\ t <= reader.batch_blocks
                      /\ reader.buffer = RunRows(store, run.start_block + m, t)

\* load_next_batch moves rows from the disk to the buffer, and loses none.
LEMMA LoadNextBatch ==
    ASSUME RowsSized(Rows), NEW store, NEW run, RunOnDisk(Rows, store, run),
           NEW reader, ReaderIn(reader, run)
    PROVE  LET loaded == load_next_batch(store, reader)
           IN  /\ ReaderOn(loaded, run)
               /\ Rest(store, loaded) = OnDiskRest(store, reader)
               /\ OneBatch(store, loaded, run)
               /\ loaded.batch_blocks = reader.batch_blocks
<1> DEFINE loaded == load_next_batch(store, reader)
           Batch(from) ==
               LET to_read == Min({reader.total_blocks - from, reader.batch_blocks})
               IN  DecodeBlocks(read_blocks(store, reader.start_block + from, to_read))
           Starts == {from \in reader.blocks_read .. reader.total_blocks - 1 :
                         (from - reader.blocks_read) % reader.batch_blocks = 0}
           Yielding == {from \in Starts : Batch(from) # <<>>}
<1>1. PICK start \in Nat, n \in Nat, m \in Nat, k \in Nat \ {0} :
          /\ start = reader.start_block /\ n = reader.total_blocks
          /\ m = reader.blocks_read /\ k = reader.batch_blocks /\ m <= n
          /\ start = run.start_block /\ n = run.num_blocks
  BY DEF ReaderIn, RunOnDisk, Run
<1>2. loaded = IF Yielding = {}
               THEN [reader EXCEPT !.buffer = <<>>, !.buf_idx = 0,
                                   !.blocks_read = reader.total_blocks]
               ELSE [reader EXCEPT !.buffer = Batch(Min(Yielding)), !.buf_idx = 0,
                                   !.blocks_read = Min({reader.total_blocks,
                                                        Min(Yielding) + reader.batch_blocks})]
  BY Zenon DEF load_next_batch
<1>3. PICK at \in Nat, left \in Nat : at = start + m /\ left = n - m
  <2>1. start + m \in Nat /\ n - m \in Nat
    BY <1>1
  <2> QED
    BY <2>1
<1>4. Stored(Rows, store, at, left) /\ OnDiskRest(store, reader) = RunRows(store, at, left)
  <2>1. Stored(Rows, store, start, m + left)
    BY <1>1, <1>3 DEF RunOnDisk
  <2>2. Splits(Rows, store, start, m, left)
    BY <2>1, SplitRun
  <2> QED
    BY <1>1, <1>3, <2>2 DEF Splits, OnDiskRest
<1> HIDE DEF loaded
<1>5. CASE left = 0
  <2>1. Yielding = {}
    BY <1>1, <1>3, <1>5
  <2>2. loaded = [reader EXCEPT !.buffer = <<>>, !.buf_idx = 0, !.blocks_read = n]
    BY <1>1, <1>2, <2>1
  <2> HIDE DEF Batch, Starts, Yielding
  <2>3. ReaderOn(loaded, run)
    <3>1. n \in 0 .. run.num_blocks /\ <<>> \in Seq(Rows) /\ Len(<<>>) = 0 /\ 0 <= 0
      BY <1>1
    <3>2. ReaderIn(loaded, run)
      BY <2>2, <3>1 DEF ReaderIn
    <3> QED
      BY <1>1, <2>2, <3>2 DEF ReaderOn, ReaderIn
  <2>4. OnDiskRest(store, loaded) = RunRows(store, at, left)
    <3>1. /\ loaded.start_block = start /\ loaded.blocks_read = n
          /\ loaded.total_blocks = n
      BY <1>1, <2>2 DEF ReaderIn
    <3>2. start + n = at /\ n - n = left
      BY <1>1, <1>3, <1>5
    <3> QED
      BY <3>1, <3>2, Zenon DEF OnDiskRest
  <2>5. SubSeq(loaded.buffer, loaded.buf_idx + 1, Len(loaded.buffer)) = <<>>
    <3>1. loaded.buffer = <<>> /\ loaded.buf_idx = 0
      BY <2>2 DEF ReaderIn
    <3> QED
      BY <3>1, SubSeqEmpty
  <2>6. RunRows(store, at, left) \in Seq(Rows)
    BY <1>4, StoredYields DEF YieldsRows
  <2>7. Rest(store, loaded) = OnDiskRest(store, reader)
    BY <1>4, <2>4, <2>5, <2>6, ConcatEmptySeq DEF Rest
  <2>8. loaded.batch_blocks = k /\ loaded.buffer = <<>>
    BY <1>1, <2>2 DEF ReaderIn
  <2>9. OneBatch(store, loaded, run)
    <3>1. RunRows(store, run.start_block + m, 0) = <<>>
      <4>1. Stored(Rows, store, at, 0)
        BY <1>4, <1>5
      <4> QED
        BY <1>1, <1>3, <4>1, StoredYields DEF YieldsRows
    <3>2. m + 0 <= run.num_blocks /\ 0 <= k
      BY <1>1
    <3> QED
      BY <2>8, <3>1, <3>2 DEF OneBatch
  <2> QED
    BY <1>1, <2>3, <2>7, <2>8, <2>9 DEF loaded
<1>6. CASE left # 0
  <2>1. PICK t \in Nat, rest \in Nat : /\ t = Min({left, k}) /\ rest = left - t
                                       /\ t # 0 /\ left = t + rest
    <3>1. Min({left, k}) = IF left <= k THEN left ELSE k
      BY MinOfTwo
    <3>2. Min({left, k}) \in Nat /\ Min({left, k}) # 0 /\ left - Min({left, k}) \in Nat
      BY <1>6, <3>1
    <3> QED
      BY <3>2
  <2>2. Splits(Rows, store, at, t, rest)
    BY <1>4, <2>1, SplitRun
  <2>3. YieldsRows(Rows, store, at, t)
    BY <2>2, StoredYields DEF Splits
  <2>4. Batch(m) = RunRows(store, at, t)
    BY <1>1, <1>3, <2>1, Zenon DEF RunRows
  <2>5. m \in Yielding /\ \A y \in Yielding : m <= y /\ y \in Nat
    <3>1. m \in Starts
      <4>1. m \in reader.blocks_read .. reader.total_blocks - 1
        BY <1>1, <1>3, <1>6
      <4>2. (m - reader.blocks_read) % reader.batch_blocks = 0
        <5>1. 0 % k = 0 /\ m - m = 0
          OBVIOUS
        <5> QED
          BY <1>1, <5>1
      <4> QED
        BY <4>1, <4>2
    <3>2. Batch(m) # <<>>
      BY <2>1, <2>3, <2>4 DEF YieldsRows
    <3>3. \A y \in Starts : m <= y /\ y \in Nat
      BY <1>1
    <3> HIDE DEF Batch, Starts
    <3> QED
      BY <3>1, <3>2, <3>3
  <2>6. Min(Yielding) = m
    <3> HIDE DEF Yielding
    <3>1. \E x \in Yielding : \A y \in Yielding : x <= y
      BY <2>5
    <3>2. Min(Yielding) \in Yielding /\ \A y \in Yielding : Min(Yielding) <= y
      BY <3>1, Zenon DEF Min
    <3>3. PICK z \in Yielding : z = Min(Yielding) /\ \A y \in Yielding : z <= y
      BY <3>2, Zenon
    <3>4. z <= m /\ m <= z /\ z \in Nat
      BY <2>5, <3>3
    <3> QED
      BY <3>3, <3>4
  <2>7. Min({n, m + k}) = m + t
    <3>1. m + k \in Nat
      OBVIOUS
    <3>2. Min({n, m + k}) = IF n <= m + k THEN n ELSE m + k
      BY <3>1, MinOfTwo
    <3>3. t = IF left <= k THEN left ELSE k
      BY <2>1, MinOfTwo
    <3> QED
      BY <1>1, <1>3, <3>2, <3>3
  <2>8. loaded = [reader EXCEPT !.buffer = RunRows(store, at, t), !.buf_idx = 0,
                                !.blocks_read = m + t]
    <3>1. Yielding # {}
      BY <2>5
    <3> HIDE DEF Yielding, Batch
    <3> QED
      BY <1>1, <1>2, <2>4, <2>6, <2>7, <3>1
  <2> HIDE DEF Batch, Starts, Yielding
  <2> DEFINE buffer == RunRows(store, at, t)
  <2>9. buffer \in Seq(Rows) /\ buffer # <<>> /\ Len(buffer) \in Nat \ {0}
    <3>1. buffer \in Seq(Rows) /\ buffer # <<>>
      BY <2>1, <2>3 DEF YieldsRows
    <3> QED
      BY <3>1, EmptySeq
  <2>10. PICK read \in Nat : read = m + t
    OBVIOUS
  <2>11. read \in 0 .. run.num_blocks
    BY <1>1, <1>3, <2>1, <2>10
  <2> HIDE DEF buffer
  <2>12. loaded = [reader EXCEPT !.buffer = buffer, !.buf_idx = 0, !.blocks_read = read]
    BY <2>8, <2>10 DEF buffer
  <2>13. ReaderIn(loaded, run) /\ loaded.buf_idx = 0 /\ loaded.buffer = buffer
    <3>1. loaded.buf_idx = 0 /\ loaded.buffer = buffer
      BY <2>12 DEF ReaderIn
    <3>2. loaded \in [start_block : {run.start_block}, total_blocks : {run.num_blocks},
                      blocks_read : 0 .. run.num_blocks, buffer : Seq(Rows), buf_idx : Nat,
                      batch_blocks : Nat \ {0}]
      BY <2>9, <2>11, <2>12 DEF ReaderIn
    <3>3. 0 <= Len(buffer)
      BY <2>9
    <3> QED
      BY <3>1, <3>2, <3>3 DEF ReaderIn
  <2>14. ReaderOn(loaded, run)
    BY <2>9, <2>13 DEF ReaderOn
  <2>15. OnDiskRest(store, loaded) = RunRows(store, at + t, rest)
    <3>1. /\ loaded.start_block = start /\ loaded.blocks_read = read
          /\ loaded.total_blocks = n
      BY <1>1, <2>12 DEF ReaderIn
    <3>2. start + read = at + t /\ n - read = rest
      BY <1>1, <1>3, <2>1, <2>10
    <3> QED
      BY <3>1, <3>2, Zenon DEF OnDiskRest
  <2>16. SubSeq(loaded.buffer, loaded.buf_idx + 1, Len(loaded.buffer)) = buffer
    <3>1. SubSeq(buffer, 1, Len(buffer)) = buffer
      BY <2>9, SubSeqFull
    <3>2. 0 + 1 = 1
      OBVIOUS
    <3> QED
      BY <2>13, <3>1, <3>2, Zenon
  <2>17. RunRows(store, at, left) = buffer \o RunRows(store, at + t, rest)
    BY <2>1, <2>2 DEF Splits, buffer
  <2>18. Rest(store, loaded) = OnDiskRest(store, reader)
    BY <1>4, <2>15, <2>16, <2>17, Zenon DEF Rest
  <2>19. loaded.batch_blocks = k
    BY <1>1, <2>12 DEF ReaderIn
  <2>20. OneBatch(store, loaded, run)
    <3>1. m + t <= run.num_blocks /\ t <= k
      <4>1. t = IF left <= k THEN left ELSE k
        BY <2>1, MinOfTwo
      <4>2. m + t <= n /\ t <= k
        BY <1>3, <4>1
      <4> QED
        BY <1>1, <4>2
    <3>2. loaded.buffer = RunRows(store, run.start_block + m, t)
      BY <1>1, <1>3, <2>13 DEF buffer
    <3> QED
      BY <2>19, <3>1, <3>2 DEF OneBatch
  <2> QED
    BY <1>1, <2>14, <2>18, <2>19, <2>20 DEF loaded
<1> QED
  BY <1>5, <1>6

\* What is left of a run, for a reader between two calls.
LEMMA ReaderRest ==
    ASSUME RowsSized(Rows), NEW store, NEW run, RunOnDisk(Rows, store, run),
           NEW reader, ReaderIn(reader, run)
    PROVE  /\ OnDiskRest(store, reader) \in Seq(Rows) /\ Rest(store, reader) \in Seq(Rows)
           /\ reader.buffer \in Seq(Rows) /\ reader.buf_idx \in 0 .. Len(reader.buffer)
           /\ Len(reader.buffer) \in Nat
           /\ ~is_empty(reader) <=> reader.buf_idx < Len(reader.buffer)
           /\ ReaderOn(reader, run) /\ is_empty(reader) => Rest(store, reader) = <<>>
<1>1. PICK start \in Nat, n \in Nat, m \in Nat, i \in Nat, L \in Nat :
          /\ start = reader.start_block /\ n = reader.total_blocks
          /\ m = reader.blocks_read /\ m <= n /\ i = reader.buf_idx
          /\ start = run.start_block /\ n = run.num_blocks
          /\ L = Len(reader.buffer) /\ i <= L /\ reader.buffer \in Seq(Rows)
  <2>1. reader.buffer \in Seq(Rows)
    BY DEF ReaderIn
  <2>2. Len(reader.buffer) \in Nat
    BY <2>1, LenProperties
  <2> QED
    BY <2>1, <2>2 DEF ReaderIn, RunOnDisk, Run
<1>2. PICK at \in Nat, left \in Nat : at = start + m /\ left = n - m
  <2>1. start + m \in Nat /\ n - m \in Nat
    BY <1>1
  <2> QED
    BY <2>1
<1>3. Stored(Rows, store, at, left) /\ OnDiskRest(store, reader) = RunRows(store, at, left)
  <2>1. Stored(Rows, store, start, m + left)
    BY <1>1, <1>2 DEF RunOnDisk
  <2>2. Splits(Rows, store, start, m, left)
    BY <2>1, SplitRun
  <2> QED
    BY <1>1, <1>2, <2>2 DEF Splits, OnDiskRest
<1>4. YieldsRows(Rows, store, at, left)
  BY <1>3, StoredYields
<1>5. OnDiskRest(store, reader) \in Seq(Rows)
  BY <1>3, <1>4 DEF YieldsRows
<1>6. SubSeq(reader.buffer, i + 1, L) \in Seq(Rows)
  <2>1. i + 1 \in Int /\ L \in Int /\ \A j \in i + 1 .. L : reader.buffer[j] \in Rows
    BY <1>1, ElementOfSeq
  <2> QED
    BY <2>1, SubSeqProperties
<1>7. Rest(store, reader) \in Seq(Rows)
  BY <1>1, <1>5, <1>6, ConcatProperties DEF Rest
<1>8. ~is_empty(reader) <=> i < L
  BY <1>1 DEF is_empty
<1>9. ASSUME ReaderOn(reader, run), is_empty(reader) PROVE Rest(store, reader) = <<>>
  <2>1. i = L /\ left = 0
    BY <1>1, <1>2, <1>8, <1>9 DEF ReaderOn
  <2>2. OnDiskRest(store, reader) = <<>>
    BY <1>3, <1>4, <2>1 DEF YieldsRows
  <2>3. SubSeq(reader.buffer, i + 1, L) = <<>>
    BY <2>1, SubSeqEmpty
  <2>4. <<>> \o <<>> = <<>>
    OBVIOUS
  <2> QED
    BY <1>1, <2>2, <2>3, <2>4, Zenon DEF Rest
<1> QED
  BY <1>1, <1>5, <1>7, <1>8, <1>9

\* A reader that is opened on a run has all of it to hand out.
LEMMA OpenReader ==
    ASSUME RowsSized(Rows), NEW store, NEW run, RunOnDisk(Rows, store, run), NEW batch \in Nat \ {0}
    PROVE  LET reader == NewReader(store, run, batch)
           IN  /\ ReaderOn(reader, run)
               /\ Rest(store, reader) = RunRows(store, run.start_block, run.num_blocks)
               /\ OneBatch(store, reader, run) /\ reader.batch_blocks = batch
<1> DEFINE fresh == [start_block |-> run.start_block, total_blocks |-> run.num_blocks,
                     blocks_read |-> 0, buffer |-> <<>>, buf_idx |-> 0,
                     batch_blocks |-> batch]
<1>1. run.start_block \in Nat /\ run.num_blocks \in Nat
  BY DEF RunOnDisk, Run
<1>2. ReaderIn(fresh, run)
  <2>1. 0 \in 0 .. run.num_blocks /\ <<>> \in Seq(Rows) /\ Len(<<>>) = 0 /\ 0 <= 0
    BY <1>1
  <2> QED
    BY <2>1 DEF ReaderIn
<1>3. NewReader(store, run, batch) = load_next_batch(store, fresh)
  BY DEF NewReader
<1>4. OnDiskRest(store, fresh) = RunRows(store, run.start_block, run.num_blocks)
  <2>1. run.start_block + 0 = run.start_block /\ run.num_blocks - 0 = run.num_blocks
    BY <1>1
  <2>2. /\ fresh.start_block = run.start_block /\ fresh.total_blocks = run.num_blocks
        /\ fresh.blocks_read = 0
    OBVIOUS
  <2> HIDE DEF fresh
  <2> QED
    BY <2>1, <2>2, Zenon DEF OnDiskRest
<1>f. fresh.batch_blocks = batch
  OBVIOUS
<1> HIDE DEF fresh
<1>5. /\ ReaderOn(load_next_batch(store, fresh), run)
      /\ Rest(store, load_next_batch(store, fresh)) = OnDiskRest(store, fresh)
      /\ OneBatch(store, load_next_batch(store, fresh), run)
      /\ load_next_batch(store, fresh).batch_blocks = fresh.batch_blocks
  BY <1>2, LoadNextBatch
<1> QED
  BY <1>3, <1>4, <1>5, <1>f

\* A reader that has moved on has handed out its head and keeps the rest.
LEMMA AdvanceReader ==
    ASSUME RowsSized(Rows), NEW store, NEW run, RunOnDisk(Rows, store, run),
           NEW reader, ReaderOn(reader, run), ~is_empty(reader)
    PROVE  LET moved == advance(store, reader)
           IN  /\ ReaderOn(moved, run) /\ peek(reader) \in Rows
               /\ Rest(store, reader) = <<peek(reader)>> \o Rest(store, moved)
               /\ OneBatch(store, reader, run) => OneBatch(store, moved, run)
               /\ moved.batch_blocks = reader.batch_blocks
<1> DEFINE next == [reader EXCEPT !.buf_idx = @ + 1]
<1>0. ReaderIn(reader, run)
  BY DEF ReaderOn
<1>1. /\ reader.buffer \in Seq(Rows) /\ OnDiskRest(store, reader) \in Seq(Rows)
      /\ reader.buf_idx < Len(reader.buffer)
  BY <1>0, ReaderRest
<1>2. PICK i \in Nat, L \in Nat : i = reader.buf_idx /\ L = Len(reader.buffer) /\ i < L
  BY <1>0, <1>1, LenProperties DEF ReaderIn
<1>3. ReaderIn(next, run) /\ next.buffer = reader.buffer /\ next.buf_idx = i + 1
  <2>1. i + 1 \in Nat /\ i + 1 <= L
    BY <1>2
  <2>2. next.buffer = reader.buffer /\ next.buf_idx = i + 1
    BY <1>0, <1>2 DEF ReaderIn
  <2>3. next \in [start_block : {run.start_block}, total_blocks : {run.num_blocks},
                  blocks_read : 0 .. run.num_blocks, buffer : Seq(Rows), buf_idx : Nat,
                  batch_blocks : Nat \ {0}]
    BY <1>0, <1>2, <2>1 DEF ReaderIn
  <2> HIDE DEF next
  <2> QED
    BY <1>2, <2>1, <2>2, <2>3 DEF ReaderIn
<1>4. OnDiskRest(store, next) = OnDiskRest(store, reader)
  <2>1. /\ next.start_block = reader.start_block /\ next.total_blocks = reader.total_blocks
        /\ next.blocks_read = reader.blocks_read
    BY <1>0 DEF ReaderIn
  <2> HIDE DEF next
  <2> QED
    BY <2>1, Zenon DEF OnDiskRest
<1>5. advance(store, reader)
          = IF is_empty(next) THEN load_next_batch(store, next) ELSE next
  BY DEF advance
<1>b. next.batch_blocks = reader.batch_blocks
  BY <1>0 DEF ReaderIn
<1> HIDE DEF next
<1>6. PICK head \in Rows, tail \in Seq(Rows) :
          /\ head = peek(reader) /\ tail = SubSeq(reader.buffer, (i + 1) + 1, L)
          /\ SubSeq(reader.buffer, i + 1, L) = <<head>> \o tail
  <2>1. i + 1 \in 1 .. Len(reader.buffer) /\ L \in i + 1 .. Len(reader.buffer)
    BY <1>2
  <2>2. SubSeq(reader.buffer, i + 1, L)
            = <<reader.buffer[i + 1]>> \o SubSeq(reader.buffer, (i + 1) + 1, L)
    BY <1>1, <2>1, SubSeqRecursiveFirst
  <2>3. reader.buffer[i + 1] \in Rows
    BY <1>1, <2>1, ElementOfSeq
  <2>4. SubSeq(reader.buffer, (i + 1) + 1, L) \in Seq(Rows)
    <3>1. /\ (i + 1) + 1 \in Int /\ L \in Int
          /\ \A j \in (i + 1) + 1 .. L : j \in 1 .. Len(reader.buffer)
      BY <1>2
    <3>2. \A j \in (i + 1) + 1 .. L : reader.buffer[j] \in Rows
      BY <1>1, <3>1, ElementOfSeq
    <3> QED
      BY <3>1, <3>2, SubSeqProperties
  <2> QED
    BY <1>2, <2>2, <2>3, <2>4 DEF peek
<1>7. PICK kept \in Seq(Rows) : kept = OnDiskRest(store, reader)
  BY <1>1
<1>8. Rest(store, reader) = <<head>> \o (tail \o kept)
  <2>1. Rest(store, reader) = (<<head>> \o tail) \o kept
    BY <1>2, <1>6, <1>7, Zenon DEF Rest
  <2>2. <<head>> \in Seq(Rows)
    OBVIOUS
  <2> QED
    BY <2>1, <2>2, ConcatAssociative
<1>9. CASE is_empty(next)
  <2>1. /\ ReaderOn(load_next_batch(store, next), run)
        /\ Rest(store, load_next_batch(store, next)) = kept
        /\ OneBatch(store, load_next_batch(store, next), run)
        /\ load_next_batch(store, next).batch_blocks = next.batch_blocks
    <3>1. OnDiskRest(store, next) = kept
      BY <1>4, <1>7
    <3> QED
      BY <1>3, <3>1, LoadNextBatch
  <2>2. tail = <<>>
    <3>1. L < (i + 1) + 1
      BY <1>2, <1>3, <1>9 DEF is_empty
    <3> QED
      BY <1>6, <3>1, SubSeqEmpty
  <2>3. tail \o kept = kept
    BY <2>2, ConcatEmptySeq
  <2> QED
    BY <1>5, <1>6, <1>8, <1>9, <1>b, <2>1, <2>3, Zenon
<1>10. CASE ~is_empty(next)
  <2>1. ReaderOn(next, run)
    <3>1. next.buf_idx # Len(next.buffer)
      BY <1>2, <1>3, <1>10 DEF is_empty
    <3> QED
      BY <1>3, <3>1 DEF ReaderOn
  <2>2. Rest(store, next) = tail \o kept
    BY <1>2, <1>3, <1>4, <1>6, <1>7, Zenon DEF Rest
  <2>3. OneBatch(store, reader, run) => OneBatch(store, next, run)
    BY <1>3, <1>b, Zenon DEF OneBatch
  <2> QED
    BY <1>5, <1>6, <1>8, <1>10, <1>b, <2>1, <2>2, <2>3, Zenon
<1> QED
  BY <1>9, <1>10

\* A reader has a batch of at least one block.
LEMMA BatchIsPositive ==
    ASSUME NEW n \in Nat \ {0}
    PROVE  BatchBlocks(n) \in Nat \ {0}
<1>1. PICK d \in Nat \ {0} : d = n * 2 * BlockSize
  <2>1. n * 2 * BlockSize \in Nat \ {0}
    BY BlockSizeAssumption
  <2> QED
    BY <2>1
<1>2. PICK q \in Nat : q = READER_BUFFER_BUDGET \div d
  BY SortAssumption
<1>3. Max({1, q}) \in {1, q} /\ Max({1, q}) >= 1
  <2>1. \E x \in {1, q} : \A y \in {1, q} : x >= y
    <3>1. CASE q >= 1
      BY <3>1
    <3>2. CASE ~(q >= 1)
      BY <3>2
    <3> QED
      BY <3>1, <3>2
  <2>2. Max({1, q}) \in {1, q} /\ \A y \in {1, q} : Max({1, q}) >= y
    BY <2>1, Zenon DEF Max
  <2> QED
    BY <2>2
<1>4. PICK p \in Nat \ {0} : p = Max({1, q})
  BY <1>3
<1>5. PICK k \in Nat \ {0} : k = MAX_BATCH_BLOCKS
  BY SortAssumption
<1>6. Min({k, p}) \in Nat \ {0}
  BY MinOfTwo
<1>7. BatchBlocks(n) = Min({k, p})
  BY <1>1, <1>2, <1>4, <1>5, Zenon DEF BatchBlocks
<1> QED
  BY <1>6, <1>7
-----------------------------------------------------------------------------
TypeOK ==
    /\ input \in Inputs /\ pulled \in 0 .. Len(input)
    /\ SoundDisk(disk, PackedBlocks(Rows))
    /\ buf \in Seq(Rows) /\ buf_bytes \in Nat
    /\ run_metas \in Seq(Run)
    /\ output \in {"Pending", "InMemory", "External", "Panicked"}
    /\ idx \in Nat
    /\ emitted \in Seq(Rows) /\ ended \in BOOLEAN

\* Every run is on the disk, and none of its blocks is empty.
RunsStored == \A i \in DOMAIN run_metas : RunOnDisk(Rows, disk, run_metas[i])

\* Before initialize() has pulled all rows nothing is returned.
Waiting ==
    output \in {"Pending", "Panicked"} =>
        idx = 0 /\ readers = <<>> /\ heap = {} /\ emitted = <<>> /\ ~ended

\* In memory, what has been returned are the rows before idx.
InMemory ==
    output = "InMemory" =>
        /\ pulled = Len(input) /\ run_metas = <<>> /\ readers = <<>>
        /\ ended => idx > Len(buf)
        /\ ~ended => idx <= Len(buf)
        /\ emitted \o SubSeq(buf, idx + 1, Len(buf)) = buf

\* In a merge there is one reader on each run.
Merging ==
    output = "External" =>
        /\ pulled = Len(input) /\ buf = <<>>
        /\ readers = [i \in DOMAIN run_metas |-> readers[i]]
        /\ \A i \in DOMAIN run_metas : ReaderOn(readers[i], run_metas[i])
        /\ ended => heap = {}

Base == /\ TypeOK /\ RunsStored /\ Waiting /\ InMemory /\ Merging
        /\ HeapMirrorsReaders /\ BufferWithinBudget

\* The rows of each run.
Contents == [i \in DOMAIN run_metas |-> DecodeBlocks(RunBlocks(run_metas[i]))]

\* What flush_run does: one run more, with the rows in order.
FlushesTo(sorted) ==
    /\ SoundDisk(disk', PackedBlocks(Rows))
    /\ \A b \in DOMAIN disk.pages : b \in DOMAIN disk'.pages /\ disk'.pages[b] = disk.pages[b]
    /\ run_metas' \in Seq(Run) /\ run_metas' # <<>>
    /\ RunsStored'
    /\ Contents \in Seq(Seq(Rows)) /\ Contents' = Append(Contents, sorted)

\* flush_run appends the sorted buffer as a run and touches no other run.
LEMMA FlushRun ==
    ASSUME RowsSized(Rows), TypeOK, RunsStored, NEW rows \in Seq(Rows), rows # <<>>, Packable(rows),
           flush_run(rows)
    PROVE  \E sorted \in StableSorts(rows) : sorted \in Seq(Rows) /\ FlushesTo(sorted)
<1>1. PICK sorted \in StableSorts(rows) :
          /\ disk' = Spill(disk, rows_to_blocks(sorted))
          /\ run_metas' = Append(run_metas, [start_block |-> disk.next_anon_block,
                                             num_blocks  |-> Len(rows_to_blocks(sorted))])
  BY Zenon DEF flush_run
<1>2. sorted \in Seq(Rows) /\ Packable(sorted) /\ sorted # <<>>
  <2>1. Len(rows) # 0
    BY EmptySeq
  <2> QED
    BY <2>1, SortedRows, EmptySeq
<1>3. PICK blocks, run : /\ blocks = rows_to_blocks(sorted)
                         /\ run = [start_block |-> disk.next_anon_block,
                                   num_blocks  |-> Len(rows_to_blocks(sorted))]
  OBVIOUS
<1>4. SoundDisk(disk, PackedBlocks(Rows)) /\ run_metas \in Seq(Run)
  BY DEF TypeOK
<1>5. /\ blocks \in Seq(PackedBlocks(Rows)) /\ disk' = Spill(disk, blocks)
      /\ run_metas' = Append(run_metas, run)
      /\ RunOnDisk(Rows, disk', run)
      /\ RunRows(disk', run.start_block, run.num_blocks) = sorted
  BY <1>1, <1>2, <1>3, <1>4, SpillAddsRun
<1>6. \A i \in DOMAIN run_metas :
          /\ RunOnDisk(Rows, disk', run_metas[i])
          /\ RunRows(disk', run_metas[i].start_block, run_metas[i].num_blocks)
                 = RunRows(disk, run_metas[i].start_block, run_metas[i].num_blocks)
  BY <1>4, <1>5, SpillKeepsRun DEF RunsStored
<1>7. PICK n \in Nat : n = Len(run_metas)
  BY <1>4, LenProperties
<1>8. run \in Run
  BY <1>5 DEF RunOnDisk
<1>9. /\ DOMAIN run_metas = 1 .. n /\ DOMAIN run_metas' = 1 .. n + 1
      /\ \A i \in 1 .. n : run_metas'[i] = run_metas[i]
      /\ run_metas'[n + 1] = run
      /\ run_metas' \in Seq(Run) /\ run_metas' # <<>>
  BY <1>4, <1>5, <1>7, <1>8, AppendedSeq
<1>10. \A i \in 1 .. n + 1 : i \in 1 .. n \/ i = n + 1
  OBVIOUS
<1>11. RunsStored'
  BY <1>5, <1>6, <1>9, <1>10 DEF RunsStored
<1>12. Contents = [i \in 1 .. n |->
                      RunRows(disk, run_metas[i].start_block, run_metas[i].num_blocks)]
  BY <1>9 DEF Contents, RunBlocks, RunRows
<1>13. Contents' = [i \in 1 .. n + 1 |->
                       RunRows(disk', run_metas'[i].start_block, run_metas'[i].num_blocks)]
  BY <1>9 DEF Contents, RunBlocks, RunRows
<1>14. Contents \in Seq(Seq(Rows)) /\ Len(Contents) = n
  <2>1. \A i \in 1 .. n :
            RunRows(disk, run_metas[i].start_block, run_metas[i].num_blocks) \in Seq(Rows)
    BY <1>9, StoredYields DEF RunsStored, RunOnDisk, YieldsRows
  <2>2. Contents \in [1 .. n -> Seq(Rows)]
    BY <1>12, <2>1
  <2> HIDE DEF Contents
  <2> QED
    BY <1>7, <2>2
<1>15. Contents' = Append(Contents, sorted)
  <2>1. \A i \in 1 .. n : Contents'[i] = Contents[i]
    <3>1. \A i \in 1 .. n : i \in 1 .. n + 1
      OBVIOUS
    <3> QED
      BY <1>6, <1>9, <1>12, <1>13, <3>1
  <2>2. Contents'[n + 1] = sorted
    <3>1. n + 1 \in 1 .. n + 1
      OBVIOUS
    <3> QED
      BY <1>5, <1>9, <1>13, <3>1
  <2>3. DOMAIN Contents' = 1 .. n + 1 /\ Contents' = [i \in 1 .. n + 1 |-> Contents'[i]]
    BY <1>13
  <2> DEFINE more == Append(Contents, sorted)
  <2>4. /\ DOMAIN more = 1 .. n + 1 /\ more = [i \in 1 .. n + 1 |-> more[i]]
        /\ more[n + 1] = sorted /\ \A i \in 1 .. n : more[i] = Contents[i]
    BY <1>2, <1>14, AppendedSeq
  <2> HIDE DEF more
  <2>5. \A i \in 1 .. n + 1 : Contents'[i] = more[i]
    BY <1>10, <2>1, <2>2, <2>4
  <2>6. Contents' = more
    BY <2>3, <2>4, <2>5
  <2> QED
    BY <2>6 DEF more
<1>16. SoundDisk(disk', PackedBlocks(Rows))
  BY <1>4, <1>5, SpillExtends
<1>17. \A b \in DOMAIN disk.pages : b \in DOMAIN disk'.pages /\ disk'.pages[b] = disk.pages[b]
  BY <1>4, <1>5, SpillExtends
<1> QED
  BY <1>2, <1>9, <1>11, <1>14, <1>15, <1>16, <1>17 DEF FlushesTo
-----------------------------------------------------------------------------
\* What the proofs use of the rows and of what has been pulled.
LEMMA InputFacts ==
    ASSUME TypeOK
    PROVE  /\ input \in Seq(Rows) /\ Len(input) \in Nat /\ DOMAIN input = 1 .. Len(input)
           /\ \A i \in 1 .. Len(input) : input[i] \in Rows /\ input[i].id = i
           /\ pulled \in Nat /\ pulled <= Len(input)
           /\ \A row \in Rows : row.len \in Nat /\ row.mem \in Nat
           /\ RUN_BUDGET_BYTES \in Nat \ {0}
<1>1. /\ input \in Seq(Rows) /\ \A i \in DOMAIN input : input[i].id = i
      /\ \A row \in Rows : row.len \in Nat /\ row.mem \in Nat
      /\ RUN_BUDGET_BYTES \in Nat \ {0}
  BY SortAssumption DEF TypeOK
<1>2. Len(input) \in Nat /\ DOMAIN input = 1 .. Len(input)
  BY <1>1, LenProperties
<1>3. \A i \in 1 .. Len(input) : input[i] \in Rows
  BY <1>1, ElementOfSeq
<1>4. pulled \in Nat /\ pulled <= Len(input)
  BY <1>2 DEF TypeOK
<1> QED
  BY <1>1, <1>2, <1>3, <1>4

\* Nothing is on the disk of a new query.
LEMMA InitBase ==
    ASSUME RowsSized(Rows), Init
    PROVE  Base
<1>1. /\ input \in Inputs /\ pulled = 0 /\ disk = NewDisk
      /\ buf = <<>> /\ buf_bytes = 0 /\ run_metas = <<>>
      /\ output = "Pending" /\ idx = 0
      /\ readers = <<>> /\ heap = {} /\ emitted = <<>> /\ ended = FALSE
  BY DEF Init
<1>2. Len(input) \in Nat
  BY <1>1, SortAssumption, LenProperties
<1>3. SoundDisk(disk, PackedBlocks(Rows))
  <2>1. disk = [pages |-> <<>>, next_anon_block |-> AnonStart] /\ AnonStart \in Nat
    BY <1>1, AnonStartAssumption DEF NewDisk
  <2>2. DOMAIN disk.pages = {} /\ disk.pages \in [{} -> PackedBlocks(Rows)]
    BY <2>1
  <2> QED
    BY <2>1, <2>2 DEF SoundDisk
<1>4. TypeOK
  <2>1. <<>> \in Seq(Rows) /\ <<>> \in Seq(Run) /\ 0 \in 0 .. Len(input)
    BY <1>2
  <2> QED
    BY <1>1, <1>3, <2>1 DEF TypeOK
<1>5. RunsStored /\ Waiting /\ InMemory /\ Merging /\ HeapMirrorsReaders
  <2>1. DOMAIN run_metas = {}
    BY <1>1
  <2> QED
    BY <1>1, <2>1 DEF RunsStored, Waiting, InMemory, Merging, HeapMirrorsReaders
<1>6. BufferWithinBudget
  <2>1. MemoryOf(<<>>) = 0
    <3>1. <<>> \in Seq(Rows) /\ \A r \in Rows : r.mem \in Nat
      BY SortAssumption
    <3> QED
      BY <3>1, MemoryAppend
  <2>2. RUN_BUDGET_BYTES \in Nat \ {0}
    BY SortAssumption
  <2>3. 0 < RUN_BUDGET_BYTES
    BY <2>2
  <2> QED
    BY <1>1, <2>1, <2>3 DEF BufferWithinBudget
<1> QED
  BY <1>4, <1>5, <1>6 DEF Base

\* The child spills before the first run is written.
LEMMA ChildSpillBase ==
    ASSUME RowsSized(Rows), Base, ChildSpill
    PROVE  /\ Base'
           /\ \A b \in DOMAIN disk.pages :
                  b \in DOMAIN disk'.pages /\ disk'.pages[b] = disk.pages[b]
           /\ Contents' = Contents
<1>1. PICK n \in ChildSpills : disk' = Spill(disk, [i \in 1 .. n |-> EmptyBlock])
  BY DEF ChildSpill
<1>2. UNCHANGED <<buf, buf_bytes, input, pulled, run_metas, output, idx, readers, heap,
                  emitted, ended>>
  BY DEF ChildSpill, bufVars, inputVars, mergeVars, outVars
<1>3. PICK blocks \in Seq(PackedBlocks(Rows)) : disk' = Spill(disk, blocks)
  <2>1. n \in Nat
    BY SortAssumption
  <2>2. [i \in 1 .. n |-> EmptyBlock] \in Seq(PackedBlocks(Rows))
    BY <2>1, BlockFacts
  <2> QED
    BY <1>1, <2>2
<1>4. SoundDisk(disk, PackedBlocks(Rows)) /\ TypeOK /\ output = "Pending"
  BY DEF Base, TypeOK, ChildSpill
<1>5. /\ SoundDisk(disk', PackedBlocks(Rows))
      /\ \A b \in DOMAIN disk.pages : b \in DOMAIN disk'.pages /\ disk'.pages[b] = disk.pages[b]
  BY <1>3, <1>4, SpillExtends
<1>6. TypeOK'
  BY <1>2, <1>4, <1>5 DEF TypeOK
<1>7. \A i \in DOMAIN run_metas :
          /\ RunOnDisk(Rows, disk', run_metas[i])
          /\ RunRows(disk', run_metas[i].start_block, run_metas[i].num_blocks)
                 = RunRows(disk, run_metas[i].start_block, run_metas[i].num_blocks)
  BY <1>3, <1>4, SpillKeepsRun DEF Base, RunsStored
<1>8. RunsStored' /\ Contents' = Contents
  BY <1>2, <1>7 DEF RunsStored, Contents, RunBlocks, RunRows
<1>9. Waiting' /\ InMemory' /\ Merging' /\ HeapMirrorsReaders'
  BY <1>2, <1>4 DEF Base, Waiting, InMemory, Merging, HeapMirrorsReaders
<1>10. BufferWithinBudget'
  BY <1>2 DEF Base, BufferWithinBudget
<1> QED
  BY <1>5, <1>6, <1>8, <1>9, <1>10 DEF Base

\* One row more in the buffer.
LEMMA PullRow ==
    ASSUME TypeOK, pulled < Len(input), NEW row, row = input[pulled + 1]
    PROVE  /\ row \in Rows /\ Append(buf, row) \in Seq(Rows) /\ Append(buf, row) # <<>>
           /\ pulled + 1 \in 0 .. Len(input)
           /\ MemoryOf(buf) \in Nat /\ row.mem \in Nat
           /\ MemoryOf(Append(buf, row)) = MemoryOf(buf) + row.mem
<1>1. pulled + 1 \in 1 .. Len(input) /\ pulled + 1 \in 0 .. Len(input)
  BY InputFacts
<1>2. row \in Rows /\ row.mem \in Nat
  BY <1>1, InputFacts
<1>3. buf \in Seq(Rows)
  BY DEF TypeOK
<1>4. Append(buf, row) \in Seq(Rows) /\ Append(buf, row) # <<>>
  <2>1. Len(buf) \in Nat
    BY <1>3, LenProperties
  <2> QED
    BY <1>2, <1>3, <2>1, AppendedSeq
<1>5. /\ MemoryOf(buf) \in Nat
      /\ MemoryOf(Append(buf, row)) = MemoryOf(buf) + row.mem
  <2>1. \A r \in Rows : r.mem \in Nat
    BY SortAssumption
  <2> QED
    BY <1>2, <1>3, <2>1, MemoryAppend
<1> QED
  BY <1>1, <1>2, <1>4, <1>5

\* One turn of the pull loop: a row is buffered, a run is written, or a row is
\* too long for a block.
PullBuffers ==
    /\ buf' = Append(buf, input[pulled + 1]) /\ UNCHANGED <<disk, run_metas, output>>

PullFlushes ==
    /\ Append(buf, input[pulled + 1]) \in Seq(Rows) /\ buf' = <<>> /\ UNCHANGED output
    /\ \E sorted \in StableSorts(Append(buf, input[pulled + 1])) :
           sorted \in Seq(Rows) /\ FlushesTo(sorted)

\* Pull keeps Base, whichever way it goes.
LEMMA PullBase ==
    ASSUME RowsSized(Rows), Base, Pull
    PROVE  /\ Base'
           /\ \A b \in DOMAIN disk.pages :
                  b \in DOMAIN disk'.pages /\ disk'.pages[b] = disk.pages[b]
           /\ output' # "Panicked" => PullBuffers \/ PullFlushes
<1>1. PICK row, filled, bytes :
          /\ row = input[pulled + 1] /\ filled = Append(buf, row)
          /\ bytes = buf_bytes + row.mem
  OBVIOUS
<1>2. /\ output = "Pending" /\ pulled < Len(input) /\ pulled' = pulled + 1
      /\ UNCHANGED <<input, idx, readers, heap, emitted, ended>>
  BY DEF Pull, mergeVars, outVars
<1>3. \/ /\ ~RunIsFull(bytes) /\ buf' = filled /\ buf_bytes' = bytes
         /\ UNCHANGED <<disk, run_metas, output>>
      \/ /\ RunIsFull(bytes) /\ Packable(filled) /\ flush_run(filled)
         /\ buf' = <<>> /\ buf_bytes' = 0 /\ UNCHANGED output
      \/ /\ RunIsFull(bytes) /\ ~Packable(filled) /\ output' = "Panicked"
         /\ UNCHANGED <<buf, buf_bytes, disk, run_metas>>
  BY <1>1, Zenon DEF Pull, bufVars
<1>4. /\ TypeOK /\ RunsStored /\ Waiting
      /\ MemoryOf(buf) = buf_bytes /\ buf_bytes \in Nat
  BY <1>2 DEF Base, BufferWithinBudget, TypeOK
<1>5. /\ filled \in Seq(Rows) /\ filled # <<>>
      /\ pulled' \in 0 .. Len(input') /\ bytes \in Nat /\ MemoryOf(filled) = bytes
  BY <1>1, <1>2, <1>4, PullRow
<1>6. <<>> \in Seq(Rows) /\ MemoryOf(<<>>) = 0 /\ RUN_BUDGET_BYTES \in Nat \ {0}
  <2>1. <<>> \in Seq(Rows) /\ \A r \in Rows : r.mem \in Nat
    BY SortAssumption
  <2> QED
    BY <2>1, MemoryAppend, SortAssumption
<1>7. CASE /\ ~RunIsFull(bytes) /\ buf' = filled /\ buf_bytes' = bytes
           /\ UNCHANGED <<disk, run_metas, output>>
  <2>1. TypeOK'
    BY <1>2, <1>4, <1>5, <1>7 DEF TypeOK
  <2>2. RunsStored' /\ Waiting' /\ InMemory' /\ Merging' /\ HeapMirrorsReaders'
    BY <1>2, <1>4, <1>7 DEF RunsStored, Waiting, InMemory, Merging, HeapMirrorsReaders
  <2>3. BufferWithinBudget'
    BY <1>5, <1>6, <1>7 DEF BufferWithinBudget, RunIsFull
  <2> QED
    BY <1>1, <1>7, <2>1, <2>2, <2>3 DEF Base, PullBuffers
<1>8. CASE /\ RunIsFull(bytes) /\ Packable(filled) /\ flush_run(filled)
           /\ buf' = <<>> /\ buf_bytes' = 0 /\ UNCHANGED output
  <2>1. PICK sorted \in StableSorts(filled) : sorted \in Seq(Rows) /\ FlushesTo(sorted)
    BY <1>4, <1>5, <1>8, FlushRun
  <2>2. TypeOK'
    BY <1>2, <1>4, <1>5, <1>6, <1>8, <2>1 DEF TypeOK, FlushesTo
  <2>3. RunsStored' /\ Waiting' /\ InMemory' /\ Merging' /\ HeapMirrorsReaders'
    BY <1>2, <1>4, <1>8, <2>1
       DEF FlushesTo, Waiting, InMemory, Merging, HeapMirrorsReaders
  <2>4. BufferWithinBudget'
    BY <1>6, <1>8 DEF BufferWithinBudget
  <2>5. \A b \in DOMAIN disk.pages : b \in DOMAIN disk'.pages /\ disk'.pages[b] = disk.pages[b]
    BY <2>1 DEF FlushesTo
  <2>6. PullFlushes
    BY <1>1, <1>5, <1>8, <2>1 DEF PullFlushes
  <2> QED
    BY <2>2, <2>3, <2>4, <2>5, <2>6 DEF Base
<1>9. CASE /\ RunIsFull(bytes) /\ ~Packable(filled) /\ output' = "Panicked"
           /\ UNCHANGED <<buf, buf_bytes, disk, run_metas>>
  <2>1. TypeOK'
    BY <1>2, <1>4, <1>5, <1>9 DEF TypeOK
  <2>2. RunsStored' /\ Waiting' /\ InMemory' /\ Merging' /\ HeapMirrorsReaders'
    BY <1>2, <1>4, <1>9 DEF RunsStored, Waiting, InMemory, Merging, HeapMirrorsReaders
  <2>3. BufferWithinBudget'
    BY <1>9 DEF BufferWithinBudget
  <2> QED
    BY <1>9, <2>1, <2>2, <2>3 DEF Base
<1> QED
  BY <1>3, <1>7, <1>8, <1>9

\* The rows fit in the budget and stay in memory.
LEMMA KeepInMemoryBase ==
    ASSUME RowsSized(Rows), Base, KeepInMemory
    PROVE  Base'
<1>1. /\ output = "Pending" /\ pulled = Len(input) /\ run_metas = <<>>
      /\ buf' \in StableSorts(buf) /\ output' = "InMemory"
      /\ UNCHANGED <<input, pulled, disk, buf_bytes, run_metas, idx, readers, heap,
                     emitted, ended>>
  BY DEF KeepInMemory, inputVars, mergeVars, outVars
<1>2. TypeOK /\ Waiting /\ RunsStored /\ BufferWithinBudget /\ buf \in Seq(Rows)
  BY DEF Base, TypeOK
<1>3. buf' \in Seq(Rows) /\ MemoryOf(buf') = MemoryOf(buf) /\ Len(buf') \in Nat
  BY <1>1, <1>2, SortedRows, LenProperties
<1>4. TypeOK'
  BY <1>1, <1>2, <1>3 DEF TypeOK
<1>5. RunsStored' /\ Waiting' /\ Merging' /\ HeapMirrorsReaders'
  BY <1>1, <1>2 DEF RunsStored, Waiting, Merging, HeapMirrorsReaders
<1>6. BufferWithinBudget'
  BY <1>1, <1>2, <1>3 DEF BufferWithinBudget
<1>7. InMemory'
  <2>1. idx' = 0 /\ emitted' = <<>> /\ ended' = FALSE /\ readers' = <<>>
    BY <1>1, <1>2 DEF Waiting, TypeOK
  <2>2. <<>> \o SubSeq(buf', 0 + 1, Len(buf')) = buf'
    <3>1. 0 + 1 = 1
      OBVIOUS
    <3> QED
      BY <1>3, <3>1, SubSeqFull, ConcatEmptySeq
  <2>3. 0 <= Len(buf')
    BY <1>3
  <2> QED
    BY <1>1, <2>1, <2>2, <2>3 DEF InMemory
<1> QED
  BY <1>4, <1>5, <1>6, <1>7 DEF Base

\* A row of the last run is too long.
LEMMA PanicOnLastRunBase ==
    ASSUME RowsSized(Rows), Base, PanicOnLastRun
    PROVE  Base'
<1>1. /\ output = "Pending" /\ output' = "Panicked"
      /\ UNCHANGED <<input, pulled, disk, buf, buf_bytes, run_metas, idx, readers, heap,
                     emitted, ended>>
  BY DEF PanicOnLastRun, inputVars, bufVars, mergeVars, outVars
<1>2. TypeOK' /\ RunsStored'
  BY <1>1 DEF Base, TypeOK, RunsStored
<1> QED
  BY <1>1, <1>2
     DEF Base, Waiting, InMemory, Merging, HeapMirrorsReaders, BufferWithinBudget

\* next() from memory.
LEMMA NextInMemoryBase ==
    ASSUME RowsSized(Rows), Base, NextInMemory
    PROVE  /\ Base'
           /\ idx < Len(buf) => /\ emitted' = Append(emitted, buf[idx + 1]) /\ ~ended'
                                /\ buf[idx + 1] \in Rows
           /\ ~(idx < Len(buf)) => emitted' = emitted /\ ended' /\ idx = Len(buf)
<1>1. /\ output = "InMemory" /\ ~ended /\ idx' = idx + 1
      /\ IF idx < Len(buf) THEN emitted' = Append(emitted, buf[idx + 1]) /\ UNCHANGED ended
                           ELSE ended' = TRUE /\ UNCHANGED emitted
      /\ UNCHANGED <<input, pulled, disk, buf, buf_bytes, run_metas, output, readers, heap>>
  BY DEF NextInMemory, inputVars, bufVars, mergeVars
<1>2. /\ TypeOK /\ RunsStored /\ BufferWithinBudget
      /\ pulled = Len(input) /\ run_metas = <<>> /\ readers = <<>>
      /\ idx <= Len(buf) /\ emitted \o SubSeq(buf, idx + 1, Len(buf)) = buf
  BY <1>1 DEF Base, InMemory
<1>3. buf \in Seq(Rows) /\ emitted \in Seq(Rows) /\ idx \in Nat /\ Len(buf) \in Nat
  BY <1>2, LenProperties DEF TypeOK
<1>4. CASE idx < Len(buf)
  <2>1. PICK row \in Rows, rest \in Seq(Rows) :
            /\ row = buf[idx + 1] /\ rest = SubSeq(buf, (idx + 1) + 1, Len(buf))
            /\ SubSeq(buf, idx + 1, Len(buf)) = <<row>> \o rest
    <3>1. idx + 1 \in 1 .. Len(buf) /\ Len(buf) \in idx + 1 .. Len(buf)
      BY <1>3, <1>4
    <3>2. SubSeq(buf, idx + 1, Len(buf))
              = <<buf[idx + 1]>> \o SubSeq(buf, (idx + 1) + 1, Len(buf))
      BY <1>3, <3>1, SubSeqRecursiveFirst
    <3>3. buf[idx + 1] \in Rows
      BY <1>3, <3>1, ElementOfSeq
    <3>4. SubSeq(buf, (idx + 1) + 1, Len(buf)) \in Seq(Rows)
      <4>1. /\ (idx + 1) + 1 \in Int /\ Len(buf) \in Int
            /\ \A j \in (idx + 1) + 1 .. Len(buf) : j \in 1 .. Len(buf)
        BY <1>3
      <4>2. \A j \in (idx + 1) + 1 .. Len(buf) : buf[j] \in Rows
        BY <1>3, <4>1, ElementOfSeq
      <4> QED
        BY <4>1, <4>2, SubSeqProperties
    <3> QED
      BY <3>2, <3>3, <3>4
  <2>2. emitted' = Append(emitted, row) /\ ended' = ended
    BY <1>1, <1>4, <2>1
  <2>3. Append(emitted, row) \o rest = emitted \o (<<row>> \o rest)
    <3>1. Append(emitted, row) = emitted \o <<row>> /\ <<row>> \in Seq(Rows)
      BY <1>3, AppendIsConcat
    <3> QED
      BY <1>3, <3>1, ConcatAssociative
  <2>4. emitted' \o SubSeq(buf', idx' + 1, Len(buf')) = buf'
    <3>1. idx' + 1 = (idx + 1) + 1 /\ buf' = buf
      BY <1>1
    <3> QED
      BY <1>2, <2>1, <2>2, <2>3, <3>1, Zenon
  <2>5. TypeOK'
    <3>1. idx' \in Nat /\ emitted' \in Seq(Rows)
      BY <1>1, <1>3, <2>2
    <3> QED
      BY <1>1, <1>2, <2>2, <3>1 DEF TypeOK
  <2>6. InMemory'
    <3>1. idx' <= Len(buf') /\ ~ended'
      BY <1>1, <1>3, <1>4, <2>2
    <3> QED
      BY <1>1, <1>2, <2>4, <3>1 DEF InMemory
  <2>7. RunsStored' /\ Waiting' /\ Merging' /\ HeapMirrorsReaders' /\ BufferWithinBudget'
    BY <1>1, <1>2 DEF RunsStored, Waiting, Merging, HeapMirrorsReaders, BufferWithinBudget
  <2> QED
    BY <1>1, <1>4, <2>1, <2>2, <2>5, <2>6, <2>7 DEF Base
<1>5. CASE ~(idx < Len(buf))
  <2>1. idx = Len(buf) /\ emitted' = emitted /\ ended' = TRUE
    BY <1>1, <1>2, <1>3, <1>5
  <2>2. SubSeq(buf, idx + 1, Len(buf)) = <<>> /\ SubSeq(buf, (idx + 1) + 1, Len(buf)) = <<>>
    <3>1. Len(buf) < idx + 1 /\ Len(buf) < (idx + 1) + 1
      BY <1>3, <2>1
    <3> QED
      BY <1>3, <3>1, SubSeqEmpty
  <2>3. emitted' \o SubSeq(buf', idx' + 1, Len(buf')) = buf'
    <3>1. idx' + 1 = (idx + 1) + 1 /\ buf' = buf
      BY <1>1
    <3> QED
      BY <1>2, <2>1, <2>2, <3>1, Zenon
  <2>4. TypeOK'
    <3>1. idx' \in Nat
      BY <1>1, <1>3
    <3> QED
      BY <1>1, <1>2, <2>1, <3>1 DEF TypeOK
  <2>5. InMemory'
    <3>1. idx' > Len(buf')
      BY <1>1, <1>3, <2>1
    <3> QED
      BY <1>1, <1>2, <2>1, <2>3, <3>1 DEF InMemory
  <2>6. RunsStored' /\ Waiting' /\ Merging' /\ HeapMirrorsReaders' /\ BufferWithinBudget'
    BY <1>1, <1>2 DEF RunsStored, Waiting, Merging, HeapMirrorsReaders, BufferWithinBudget
  <2> QED
    BY <1>5, <2>1, <2>4, <2>5, <2>6 DEF Base
<1> QED
  BY <1>4, <1>5
-----------------------------------------------------------------------------
\* What each reader has still to hand out.
Streams == [i \in DOMAIN readers |-> Rest(disk, readers[i])]

\* All runs are on the disk when the merge starts.
Flushed ==
    \/ buf = <<>> /\ UNCHANGED <<disk, run_metas>>
    \/ \E sorted \in StableSorts(buf) : sorted \in Seq(Rows) /\ FlushesTo(sorted)

\* StartMerge opens on every run a reader that has all of it to hand out.
LEMMA StartMergeBase ==
    ASSUME RowsSized(Rows), Base, StartMerge
    PROVE  /\ Base'
           /\ \A b \in DOMAIN disk.pages :
                  b \in DOMAIN disk'.pages /\ disk'.pages[b] = disk.pages[b]
           /\ Flushed /\ Streams' = Contents'
<1>1. /\ output = "Pending" /\ pulled = Len(input) /\ run_metas # <<>>
      /\ \/ buf = <<>> /\ UNCHANGED <<disk, run_metas>>
         \/ buf # <<>> /\ Packable(buf) /\ flush_run(buf)
      /\ buf' = <<>> /\ buf_bytes' = 0
      /\ readers' = [i \in DOMAIN run_metas' |->
                        NewReader(disk', run_metas'[i], BatchBlocks(Len(run_metas')))]
      /\ heap' = UNION {push_next(readers'[i], i) : i \in DOMAIN readers'}
      /\ output' = "External"
      /\ UNCHANGED <<input, pulled, idx, emitted, ended>>
  BY Zenon DEF StartMerge, inputVars, outVars
<1>2. TypeOK /\ RunsStored /\ Waiting /\ buf \in Seq(Rows)
  BY DEF Base, TypeOK
<1>3. /\ Flushed
      /\ SoundDisk(disk', PackedBlocks(Rows))
      /\ \A b \in DOMAIN disk.pages : b \in DOMAIN disk'.pages /\ disk'.pages[b] = disk.pages[b]
      /\ run_metas' \in Seq(Run) /\ run_metas' # <<>> /\ RunsStored'
  <2>1. CASE buf = <<>> /\ UNCHANGED <<disk, run_metas>>
    BY <1>1, <1>2, <2>1 DEF Flushed, TypeOK, RunsStored
  <2>2. CASE buf # <<>> /\ Packable(buf) /\ flush_run(buf)
    <3>1. PICK sorted \in StableSorts(buf) : sorted \in Seq(Rows) /\ FlushesTo(sorted)
      BY <1>2, <2>2, FlushRun
    <3> QED
      BY <3>1 DEF Flushed, FlushesTo
  <2> QED
    BY <1>1, <2>1, <2>2
<1>4. PICK n \in Nat \ {0} : n = Len(run_metas') /\ DOMAIN run_metas' = 1 .. n
  <2>1. Len(run_metas') \in Nat \ {0} /\ DOMAIN run_metas' = 1 .. Len(run_metas')
    BY <1>3, LenProperties, EmptySeq
  <2> QED
    BY <2>1
<1>5. PICK batch \in Nat \ {0} : batch = BatchBlocks(n)
  BY BatchIsPositive
<1>6. readers' = [i \in 1 .. n |-> NewReader(disk', run_metas'[i], batch)]
  BY <1>1, <1>4, <1>5
<1>7. \A i \in 1 .. n :
          /\ ReaderOn(readers'[i], run_metas'[i])
          /\ Rest(disk', readers'[i])
                 = RunRows(disk', run_metas'[i].start_block, run_metas'[i].num_blocks)
  <2> TAKE i \in 1 .. n
  <2>1. RunOnDisk(Rows, disk', run_metas'[i])
    BY <1>3, <1>4 DEF RunsStored
  <2>2. readers'[i] = NewReader(disk', run_metas'[i], batch)
    BY <1>6
  <2>3. /\ ReaderOn(NewReader(disk', run_metas'[i], batch), run_metas'[i])
        /\ Rest(disk', NewReader(disk', run_metas'[i], batch))
               = RunRows(disk', run_metas'[i].start_block, run_metas'[i].num_blocks)
    BY <2>1, OpenReader
  <2> QED
    BY <2>2, <2>3, Zenon
<1>8. DOMAIN readers' = 1 .. n /\ readers' = [i \in 1 .. n |-> readers'[i]]
  BY <1>6
<1>9. TypeOK'
  <2>1. <<>> \in Seq(Rows)
    OBVIOUS
  <2> QED
    BY <1>1, <1>2, <1>3, <2>1 DEF TypeOK
<1>10. Waiting' /\ InMemory' /\ BufferWithinBudget'
  BY <1>1 DEF Waiting, InMemory, BufferWithinBudget
<1>11. Merging'
  <2>1. ended' = FALSE
    BY <1>1, <1>2 DEF Waiting, TypeOK
  <2> QED
    BY <1>1, <1>4, <1>7, <1>8, <2>1 DEF Merging
<1>12. HeapMirrorsReaders'
  <2>1. \A i \in 1 .. n : Readable(disk', run_metas'[i].start_block, run_metas'[i].num_blocks)
    <3>1. \A i \in 1 .. n :
              Stored(Rows, disk', run_metas'[i].start_block, run_metas'[i].num_blocks)
      BY <1>3, <1>4 DEF RunsStored, RunOnDisk
    <3> QED
      BY <3>1, StoredYields DEF YieldsRows
  <2>2. \A i \in 1 .. n : readers'[i].blocks_read <= run_metas'[i].num_blocks
    <3> TAKE i \in 1 .. n
    <3>1. readers'[i].blocks_read \in 0 .. run_metas'[i].num_blocks
      BY <1>7 DEF ReaderOn, ReaderIn
    <3>2. run_metas'[i] \in Run
      BY <1>3, <1>4 DEF RunsStored, RunOnDisk
    <3> QED
      BY <3>1, <3>2 DEF Run
  <2>3. heap' = {[key |-> SortKey(peek(readers'[i])), run_idx |-> i] :
                     i \in {r \in DOMAIN readers' : ~is_empty(readers'[r])}}
    BY <1>1 DEF push_next
  <2> QED
    BY <1>4, <1>8, <2>1, <2>2, <2>3 DEF HeapMirrorsReaders
<1>13. Streams' = Contents'
  <2>1. Streams' = [i \in 1 .. n |-> Rest(disk', readers'[i])]
    BY <1>8 DEF Streams
  <2>2. Contents' = [i \in 1 .. n |->
                        RunRows(disk', run_metas'[i].start_block, run_metas'[i].num_blocks)]
    BY <1>4 DEF Contents, RunBlocks, RunRows
  <2> QED
    BY <1>7, <2>1, <2>2
<1> QED
  BY <1>3, <1>9, <1>10, <1>11, <1>12, <1>13 DEF Base

\* What next_row takes: the head of one reader, which no head of another comes
\* before.
Takes(i, row) ==
    /\ i \in DOMAIN Streams /\ row \in Rows /\ emitted' = Append(emitted, row)
    /\ Streams \in Seq(Seq(Rows)) /\ Streams' \in Seq(Seq(Rows))
    /\ DOMAIN Streams' = DOMAIN Streams
    /\ Streams[i] = <<row>> \o Streams'[i]
    /\ \A j \in DOMAIN Streams : j # i => Streams'[j] = Streams[j]
    /\ \A j \in DOMAIN Streams : Streams[j] # <<>> =>
           ~KeyLess(SortKey(Streams[j][1]), SortKey(row))

\* next() from the runs.
LEMMA NextExternalBase ==
    ASSUME RowsSized(Rows), Base, NextExternal
    PROVE  Base' /\ \E i \in DOMAIN Streams : \E row \in Rows : Takes(i, row)
<1>1. PICK entry \in heap :
          /\ \A other \in heap : ~KeyLess(other.key, entry.key)
          /\ emitted' = Append(emitted, peek(readers[entry.run_idx]))
          /\ readers' = [readers EXCEPT ![entry.run_idx] = advance(disk, @)]
          /\ heap' = (heap \ {entry})
                        \cup push_next(readers'[entry.run_idx], entry.run_idx)
  BY Zenon DEF NextExternal
<1>2. /\ output = "External" /\ ~ended
      /\ UNCHANGED <<input, pulled, disk, buf, buf_bytes, run_metas, output, idx, ended>>
  BY DEF NextExternal, inputVars, bufVars
<1>3. /\ TypeOK /\ RunsStored /\ pulled = Len(input) /\ buf = <<>>
      /\ readers = [i \in DOMAIN run_metas |-> readers[i]]
      /\ \A i \in DOMAIN run_metas : ReaderOn(readers[i], run_metas[i])
  BY <1>2 DEF Base, Merging
<1>4. heap = {[key |-> SortKey(peek(readers[i])), run_idx |-> i] :
                  i \in {r \in DOMAIN readers : ~is_empty(readers[r])}}
  BY <1>2 DEF Base, HeapMirrorsReaders
<1>5. PICK i \in DOMAIN readers :
          ~is_empty(readers[i]) /\ entry = [key |-> SortKey(peek(readers[i])), run_idx |-> i]
  BY <1>4
<1>6. entry.run_idx = i /\ entry.key = SortKey(peek(readers[i]))
  BY <1>5
<1>7. DOMAIN readers = DOMAIN run_metas
  BY <1>3
<1>8. PICK moved, row : moved = advance(disk, readers[i]) /\ row = peek(readers[i])
  OBVIOUS
<1>9. /\ ReaderOn(moved, run_metas[i]) /\ row \in Rows
      /\ Rest(disk, readers[i]) = <<row>> \o Rest(disk, moved)
  <2>1. RunOnDisk(Rows, disk, run_metas[i]) /\ ReaderOn(readers[i], run_metas[i])
    BY <1>3, <1>5, <1>7 DEF RunsStored
  <2> QED
    BY <1>5, <1>8, <2>1, AdvanceReader
<1>10. /\ DOMAIN readers' = DOMAIN readers /\ readers'[i] = moved
       /\ \A j \in DOMAIN readers : j # i => readers'[j] = readers[j]
       /\ readers' = [j \in DOMAIN readers |-> readers'[j]]
  BY <1>1, <1>5, <1>6, <1>8
<1>11. emitted' = Append(emitted, row)
  BY <1>1, <1>6, <1>8
<1>12. heap' = (heap \ {entry}) \cup push_next(moved, i)
  BY <1>1, <1>6, <1>10
<1>13. TypeOK'
  <2>1. emitted' \in Seq(Rows)
    BY <1>3, <1>9, <1>11 DEF TypeOK
  <2> QED
    BY <1>2, <1>3, <2>1 DEF TypeOK
<1>14. RunsStored' /\ Waiting' /\ InMemory' /\ BufferWithinBudget'
  BY <1>2, <1>3 DEF RunsStored, Waiting, InMemory, BufferWithinBudget
<1>15. \A j \in DOMAIN run_metas : ReaderOn(readers'[j], run_metas[j])
  BY <1>3, <1>7, <1>9, <1>10
<1>16. Merging'
  BY <1>2, <1>3, <1>7, <1>10, <1>15 DEF Merging
<1>17. HeapMirrorsReaders'
  <2>1. /\ \A j \in DOMAIN run_metas :
               Readable(disk, run_metas[j].start_block, run_metas[j].num_blocks)
    BY <1>2 DEF Base, HeapMirrorsReaders
  <2>2. \A j \in DOMAIN readers' : readers'[j].blocks_read <= run_metas[j].num_blocks
    <3> TAKE j \in DOMAIN readers'
    <3>1. readers'[j].blocks_read \in 0 .. run_metas[j].num_blocks
      BY <1>7, <1>10, <1>15 DEF ReaderOn, ReaderIn
    <3>2. run_metas[j] \in Run
      BY <1>3, <1>7, <1>10 DEF RunsStored, RunOnDisk
    <3> QED
      BY <3>1, <3>2 DEF Run
  <2> DEFINE Entry(r, j) == [key |-> SortKey(peek(r[j])), run_idx |-> j]
             Full(r) == {j \in DOMAIN r : ~is_empty(r[j])}
  <2>3. heap \ {entry} = {Entry(readers, j) : j \in Full(readers) \ {i}}
    <3>1. \A j \in Full(readers) : Entry(readers, j) = entry <=> j = i
      BY <1>5
    <3>2. heap = {Entry(readers, j) : j \in Full(readers)}
      BY <1>4
    <3> HIDE DEF Entry, Full
    <3> QED
      BY <3>1, <3>2
  <2>4. push_next(moved, i) = {Entry(readers', j) : j \in Full(readers') \cap {i}}
    <3>1. CASE is_empty(moved)
      <4>1. Full(readers') \cap {i} = {}
        BY <1>10, <3>1
      <4> QED
        BY <3>1, <4>1 DEF push_next
    <3>2. CASE ~is_empty(moved)
      <4>1. Full(readers') \cap {i} = {i}
        BY <1>5, <1>10, <3>2
      <4>2. push_next(moved, i) = {Entry(readers', i)}
        BY <1>10, <3>2 DEF push_next
      <4> HIDE DEF Entry, Full
      <4> QED
        BY <4>1, <4>2
    <3> QED
      BY <3>1, <3>2
  <2>5. Full(readers) \ {i} = Full(readers') \ {i}
    BY <1>10
  <2>6. \A j \in Full(readers') \ {i} : Entry(readers, j) = Entry(readers', j)
    BY <1>10
  <2>7. heap' = {Entry(readers', j) : j \in Full(readers')}
    <3> HIDE DEF Entry, Full
    <3> QED
      BY <1>12, <2>3, <2>4, <2>5, <2>6
  <2>8. heap' = {[key |-> SortKey(peek(readers'[j])), run_idx |-> j] :
                     j \in {r \in DOMAIN readers' : ~is_empty(readers'[r])}}
    BY <2>7
  <2> HIDE DEF Entry, Full
  <2> QED
    BY <1>2, <2>1, <2>2, <2>8 DEF HeapMirrorsReaders
<1>18. Takes(i, row)
  <2>1. /\ Streams = [j \in DOMAIN readers |-> Rest(disk, readers[j])]
        /\ Streams' = [j \in DOMAIN readers |-> Rest(disk, readers'[j])]
    BY <1>2, <1>10 DEF Streams
  <2>2. Streams[i] = <<row>> \o Streams'[i]
    BY <1>9, <1>10, <2>1
  <2>3. \A j \in DOMAIN Streams : j # i => Streams'[j] = Streams[j]
    BY <1>10, <2>1
  <2>4. ASSUME NEW j \in DOMAIN Streams, Streams[j] # <<>>
        PROVE  ~KeyLess(SortKey(Streams[j][1]), SortKey(row))
    <3>1. Streams[j] = Rest(disk, readers[j]) /\ j \in DOMAIN readers
      BY <2>1
    <3>2. RunOnDisk(Rows, disk, run_metas[j]) /\ ReaderOn(readers[j], run_metas[j])
      BY <1>3, <1>7, <3>1 DEF RunsStored
    <3>3. ~is_empty(readers[j])
      BY <2>4, <3>1, <3>2, ReaderRest DEF ReaderOn
    <3>4. PICK head \in Rows, tail \in Seq(Rows) :
              head = peek(readers[j]) /\ Streams[j] = <<head>> \o tail
      <4>1. /\ ReaderOn(advance(disk, readers[j]), run_metas[j])
            /\ peek(readers[j]) \in Rows
            /\ Rest(disk, readers[j])
                   = <<peek(readers[j])>> \o Rest(disk, advance(disk, readers[j]))
        BY <3>2, <3>3, AdvanceReader
      <4>2. Rest(disk, advance(disk, readers[j])) \in Seq(Rows)
        BY <3>2, <4>1, ReaderRest DEF ReaderOn
      <4> QED
        BY <3>1, <4>1, <4>2
    <3>5. Streams[j][1] = head
      BY <3>4
    <3>6. [key |-> SortKey(head), run_idx |-> j] \in heap
      BY <1>4, <3>1, <3>3, <3>4
    <3>7. ~KeyLess([key |-> SortKey(head), run_idx |-> j].key, entry.key)
      BY <1>1, <3>6, Zenon
    <3>8. [key |-> SortKey(head), run_idx |-> j].key = SortKey(head)
      OBVIOUS
    <3> QED
      BY <1>6, <1>8, <3>5, <3>7, <3>8, Zenon
  <2>5. Streams \in Seq(Seq(Rows)) /\ Streams' \in Seq(Seq(Rows))
    <3>1. \A j \in DOMAIN readers :
              Rest(disk, readers[j]) \in Seq(Rows) /\ Rest(disk, readers'[j]) \in Seq(Rows)
      <4> TAKE j \in DOMAIN readers
      <4>1. /\ RunOnDisk(Rows, disk, run_metas[j])
            /\ ReaderIn(readers[j], run_metas[j]) /\ ReaderIn(readers'[j], run_metas[j])
        BY <1>3, <1>7, <1>15 DEF RunsStored, ReaderOn
      <4> QED
        BY <4>1, ReaderRest
    <3>2. PICK n \in Nat : DOMAIN readers = 1 .. n
      BY <1>3, <1>7, LenProperties DEF TypeOK
    <3>3. /\ Streams \in [1 .. n -> Seq(Rows)] /\ Streams' \in [1 .. n -> Seq(Rows)]
      BY <2>1, <3>1, <3>2
    <3>4. \A s \in [1 .. n -> Seq(Rows)] : s \in Seq(Seq(Rows))
      OBVIOUS
    <3> QED
      BY <3>3, <3>4, Zenon
  <2> QED
    BY <1>5, <1>9, <1>11, <2>1, <2>2, <2>3, <2>4, <2>5 DEF Takes
<1> QED
  BY <1>5, <1>9, <1>13, <1>14, <1>16, <1>17, <1>18 DEF Base, Takes

\* The heap has run dry.
LEMMA EndExternalBase ==
    ASSUME RowsSized(Rows), Base, EndExternal
    PROVE  Base' /\ \A i \in DOMAIN Streams : Streams[i] = <<>>
<1>1. /\ output = "External" /\ heap = {} /\ ended' = TRUE
      /\ UNCHANGED <<input, pulled, disk, buf, buf_bytes, run_metas, output, idx, readers,
                     heap, emitted>>
  BY DEF EndExternal, inputVars, bufVars, mergeVars
<1>2. TypeOK' /\ RunsStored' /\ Waiting' /\ InMemory' /\ Merging'
  BY <1>1 DEF Base, TypeOK, RunsStored, Waiting, InMemory, Merging
<1>3. HeapMirrorsReaders' /\ BufferWithinBudget'
  BY <1>1 DEF Base, HeapMirrorsReaders, BufferWithinBudget
<1>4. ASSUME NEW i \in DOMAIN Streams PROVE Streams[i] = <<>>
  <2>1. i \in DOMAIN readers /\ Streams[i] = Rest(disk, readers[i])
    BY DEF Streams
  <2>2. i \in DOMAIN run_metas /\ ReaderOn(readers[i], run_metas[i])
    BY <1>1, <2>1 DEF Base, Merging
  <2>3. RunOnDisk(Rows, disk, run_metas[i])
    BY <2>2 DEF Base, RunsStored
  <2>4. is_empty(readers[i])
    BY <1>1, <2>1 DEF Base, HeapMirrorsReaders
  <2> QED
    BY <2>1, <2>2, <2>3, <2>4, ReaderRest DEF ReaderOn
<1> QED
  BY <1>2, <1>3, <1>4 DEF Base
-----------------------------------------------------------------------------
\* Blocks that are there stay there.
KeepsBlocks ==
    \A b \in DOMAIN disk.pages : b \in DOMAIN disk'.pages /\ disk'.pages[b] = disk.pages[b]

\* Every step keeps Base, and every block.
LEMMA BaseStep ==
    ASSUME RowsSized(Rows), Base, [Next]_vars
    PROVE  Base' /\ KeepsBlocks
<1>1. CASE ChildSpill
  BY <1>1, ChildSpillBase DEF KeepsBlocks
<1>2. CASE Pull
  BY <1>2, PullBase DEF KeepsBlocks
<1>3. CASE KeepInMemory
  BY <1>3, KeepInMemoryBase DEF KeepsBlocks, KeepInMemory
<1>4. CASE StartMerge
  BY <1>4, StartMergeBase DEF KeepsBlocks
<1>5. CASE PanicOnLastRun
  BY <1>5, PanicOnLastRunBase DEF KeepsBlocks, PanicOnLastRun
<1>6. CASE NextInMemory
  BY <1>6, NextInMemoryBase DEF KeepsBlocks, NextInMemory
<1>7. CASE NextExternal
  BY <1>7, NextExternalBase DEF KeepsBlocks, NextExternal
<1>8. CASE EndExternal
  BY <1>8, EndExternalBase DEF KeepsBlocks, EndExternal
<1>9. CASE UNCHANGED vars
  BY <1>9 DEF vars, Base, TypeOK, RunsStored, Waiting, InMemory, Merging,
              HeapMirrorsReaders, BufferWithinBudget, KeepsBlocks
<1> QED
  BY <1>1, <1>2, <1>3, <1>4, <1>5, <1>6, <1>7, <1>8, <1>9 DEF Next, Stopped

\* Base holds of every state.
LEMMA BaseHolds ==
    ASSUME RowsSized(Rows)
    PROVE  Spec => []Base
<1>1. Init => Base
  BY InitBase
<1>2. Base /\ [Next]_vars => Base'
  BY BaseStep
<1> QED
  BY <1>1, <1>2, PTL DEF Spec

\* The budget of a run, whatever the rows take.
THEOREM SortBufferWithinBudget ==
    ASSUME RowsSized(Rows)
    PROVE  Spec => []BufferWithinBudget
<1>1. Base => BufferWithinBudget
  BY DEF Base
<1> QED
  BY <1>1, BaseHolds, PTL

\* The heap of a merge, however many runs it has and however long they are.
THEOREM SortHeapMirrorsReaders ==
    ASSUME RowsSized(Rows)
    PROVE  Spec => []HeapMirrorsReaders
<1>1. Base => HeapMirrorsReaders
  BY DEF Base
<1> QED
  BY <1>1, BaseHolds, PTL

\* No block is written twice.
THEOREM SortBlocksWrittenOnce ==
    ASSUME RowsSized(Rows)
    PROVE  Spec => BlocksWrittenOnce
<1>1. Base /\ [Next]_vars => [\A b \in DOMAIN disk.pages :
                                   b \in DOMAIN disk'.pages /\ disk'.pages[b] = disk.pages[b]]_vars
  BY BaseStep DEF KeepsBlocks
<1> QED
  BY <1>1, BaseHolds, PTL DEF Spec, BlocksWrittenOnce
-----------------------------------------------------------------------------
\* The same rows, as many times.
SameRows(s, t) == Len(s) = Len(t) /\ ToSet(s) = ToSet(t)

\* The head of a stream is moved to the output.
LEMMA HeadMoved ==
    ASSUME NEW R, NEW runs \in Seq(Seq(R)), NEW rest \in Seq(Seq(R)), NEW i \in DOMAIN runs,
           DOMAIN rest = DOMAIN runs, NEW row \in R, runs[i] = <<row>> \o rest[i],
           \A j \in DOMAIN runs : j # i => rest[j] = runs[j], NEW out \in Seq(R)
    PROVE  /\ Append(out, row) \o FlattenSeq(rest) \in Seq(R)
           /\ SameRows(Append(out, row) \o FlattenSeq(rest), out \o FlattenSeq(runs))
<1>0. rest[i] \in Seq(R) /\ i \in 1 .. Len(runs) /\ Len(rest) = Len(runs)
      /\ DOMAIN runs = 1 .. Len(runs)
  BY LenProperties, ElementOfSeq
<1>1. Len(runs[i]) = Len(rest[i]) + 1 /\ ToSet(runs[i]) = ToSet(rest[i]) \cup {row}
  BY <1>0, RowInFront
<1>2. ShorterAt(runs, rest, i)
  BY <1>0, <1>1 DEF ShorterAt
<1>3. PICK a \in Seq(R), b \in Seq(R) :
          a = FlattenSeq(runs) /\ b = FlattenSeq(rest) /\ Len(a) = Len(b) + 1
  <2>1. FlattenSeq(runs) \in Seq(R) /\ FlattenSeq(rest) \in Seq(R)
    <3>1. <<>> \in Seq(R)
      OBVIOUS
    <3> QED
      BY <3>1, FlattenAppend
  <2> QED
    BY <1>2, <2>1, FlattenShorter
<1>4. ToSet(a) = ToSet(b) \cup {row}
  <2>1. \A r : r \in ToSet(a) <=> \E j \in DOMAIN runs : r \in ToSet(runs[j])
    BY <1>3, FlattenRows
  <2>2. \A r : r \in ToSet(b) <=> \E j \in DOMAIN runs : r \in ToSet(rest[j])
    BY <1>3, FlattenRows
  <2>3. \A j \in DOMAIN runs : j # i => ToSet(rest[j]) = ToSet(runs[j])
    OBVIOUS
  <2>4. \A r : r \in ToSet(a) <=> r \in ToSet(b) \/ r = row
    BY <1>1, <2>1, <2>2, <2>3
  <2> QED
    BY <2>4
<1>5. PICK more \in Seq(R) : /\ more = Append(out, row) /\ Len(more) = Len(out) + 1
                             /\ ToSet(more) = ToSet(out) \cup {row}
  <2>1. /\ Append(out, row) \in Seq(R) /\ Len(Append(out, row)) = Len(out) + 1
        /\ ToSet(Append(out, row)) = ToSet(out) \cup {row}
    BY RowAppended
  <2> QED
    BY <2>1
<1>6. more \o b \in Seq(R) /\ Len(more \o b) = Len(out \o a)
  <2>1. /\ more \o b \in Seq(R) /\ Len(more \o b) = Len(more) + Len(b)
        /\ Len(out \o a) = Len(out) + Len(a)
    BY ConcatProperties
  <2>2. Len(out) \in Nat /\ Len(b) \in Nat
    BY LenProperties
  <2> QED
    BY <1>3, <1>5, <2>1, <2>2
<1>7. ToSet(more \o b) = ToSet(out \o a)
  <2>1. /\ ToSet(more \o b) = ToSet(more) \cup ToSet(b)
        /\ ToSet(out \o a) = ToSet(out) \cup ToSet(a)
    BY ToSetConcat
  <2> QED
    BY <1>4, <1>5, <2>1
<1> QED
  BY <1>3, <1>5, <1>6, <1>7 DEF SameRows

-----------------------------------------------------------------------------
\* The rows that have been pulled, each once.
AllPulled(rows) ==
    /\ rows \in Seq(Rows) /\ Len(rows) = pulled
    /\ ToSet(rows) = ToSet(SubSeq(input, 1, pulled))

Conserved ==
    /\ output = "Pending" => /\ Contents \in Seq(Seq(Rows))
                             /\ AllPulled(buf \o FlattenSeq(Contents))
    /\ output = "InMemory" => AllPulled(buf)
    /\ output = "External" => /\ Streams \in Seq(Seq(Rows))
                              /\ AllPulled(emitted \o FlattenSeq(Streams))

\* Rows in other places are the same rows.
LEMMA AllPulledKept ==
    ASSUME NEW s, NEW t, AllPulled(s), t \in Seq(Rows), SameRows(t, s),
           UNCHANGED <<input, pulled>>
    PROVE  AllPulled(t)'
BY DEF AllPulled, SameRows

\* A run more, with the rows of the buffer in another order.
LEMMA RunAdded ==
    ASSUME NEW R, NEW runs \in Seq(Seq(R)), NEW run \in Seq(R), NEW rows \in Seq(R),
           SameRows(run, rows)
    PROVE  /\ FlattenSeq(Append(runs, run)) \in Seq(R)
           /\ SameRows(FlattenSeq(Append(runs, run)), rows \o FlattenSeq(runs))
<1>1. PICK a \in Seq(R) : /\ a = FlattenSeq(runs)
                          /\ FlattenSeq(Append(runs, run)) = a \o run
  BY FlattenAppend
<1>2. a \o run \in Seq(R) /\ Len(a \o run) = Len(rows \o a)
  <2>1. /\ a \o run \in Seq(R) /\ Len(a \o run) = Len(a) + Len(run)
        /\ Len(rows \o a) = Len(rows) + Len(a)
    BY ConcatProperties
  <2>2. Len(a) \in Nat /\ Len(rows) \in Nat /\ Len(run) = Len(rows)
    BY LenProperties DEF SameRows
  <2> QED
    BY <2>1, <2>2
<1>3. ToSet(a \o run) = ToSet(rows \o a)
  <2>1. ToSet(a \o run) = ToSet(a) \cup ToSet(run)
    BY ToSetConcat
  <2>2. ToSet(rows \o a) = ToSet(rows) \cup ToSet(a)
    BY ToSetConcat
  <2> QED
    BY <2>1, <2>2 DEF SameRows
<1> QED
  BY <1>1, <1>2, <1>3 DEF SameRows

\* Nothing is pulled yet.
LEMMA InitConserved ==
    ASSUME RowsSized(Rows), Init
    PROVE  Conserved
<1>1. /\ pulled = 0 /\ buf = <<>> /\ run_metas = <<>> /\ output = "Pending"
  BY DEF Init
<1>2. Contents = <<>> /\ <<>> \in Seq(Seq(Rows)) /\ <<>> \in Seq(Rows)
  BY <1>1 DEF Contents
<1>3. FlattenSeq(<<>>) = <<>>
  BY <1>2, FlattenAppend
<1>4. <<>> \o <<>> = <<>>
  OBVIOUS
<1>5. SubSeq(input, 1, 0) = <<>>
  <2>1. input \in Seq(Rows)
    BY SortAssumption DEF Init
  <2> QED
    BY <2>1, SubSeqEmpty
<1>6. AllPulled(<<>>)
  BY <1>1, <1>2, <1>5 DEF AllPulled
<1> QED
  BY <1>1, <1>2, <1>3, <1>4, <1>6, Zenon DEF Conserved

\* A row that is pulled is in the buffer or in the run that is written.
LEMMA PullConserved ==
    ASSUME RowsSized(Rows), Base, Conserved, Pull
    PROVE  Conserved'
<1>1. /\ output = "Pending" /\ pulled < Len(input) /\ pulled' = pulled + 1 /\ input' = input
  BY DEF Pull
<1>2. SUFFICES ASSUME output' # "Panicked" PROVE Conserved'
  BY DEF Conserved
<1>3. PullBuffers \/ PullFlushes
  BY <1>2, PullBase
<1>4. output' = "Pending"
  BY <1>1, <1>3 DEF PullBuffers, PullFlushes
<1>5. Contents \in Seq(Seq(Rows)) /\ AllPulled(buf \o FlattenSeq(Contents))
  BY <1>1 DEF Conserved
<1>6. PICK row \in Rows : row = input[pulled + 1]
  BY <1>1, PullRow DEF Base
<1>s. buf \in Seq(Rows)
  BY DEF Base, TypeOK
<1>7. PICK filled \in Seq(Rows) : filled = Append(buf, row)
  BY <1>s, AppendProperties
<1>8. PICK flat \in Seq(Rows) : flat = FlattenSeq(Contents)
  <2>1. <<>> \in Seq(Rows)
    OBVIOUS
  <2> QED
    BY <1>5, <2>1, FlattenAppend
<1>9. Len(filled) = Len(buf) + 1 /\ ToSet(filled) = ToSet(buf) \cup {row}
  <2>1. /\ Append(buf, row) \in Seq(Rows) /\ Len(Append(buf, row)) = Len(buf) + 1
        /\ ToSet(Append(buf, row)) = ToSet(buf) \cup {row}
    BY <1>s, <1>6, RowAppended
  <2> QED
    BY <1>7, <2>1
<1>10. AllPulled(filled \o flat)'
  <2>1. filled \o flat \in Seq(Rows) /\ Len(filled \o flat) = Len(buf \o flat) + 1
    <3>1. /\ filled \o flat \in Seq(Rows) /\ Len(filled \o flat) = Len(filled) + Len(flat)
          /\ Len(buf \o flat) = Len(buf) + Len(flat)
      BY <1>s, ConcatProperties
    <3>2. Len(buf) \in Nat /\ Len(flat) \in Nat
      BY <1>s, LenProperties
    <3> QED
      BY <1>9, <3>1, <3>2
  <2>2. ToSet(filled \o flat) = ToSet(buf \o flat) \cup {row}
    <3>1. ToSet(filled \o flat) = ToSet(filled) \cup ToSet(flat)
      BY ToSetConcat
    <3>2. ToSet(buf \o flat) = ToSet(buf) \cup ToSet(flat)
      BY <1>s, ToSetConcat
    <3> QED
      BY <1>9, <3>1, <3>2
  <2>3. ToSet(SubSeq(input, 1, pulled')) = ToSet(SubSeq(input, 1, pulled)) \cup {row}
    <3>1. input \in Seq(Rows) /\ pulled \in Nat
      BY InputFacts DEF Base
    <3>2. ToSet(SubSeq(input, 1, pulled + 1))
              = ToSet(SubSeq(input, 1, pulled)) \cup {input[pulled + 1]}
      BY <1>1, <3>1, RowPulled
    <3> QED
      BY <1>1, <1>6, <3>2, Zenon
  <2>4. Len(buf \o flat) = pulled /\ ToSet(buf \o flat) = ToSet(SubSeq(input, 1, pulled))
    BY <1>5, <1>8 DEF AllPulled
  <2>5. Len(filled \o flat) = pulled'
    BY <1>1, <2>1, <2>4, Zenon
  <2>6. ToSet(filled \o flat) = ToSet(SubSeq(input', 1, pulled'))
    BY <1>1, <2>2, <2>3, <2>4, Zenon
  <2> QED
    BY <2>1, <2>5, <2>6, Zenon DEF AllPulled
<1>11. CASE PullBuffers
  <2>1. buf' = filled /\ Contents' = Contents
    BY <1>6, <1>7, <1>11 DEF PullBuffers, Contents, RunBlocks
  <2> QED
    BY <1>4, <1>5, <1>8, <1>10, <2>1 DEF Conserved, AllPulled
<1>12. CASE PullFlushes
  <2>1. PICK sorted \in StableSorts(filled) : sorted \in Seq(Rows) /\ FlushesTo(sorted)
    BY <1>6, <1>7, <1>12 DEF PullFlushes
  <2>2. SameRows(sorted, filled)
    BY <2>1, SortedRows DEF SameRows
  <2>3. PICK all \in Seq(Rows) :
            all = FlattenSeq(Append(Contents, sorted)) /\ SameRows(all, filled \o flat)
    BY <1>5, <1>8, <2>1, <2>2, RunAdded
  <2>4. AllPulled(all)'
    BY <1>10, <2>3 DEF AllPulled, SameRows
  <2>5. <<>> \o all = all
    BY ConcatEmptySeq
  <2>6. /\ Contents' = Append(Contents, sorted) /\ Contents' \in Seq(Seq(Rows))
        /\ buf' = <<>>
    BY <1>5, <1>12, <2>1 DEF FlushesTo, PullFlushes
  <2> QED
    BY <1>4, <2>3, <2>4, <2>5, <2>6 DEF Conserved, AllPulled
<1> QED
  BY <1>3, <1>11, <1>12

\* Sorting in memory keeps the rows.
LEMMA KeepInMemoryConserved ==
    ASSUME RowsSized(Rows), Base, Conserved, KeepInMemory
    PROVE  Conserved'
<1>1. /\ output = "Pending" /\ run_metas = <<>> /\ output' = "InMemory"
      /\ buf' \in StableSorts(buf) /\ UNCHANGED <<input, pulled>>
  BY DEF KeepInMemory, inputVars
<1>2. buf \in Seq(Rows) /\ AllPulled(buf \o FlattenSeq(Contents))
  BY <1>1 DEF Base, TypeOK, Conserved
<1>3. Contents = <<>> /\ <<>> \in Seq(Seq(Rows)) /\ <<>> \in Seq(Rows)
  BY <1>1 DEF Contents
<1>4. FlattenSeq(<<>>) = <<>>
  BY <1>3, FlattenAppend
<1>5. buf \o <<>> = buf
  BY <1>2, ConcatEmptySeq
<1>6. AllPulled(buf)
  BY <1>2, <1>3, <1>4, <1>5, Zenon
<1>7. buf' \in Seq(Rows) /\ SameRows(buf', buf)
  BY <1>1, <1>2, SortedRows DEF SameRows
<1> QED
  BY <1>1, <1>6, <1>7 DEF Conserved, AllPulled, SameRows

\* The readers together have the rows of the runs.
LEMMA StartMergeConserved ==
    ASSUME RowsSized(Rows), Base, Conserved, StartMerge
    PROVE  Conserved'
<1>1. /\ output = "Pending" /\ output' = "External"
      /\ UNCHANGED <<input, pulled, emitted>>
  BY DEF StartMerge, inputVars, outVars
<1>2. /\ Contents \in Seq(Seq(Rows)) /\ AllPulled(buf \o FlattenSeq(Contents))
      /\ buf \in Seq(Rows) /\ emitted = <<>>
  BY <1>1 DEF Base, TypeOK, Waiting, Conserved
<1>3. Flushed /\ Streams' = Contents'
  BY StartMergeBase
<1>4. PICK flat \in Seq(Rows) : flat = FlattenSeq(Contents)
  <2>1. <<>> \in Seq(Rows)
    OBVIOUS
  <2> QED
    BY <1>2, <2>1, FlattenAppend
<1>5. Streams' \in Seq(Seq(Rows)) /\ \E all \in Seq(Rows) :
          all = FlattenSeq(Streams') /\ SameRows(all, buf \o flat)
  <2>1. CASE buf = <<>> /\ UNCHANGED <<disk, run_metas>>
    <3>1. Streams' = Contents
      BY <1>3, <2>1 DEF Contents, RunBlocks
    <3>2. buf \o flat = flat
      BY <2>1, ConcatEmptySeq
    <3> QED
      BY <1>2, <1>4, <3>1, <3>2 DEF SameRows
  <2>2. ASSUME NEW sorted \in StableSorts(buf), sorted \in Seq(Rows), FlushesTo(sorted)
        PROVE  Streams' \in Seq(Seq(Rows)) /\ \E all \in Seq(Rows) :
                   all = FlattenSeq(Streams') /\ SameRows(all, buf \o flat)
    <3>1. SameRows(sorted, buf)
      BY <1>2, <2>2, SortedRows DEF SameRows
    <3>2. Streams' = Append(Contents, sorted) /\ Streams' \in Seq(Seq(Rows))
      BY <1>2, <1>3, <2>2 DEF FlushesTo
    <3>3. \E all \in Seq(Rows) :
              all = FlattenSeq(Append(Contents, sorted)) /\ SameRows(all, buf \o flat)
      BY <1>2, <1>4, <2>2, <3>1, RunAdded
    <3> QED
      BY <3>2, <3>3
  <2> QED
    BY <1>3, <2>1, <2>2 DEF Flushed
<1>6. PICK all \in Seq(Rows) : all = FlattenSeq(Streams') /\ SameRows(all, buf \o flat)
  BY <1>5
<1>7. AllPulled(all)'
  BY <1>1, <1>2, <1>4, <1>6 DEF AllPulled, SameRows
<1>8. <<>> \o all = all
  BY ConcatEmptySeq
<1> QED
  BY <1>1, <1>2, <1>5, <1>6, <1>7, <1>8 DEF Conserved, AllPulled

\* A row that is returned was the head of a reader.
LEMMA NextExternalConserved ==
    ASSUME RowsSized(Rows), Base, Conserved, NextExternal
    PROVE  Conserved'
<1>1. /\ output = "External" /\ UNCHANGED <<input, pulled, output>>
      /\ emitted \in Seq(Rows)
  BY DEF NextExternal, inputVars, Base, TypeOK
<1>2. AllPulled(emitted \o FlattenSeq(Streams))
  BY <1>1 DEF Conserved
<1>3. PICK i \in DOMAIN Streams, row \in Rows : Takes(i, row)
  BY NextExternalBase
<1>4. PICK runs \in Seq(Seq(Rows)), rest \in Seq(Seq(Rows)) :
          /\ runs = Streams /\ rest = Streams' /\ i \in DOMAIN runs
          /\ DOMAIN rest = DOMAIN runs /\ runs[i] = <<row>> \o rest[i]
          /\ \A j \in DOMAIN runs : j # i => rest[j] = runs[j]
  BY <1>3 DEF Takes
<1>5. /\ Append(emitted, row) \o FlattenSeq(rest) \in Seq(Rows)
      /\ SameRows(Append(emitted, row) \o FlattenSeq(rest), emitted \o FlattenSeq(runs))
  BY <1>1, <1>4, HeadMoved
<1>6. emitted' = Append(emitted, row)
  BY <1>3 DEF Takes
<1> QED
  BY <1>1, <1>2, <1>4, <1>5, <1>6 DEF Conserved, AllPulled, SameRows

\* No step loses a row or returns one twice.
LEMMA ConservedStep ==
    ASSUME RowsSized(Rows), Base, Conserved, [Next]_vars
    PROVE  Conserved'
<1>1. CASE ChildSpill
  <2>1. Contents' = Contents
    BY <1>1, ChildSpillBase
  <2> QED
    BY <1>1, <2>1 DEF ChildSpill, bufVars, inputVars, mergeVars, outVars, Conserved, AllPulled
<1>2. CASE Pull
  BY <1>2, PullConserved
<1>3. CASE KeepInMemory
  BY <1>3, KeepInMemoryConserved
<1>4. CASE StartMerge
  BY <1>4, StartMergeConserved
<1>5. CASE PanicOnLastRun
  BY <1>5 DEF PanicOnLastRun, Conserved
<1>6. CASE NextInMemory
  BY <1>6 DEF NextInMemory, bufVars, inputVars, Conserved, AllPulled
<1>7. CASE NextExternal
  BY <1>7, NextExternalConserved
<1>8. CASE EndExternal
  BY <1>8 DEF EndExternal, bufVars, inputVars, mergeVars, Conserved, AllPulled, Streams
<1>9. CASE UNCHANGED vars
  BY <1>9 DEF vars, Conserved, AllPulled, Streams, Contents, RunBlocks
<1> QED
  BY <1>1, <1>2, <1>3, <1>4, <1>5, <1>6, <1>7, <1>8, <1>9 DEF Next, Stopped

\* Every row pulled is in exactly one place, in every state.
LEMMA ConservedHolds ==
    ASSUME RowsSized(Rows)
    PROVE  Spec => [](Base /\ Conserved)
<1>1. Init => Base /\ Conserved
  BY InitBase, InitConserved
<1>2. Base /\ Conserved /\ [Next]_vars => Base' /\ Conserved'
  BY BaseStep, ConservedStep
<1> QED
  BY <1>1, <1>2, PTL DEF Spec

\* On the disk of the operator, Rest is Unread.
LEMMA HeldIsStreams == output = "External" => Held = FlattenSeq(Streams)
<1>1. \A reader : Unread(reader) = Rest(disk, reader)
  BY Zenon DEF Unread, Rest, OnDiskRest, RunRows
<1>2. Streams = [i \in DOMAIN readers |-> Unread(readers[i])]
  BY <1>1 DEF Streams
<1> QED
  BY <1>2, Zenon DEF Held

\* Rows are conserved, for every input, budget, order and batch size.
THEOREM SortRowsConserved ==
    ASSUME RowsSized(Rows)
    PROVE  Spec => []RowsConserved
<1>1. ASSUME Base, Conserved PROVE RowsConserved
  <2>1. SUFFICES ASSUME output # "Panicked"
                 PROVE  AllPulled(emitted \o Held)
    BY DEF RowsConserved, AllPulled, RowsOf
  <2>2. CASE output = "Pending"
    <3>1. AllPulled(buf \o FlattenSeq(Contents)) /\ emitted = <<>>
      BY <1>1, <2>2 DEF Base, Waiting, Conserved
    <3>2. Held = buf \o FlattenSeq(Contents)
      BY <2>2 DEF Held, Contents
    <3>3. PICK all \in Seq(Rows) : all = Held /\ AllPulled(all)
      BY <3>1, <3>2 DEF AllPulled
    <3>4. <<>> \o all = all
      BY ConcatEmptySeq
    <3> QED
      BY <3>1, <3>3, <3>4
  <2>3. CASE output = "InMemory"
    <3>1. AllPulled(buf) /\ emitted \o SubSeq(buf, idx + 1, Len(buf)) = buf
      BY <1>1, <2>3 DEF Base, InMemory, Conserved
    <3>2. Held = SubSeq(buf, idx + 1, Len(buf))
      BY <2>3 DEF Held
    <3> QED
      BY <3>1, <3>2, Zenon
  <2>4. CASE output = "External"
    BY <1>1, <2>4, HeldIsStreams DEF Conserved
  <2> QED
    BY <1>1, <2>1, <2>2, <2>3, <2>4 DEF Base, TypeOK
<1> QED
  BY <1>1, ConservedHolds, PTL
-----------------------------------------------------------------------------
\* The bytes of the keys order the rows the way compare_by_specs does.
KeysAgree == \A a, b \in Rows : RowLess(a, b) => KeyLess(SortKey(a), SortKey(b))

\* No row of a stream belongs before a row.
NoneBefore(row, rows) == \A other \in ToSet(rows) : ~RowLess(other, row)

\* Runs and readers are in order, and what is returned comes before what is
\* still to come.
Ordered ==
    /\ output = "Pending" => \A i \in DOMAIN Contents : InOrder(Contents[i])
    /\ output = "InMemory" => InOrder(buf)
    /\ output = "External" =>
           /\ \A i \in DOMAIN Streams : InOrder(Streams[i])
           /\ \A row \in ToSet(emitted) : \A i \in DOMAIN Streams : NoneBefore(row, Streams[i])

\* A run more.
LEMMA RunOrdered ==
    ASSUME RowOrder, \A i \in DOMAIN Contents : InOrder(Contents[i]),
           NEW rows \in Seq(Rows), NEW sorted \in StableSorts(rows), sorted \in Seq(Rows),
           FlushesTo(sorted)
    PROVE  \A i \in DOMAIN Contents' : InOrder(Contents'[i])
<1>1. InOrder(sorted)
  BY SortedOrder
<1>2. PICK n \in Nat : n = Len(Contents)
  BY LenProperties DEF FlushesTo
<1>3. /\ DOMAIN Contents = 1 .. n /\ DOMAIN Contents' = 1 .. n + 1
      /\ Contents'[n + 1] = sorted /\ \A i \in 1 .. n : Contents'[i] = Contents[i]
  <2>1. Contents \in Seq(Seq(Rows)) /\ Contents' = Append(Contents, sorted)
    BY DEF FlushesTo
  <2> DEFINE more == Append(Contents, sorted)
  <2>2. /\ DOMAIN Contents = 1 .. n /\ DOMAIN more = 1 .. n + 1
        /\ more[n + 1] = sorted /\ \A i \in 1 .. n : more[i] = Contents[i]
    BY <1>2, <2>1, AppendedSeq
  <2> QED
    BY <2>1, <2>2
<1>4. \A i \in 1 .. n + 1 : i \in 1 .. n \/ i = n + 1
  OBVIOUS
<1> QED
  BY <1>1, <1>3, <1>4

\* The head of a stream in order, and what follows it.
LEMMA HeadOfOrder ==
    ASSUME NEW head \in Rows, NEW tail \in Seq(Rows), InOrder(<<head>> \o tail)
    PROVE  InOrder(tail) /\ NoneBefore(head, tail)
<1> DEFINE s == <<head>> \o tail
<1>1. PICK n \in Nat : n = Len(tail) /\ DOMAIN tail = 1 .. n
  BY LenProperties
<1>2. /\ DOMAIN s = 1 .. n + 1 /\ s[1] = head
      /\ \A i \in 1 .. n : s[i + 1] = tail[i]
  BY <1>1
<1>3. \A i \in 1 .. n : i + 1 \in 1 .. n + 1 /\ 1 < i + 1
  OBVIOUS
<1>4. 1 \in 1 .. n + 1
  OBVIOUS
<1> HIDE DEF s
<1>5. \A i, j \in DOMAIN s : i < j => ~RowLess(s[j], s[i])
  BY DEF InOrder, s
<1>6. ASSUME NEW i \in 1 .. n, NEW j \in 1 .. n, i < j
      PROVE  ~RowLess(tail[j], tail[i])
  <2>1. i + 1 < j + 1
    BY <1>6
  <2> QED
    BY <1>2, <1>3, <1>5, <2>1
<1>7. ASSUME NEW i \in 1 .. n PROVE ~RowLess(tail[i], head)
  BY <1>2, <1>3, <1>4, <1>5
<1> QED
  BY <1>1, <1>6, <1>7 DEF InOrder, NoneBefore, ToSet

\* Nothing has been returned.
LEMMA InitOrdered ==
    ASSUME Init
    PROVE  Ordered
<1>1. Contents = <<>> /\ output = "Pending"
  BY DEF Init, Contents
<1> QED
  BY <1>1 DEF Ordered

\* The row that is returned is one of the least.
LEMMA NextExternalOrdered ==
    ASSUME RowsSized(Rows), RowOrder, KeysAgree, Base, Ordered, NextExternal
    PROVE  Ordered'
<1>1. output = "External" /\ output' = output /\ emitted \in Seq(Rows)
  BY DEF NextExternal, Base, TypeOK
<1>2. PICK i \in DOMAIN Streams, row \in Rows : Takes(i, row)
  BY NextExternalBase
<1>3. PICK runs \in Seq(Seq(Rows)), rest \in Seq(Seq(Rows)) :
          /\ runs = Streams /\ rest = Streams' /\ i \in DOMAIN runs
          /\ DOMAIN rest = DOMAIN runs /\ runs[i] = <<row>> \o rest[i]
          /\ \A j \in DOMAIN runs : j # i => rest[j] = runs[j]
          /\ \A j \in DOMAIN runs : runs[j] # <<>> =>
                 ~KeyLess(SortKey(runs[j][1]), SortKey(row))
  BY <1>2 DEF Takes
<1>4. /\ \A j \in DOMAIN runs : InOrder(runs[j])
      /\ \A r \in ToSet(emitted) : \A j \in DOMAIN runs : NoneBefore(r, runs[j])
  BY <1>1, <1>3 DEF Ordered
<1>5. \A j \in DOMAIN runs : runs[j] \in Seq(Rows) /\ rest[j] \in Seq(Rows)
  BY <1>3, LenProperties, ElementOfSeq
<1>6. InOrder(rest[i]) /\ ToSet(rest[i]) \subseteq ToSet(runs[i])
  <2>1. rest[i] \in Seq(Rows) /\ InOrder(<<row>> \o rest[i])
    BY <1>3, <1>4, <1>5
  <2>2. ToSet(<<row>> \o rest[i]) = ToSet(rest[i]) \cup {row}
    <3>1. PICK s \in Seq(Rows) : s = rest[i]
      BY <2>1
    <3>2. /\ <<row>> \o s \in Seq(Rows) /\ Len(<<row>> \o s) = Len(s) + 1
          /\ ToSet(<<row>> \o s) = ToSet(s) \cup {row}
      BY RowInFront
    <3> QED
      BY <3>1, <3>2
  <2> QED
    BY <1>3, <2>1, <2>2, HeadOfOrder
<1>7. \A j \in DOMAIN rest : InOrder(rest[j]) /\ ToSet(rest[j]) \subseteq ToSet(runs[j])
  BY <1>3, <1>4, <1>6
<1>8. ASSUME NEW j \in DOMAIN runs PROVE NoneBefore(row, runs[j])
  <2> SUFFICES ASSUME NEW other \in ToSet(runs[j]) PROVE ~RowLess(other, row)
    BY DEF NoneBefore
  <2>1. runs[j] # <<>>
    BY DEF ToSet
  <2>2. PICK head \in Rows, tail \in Seq(Rows) :
            runs[j] = <<head>> \o tail /\ runs[j][1] = head
    <3>1. PICK s \in Seq(Rows) : s = runs[j]
      BY <1>5
    <3>2. s # <<>>
      BY <2>1, <3>1
    <3>3. Head(s) \in Rows /\ Tail(s) \in Seq(Rows) /\ s = <<Head(s)>> \o Tail(s)
      BY <3>2
    <3>4. s[1] = Head(s)
      BY <3>2
    <3> QED
      BY <3>1, <3>3, <3>4
  <2>3. ~RowLess(head, row)
    BY <1>3, <2>1, <2>2 DEF KeysAgree
  <2>4. other = head \/ other \in ToSet(tail)
    <3>1. /\ <<head>> \o tail \in Seq(Rows) /\ Len(<<head>> \o tail) = Len(tail) + 1
          /\ ToSet(<<head>> \o tail) = ToSet(tail) \cup {head}
      BY RowInFront
    <3> QED
      BY <2>2, <3>1
  <2>5. other \in ToSet(tail) => ~RowLess(other, head) /\ other \in Rows
    <3>1. NoneBefore(head, tail)
      BY <1>4, <2>2, HeadOfOrder
    <3>2. ToSet(tail) \subseteq Rows
      BY LenProperties, ElementOfSeq DEF ToSet
    <3> QED
      BY <3>1, <3>2 DEF NoneBefore
  <2> QED
    BY <2>3, <2>4, <2>5 DEF RowOrder
<1>9. ToSet(emitted') = ToSet(emitted) \cup {row}
  <2>1. /\ Append(emitted, row) \in Seq(Rows) /\ Len(Append(emitted, row)) = Len(emitted) + 1
        /\ ToSet(Append(emitted, row)) = ToSet(emitted) \cup {row}
    BY <1>1, RowAppended
  <2> QED
    BY <1>2, <2>1 DEF Takes
<1>10. \A r \in ToSet(emitted') : \A j \in DOMAIN rest : NoneBefore(r, rest[j])
  BY <1>3, <1>4, <1>7, <1>8, <1>9 DEF NoneBefore
<1> QED
  BY <1>1, <1>3, <1>7, <1>10 DEF Ordered

\* No step brings a row out of order.
LEMMA OrderedStep ==
    ASSUME RowsSized(Rows), RowOrder, KeysAgree, Base, Ordered, [Next]_vars
    PROVE  Ordered'
<1>0. buf \in Seq(Rows)
  BY DEF Base, TypeOK
<1>1. CASE ChildSpill
  <2>1. Contents' = Contents
    BY <1>1, ChildSpillBase
  <2> QED
    BY <1>1, <2>1 DEF ChildSpill, Ordered
<1>2. CASE Pull
  <2>1. SUFFICES ASSUME output' # "Panicked" PROVE Ordered'
    BY DEF Ordered
  <2>2. output = "Pending" /\ \A i \in DOMAIN Contents : InOrder(Contents[i])
    BY <1>2 DEF Pull, Ordered
  <2>3. CASE PullBuffers
    BY <2>2, <2>3 DEF PullBuffers, Ordered, Contents, RunBlocks
  <2>4. CASE PullFlushes
    <3>1. \A i \in DOMAIN Contents' : InOrder(Contents'[i])
      BY <2>2, <2>4, RunOrdered DEF PullFlushes
    <3> QED
      BY <2>2, <2>4, <3>1 DEF PullFlushes, Ordered
  <2> QED
    BY <1>2, <2>1, <2>3, <2>4, PullBase
<1>3. CASE KeepInMemory
  <2>1. InOrder(buf')
    BY <1>0, <1>3, SortedOrder DEF KeepInMemory
  <2> QED
    BY <1>3, <2>1 DEF KeepInMemory, Ordered
<1>4. CASE StartMerge
  <2>1. Flushed /\ Streams' = Contents'
    BY <1>4, StartMergeBase
  <2>2. /\ output = "Pending" /\ output' = "External" /\ emitted' = <<>>
        /\ \A i \in DOMAIN Contents : InOrder(Contents[i])
    BY <1>4 DEF StartMerge, outVars, Base, Waiting, Ordered
  <2>3. \A i \in DOMAIN Contents' : InOrder(Contents'[i])
    <3>1. CASE buf = <<>> /\ UNCHANGED <<disk, run_metas>>
      BY <2>2, <3>1 DEF Contents, RunBlocks
    <3>2. ASSUME NEW sorted \in StableSorts(buf), sorted \in Seq(Rows), FlushesTo(sorted)
          PROVE  \A i \in DOMAIN Contents' : InOrder(Contents'[i])
      BY <1>0, <2>2, <3>2, RunOrdered
    <3> QED
      BY <2>1, <3>1, <3>2 DEF Flushed
  <2>4. ToSet(emitted') = {}
    BY <2>2 DEF ToSet
  <2> QED
    BY <2>1, <2>2, <2>3, <2>4 DEF Ordered
<1>5. CASE PanicOnLastRun
  BY <1>5 DEF PanicOnLastRun, Ordered
<1>6. CASE NextInMemory
  BY <1>6 DEF NextInMemory, bufVars, Ordered
<1>7. CASE NextExternal
  BY <1>7, NextExternalOrdered
<1>8. CASE EndExternal
  BY <1>8 DEF EndExternal, mergeVars, Ordered, Streams
<1>9. CASE UNCHANGED vars
  BY <1>9 DEF vars, Ordered, Streams, Contents, RunBlocks
<1> QED
  BY <1>1, <1>2, <1>3, <1>4, <1>5, <1>6, <1>7, <1>8, <1>9 DEF Next, Stopped

\* What the operator holds and has returned is in order in every state.
LEMMA OrderedHolds ==
    ASSUME RowsSized(Rows), RowOrder, KeysAgree
    PROVE  Spec => [](Base /\ Conserved /\ Ordered)
<1>1. Init => Ordered
  BY InitOrdered
<1>2. Base /\ Ordered /\ [Next]_vars => Ordered'
  BY OrderedStep
<1> QED
  BY <1>1, <1>2, ConservedHolds, PTL DEF Spec
-----------------------------------------------------------------------------
\* In an ordered sequence nothing of the second part belongs before the first.
LEMMA OrderAcross ==
    ASSUME NEW s \in Seq(Rows), NEW t \in Seq(Rows), InOrder(s \o t)
    PROVE  \A row \in ToSet(s) : NoneBefore(row, t)
<1> DEFINE u == s \o t
<1>1. PICK m \in Nat, n \in Nat : /\ m = Len(s) /\ DOMAIN s = 1 .. m
                                  /\ n = Len(t) /\ DOMAIN t = 1 .. n
  BY LenProperties
<1>2. DOMAIN u = 1 .. m + n
  BY <1>1
<1>3. \A i \in 1 .. m : i \in 1 .. m + n /\ u[i] = s[i]
  BY <1>1
<1>4. \A j \in 1 .. n : m + j \in 1 .. m + n /\ u[m + j] = t[j]
  BY <1>1
<1>5. \A i \in 1 .. m, j \in 1 .. n : i < m + j
  OBVIOUS
<1> HIDE DEF u
<1>6. \A i, j \in DOMAIN u : i < j => ~RowLess(u[j], u[i])
  BY DEF InOrder, u
<1>7. \A i \in 1 .. m, j \in 1 .. n : ~RowLess(t[j], s[i])
  BY <1>2, <1>3, <1>4, <1>5, <1>6
<1> QED
  BY <1>1, <1>7 DEF NoneBefore, ToSet

\* What is returned is in order, for every input, budget and batch size, if the
\* keys order the rows as the comparison does.
THEOREM SortMergeStaysOrdered ==
    ASSUME RowsSized(Rows), RowOrder, KeysAgree
    PROVE  Spec => []MergeStaysOrdered
<1>1. ASSUME Base, Conserved, Ordered PROVE MergeStaysOrdered
  <2>1. ASSUME NEW i \in DOMAIN readers
        PROVE  InOrder(Unread(readers[i]))
    <3>1. output = "External"
      BY <1>1, <2>1 DEF Base, TypeOK, Waiting, InMemory
    <3>2. Unread(readers[i]) = Rest(disk, readers[i])
      BY Zenon DEF Unread, Rest, OnDiskRest, RunRows
    <3>3. i \in DOMAIN Streams /\ Streams[i] = Rest(disk, readers[i])
      BY <2>1 DEF Streams
    <3> QED
      BY <1>1, <3>1, <3>2, <3>3, Zenon DEF Ordered
  <2>2. ASSUME output \in {"InMemory", "External"}, NEW row \in RowsOf(emitted)
        PROVE  NoneBefore(row, Held)
    <3>1. CASE output = "InMemory"
      <4>1. PICK rest : rest = SubSeq(buf, idx + 1, Len(buf))
        OBVIOUS
      <4>2. InOrder(emitted \o rest) /\ Held = rest
        BY <1>1, <3>1, <4>1 DEF Base, InMemory, Ordered, Held
      <4>3. emitted \in Seq(Rows) /\ rest \in Seq(Rows)
        <5>1. /\ buf \in Seq(Rows) /\ idx \in Nat /\ emitted \in Seq(Rows)
          BY <1>1 DEF Base, TypeOK
        <5>2. /\ idx + 1 \in Int /\ Len(buf) \in Int
              /\ \A j \in idx + 1 .. Len(buf) : j \in 1 .. Len(buf)
          BY <5>1, LenProperties
        <5>3. \A j \in idx + 1 .. Len(buf) : buf[j] \in Rows
          BY <5>1, <5>2, ElementOfSeq
        <5> QED
          BY <4>1, <5>1, <5>2, <5>3, SubSeqProperties
      <4> QED
        BY <2>2, <4>2, <4>3, OrderAcross DEF RowsOf
    <3>2. CASE output = "External"
      <4>1. Held = FlattenSeq(Streams) /\ Streams \in Seq(Seq(Rows))
        BY <1>1, <3>2, HeldIsStreams DEF Conserved
      <4>2. \A other : other \in ToSet(FlattenSeq(Streams)) <=>
                           \E i \in DOMAIN Streams : other \in ToSet(Streams[i])
        BY <4>1, FlattenRows
      <4>3. \A i \in DOMAIN Streams : NoneBefore(row, Streams[i])
        BY <1>1, <2>2, <3>2 DEF Ordered, RowsOf
      <4> QED
        BY <4>1, <4>2, <4>3 DEF NoneBefore
    <3> QED
      BY <2>2, <3>1, <3>2
  <2> QED
    BY <2>1, <2>2 DEF MergeStaysOrdered, InOrder, NoneBefore, RowsOf
<1> QED
  BY <1>1, OrderedHolds, PTL
-----------------------------------------------------------------------------
\* Every row of the input once, so no row twice.
LEMMA NoRowTwice ==
    ASSUME TypeOK, pulled = Len(input), NEW rows, AllPulled(rows)
    PROVE  /\ ToSet(rows) = ToSet(input) /\ rows \in Seq(Rows)
           /\ \A i, j \in DOMAIN rows : rows[i] = rows[j] => i = j
<1>1. PICK n \in Nat : /\ n = Len(input) /\ DOMAIN input = 1 .. n
                       /\ \A i \in 1 .. n : input[i] \in Rows /\ input[i].id = i
                       /\ input \in Seq(Rows)
  BY InputFacts
<1>2. rows \in Seq(Rows) /\ DOMAIN rows = 1 .. n /\ ToSet(rows) = ToSet(input)
  <2>1. SubSeq(input, 1, Len(input)) = input
    BY <1>1, SubSeqFull
  <2>2. rows \in Seq(Rows) /\ Len(rows) = n /\ ToSet(rows) = ToSet(input)
    BY <1>1, <2>1, Zenon DEF AllPulled
  <2> QED
    BY <2>2, LenProperties
<1> DEFINE f == [i \in 1 .. n |-> rows[i].id]
<1>e. /\ ToSet(rows) = {rows[i] : i \in 1 .. n}
      /\ ToSet(input) = {input[i] : i \in 1 .. n}
  BY <1>1, <1>2, Zenon DEF ToSet
<1>3. \A i \in 1 .. n : \E j \in 1 .. n : rows[i] = input[j]
  BY <1>2, <1>e
<1>4. \A j \in 1 .. n : \E i \in 1 .. n : rows[i] = input[j]
  BY <1>2, <1>e
<1>5. f \in [1 .. n -> 1 .. n]
  BY <1>1, <1>3
<1>6. \A j \in 1 .. n : \E i \in 1 .. n : f[i] = j
  BY <1>1, <1>4
<1> HIDE DEF f
<1>7. f \in Surjection(1 .. n, 1 .. n)
  BY <1>5, <1>6, Zenon DEF Surjection
<1>8. IsFiniteSet(1 .. n)
  BY FS_Interval
<1>9. f \in Injection(1 .. n, 1 .. n)
  BY <1>7, <1>8, FS_SurjSameCardinalityImpliesInj
<1>10. \A i, j \in 1 .. n : f[i] = f[j] => i = j
  BY <1>9, Zenon DEF Injection, IsInjective
<1> QED
  BY <1>2, <1>10 DEF f

\* The row that is returned is owed, and none of the rows owed precedes it.
LEMMA EmitsNext ==
    ASSUME RowOrder, TypeOK, pulled = Len(input), ~ended,
           NEW row \in Rows, NEW rest \in Seq(Rows),
           AllPulled(Append(emitted, row) \o rest), NoneBefore(row, rest),
           emitted' = Append(emitted, row), UNCHANGED <<input, ended>>
    PROVE  Stream!Next
<1>1. emitted \in Seq(Rows)
  BY DEF TypeOK
<1>2. PICK m \in Nat : m = Len(emitted) /\ DOMAIN emitted = 1 .. m
  BY <1>1, LenProperties
<1>3. PICK more \in Seq(Rows) :
          /\ more = Append(emitted, row) /\ Len(more) = m + 1
          /\ ToSet(more) = ToSet(emitted) \cup {row}
          /\ more[m + 1] = row /\ \A i \in 1 .. m : more[i] = emitted[i]
  <2>1. /\ Append(emitted, row) \in Seq(Rows) /\ Len(Append(emitted, row)) = Len(emitted) + 1
        /\ ToSet(Append(emitted, row)) = ToSet(emitted) \cup {row}
    BY <1>1, RowAppended
  <2>2. /\ Append(emitted, row)[m + 1] = row
        /\ \A i \in 1 .. m : Append(emitted, row)[i] = emitted[i]
    BY <1>1, <1>2
  <2> QED
    BY <1>2, <2>1, <2>2
<1>4. PICK all \in Seq(Rows) :
          /\ all = more \o rest /\ ToSet(all) = ToSet(input)
          /\ \A i, j \in DOMAIN all : all[i] = all[j] => i = j
  BY <1>3, NoRowTwice
<1>5. /\ \A i \in 1 .. m + 1 : i \in DOMAIN all /\ all[i] = more[i]
      /\ m + 1 \in 1 .. m + 1 /\ \A i \in 1 .. m : i \in 1 .. m + 1 /\ i # m + 1
  BY <1>3, <1>4
<1>6. row \notin ToSet(emitted)
  <2>1. SUFFICES ASSUME NEW i \in 1 .. m, emitted[i] = row PROVE FALSE
    BY <1>2 DEF ToSet
  <2>2. all[i] = row /\ all[m + 1] = row
    BY <1>3, <1>5, <2>1
  <2> QED
    BY <1>4, <1>5, <2>2
<1>7. ToSet(input) = (ToSet(emitted) \cup {row}) \cup ToSet(rest)
  <2>1. ToSet(more \o rest) = ToSet(more) \cup ToSet(rest)
    BY ToSetConcat
  <2> QED
    BY <1>3, <1>4, <2>1
<1>8. PICK owed : owed = ToSet(input) \ ToSet(emitted)
  OBVIOUS
<1>9. row \in owed /\ \A other \in owed : ~RowLess(other, row)
  <2>1. row \in owed
    BY <1>6, <1>7, <1>8
  <2>2. \A other \in owed : other = row \/ other \in ToSet(rest)
    BY <1>7, <1>8
  <2>3. ~RowLess(row, row)
    BY DEF RowOrder
  <2> QED
    BY <2>1, <2>2, <2>3 DEF NoneBefore
<1>10. ToSet(input') \ ToSet(emitted') = owed \ {row}
  BY <1>3, <1>8
<1>11. Stream!Emit(row)
  BY <1>8, <1>9, <1>10 DEF Stream!Emit, RowsOf
<1> QED
  BY <1>8, <1>9, <1>11 DEF Stream!Next, RowsOf

\* Nothing is left when None is returned.
LEMMA FinishesNext ==
    ASSUME TypeOK, pulled = Len(input), AllPulled(emitted), ended' = TRUE,
           UNCHANGED <<input, emitted>>
    PROVE  Stream!Next
<1>1. ToSet(emitted) = ToSet(input)
  BY NoRowTwice
<1> QED
  BY <1>1 DEF Stream!Next, Stream!Finish, RowsOf

\* A step in memory is a step of the result stream.
LEMMA NextInMemoryStream ==
    ASSUME RowsSized(Rows), RowOrder, Base, Conserved, Ordered, NextInMemory
    PROVE  Stream!Next
<1>1. /\ output = "InMemory" /\ ~ended /\ UNCHANGED <<input, buf>> /\ idx' = idx + 1
      /\ UNCHANGED output
  BY DEF NextInMemory, inputVars, bufVars
<1>2. /\ TypeOK /\ pulled = Len(input) /\ AllPulled(buf) /\ InOrder(buf)
      /\ emitted \o SubSeq(buf, idx + 1, Len(buf)) = buf
      /\ buf \in Seq(Rows) /\ emitted \in Seq(Rows) /\ idx \in Nat /\ Len(buf) \in Nat
  BY <1>1, LenProperties DEF Base, TypeOK, InMemory, Conserved, Ordered
<1>3. CASE idx < Len(buf)
  <2>1. PICK row \in Rows : row = buf[idx + 1] /\ emitted' = Append(emitted, row) /\ ~ended'
    BY <1>3, NextInMemoryBase
  <2>2. PICK rest : rest = SubSeq(buf, (idx + 1) + 1, Len(buf))
    OBVIOUS
  <2>3. Append(emitted, row) \o rest = buf
    <3>1. InMemory' /\ output' = "InMemory"
      BY <1>1, NextInMemoryBase DEF Base
    <3>2. emitted' \o SubSeq(buf', idx' + 1, Len(buf')) = buf'
      BY <3>1 DEF InMemory
    <3>3. idx' + 1 = (idx + 1) + 1 /\ buf' = buf
      BY <1>1
    <3> QED
      BY <2>1, <2>2, <3>2, <3>3, Zenon
  <2>4. rest \in Seq(Rows)
    <3>1. /\ (idx + 1) + 1 \in Int /\ Len(buf) \in Int
          /\ \A j \in (idx + 1) + 1 .. Len(buf) : j \in 1 .. Len(buf)
      BY <1>2
    <3>2. \A j \in (idx + 1) + 1 .. Len(buf) : buf[j] \in Rows
      BY <1>2, <3>1, ElementOfSeq
    <3> QED
      BY <2>2, <3>1, <3>2, SubSeqProperties
  <2>5. NoneBefore(row, rest)
    <3>1. PICK more \in Seq(Rows) : /\ more = Append(emitted, row)
                                    /\ ToSet(more) = ToSet(emitted) \cup {row}
      <4>1. /\ Append(emitted, row) \in Seq(Rows)
            /\ Len(Append(emitted, row)) = Len(emitted) + 1
            /\ ToSet(Append(emitted, row)) = ToSet(emitted) \cup {row}
        BY <1>2, RowAppended
      <4> QED
        BY <4>1
    <3>2. InOrder(more \o rest)
      BY <1>2, <2>3, <3>1
    <3> QED
      BY <2>4, <3>1, <3>2, OrderAcross
  <2>6. ended' = ended
    BY <1>1, <2>1, NextInMemoryBase DEF Base, TypeOK
  <2> QED
    BY <1>1, <1>2, <2>1, <2>3, <2>4, <2>5, <2>6, EmitsNext
<1>4. CASE ~(idx < Len(buf))
  <2>1. emitted' = emitted /\ ended' = TRUE /\ idx = Len(buf)
    BY <1>4, NextInMemoryBase DEF Base, TypeOK
  <2>2. emitted = buf
    <3>1. Len(buf) < idx + 1
      BY <1>2, <2>1
    <3>2. SubSeq(buf, idx + 1, Len(buf)) = <<>>
      BY <1>2, <3>1, SubSeqEmpty
    <3>3. emitted \o <<>> = emitted
      BY <1>2, ConcatEmptySeq
    <3> QED
      BY <1>2, <3>2, <3>3, Zenon
  <2> QED
    BY <1>1, <1>2, <2>1, <2>2, FinishesNext
<1> QED
  BY <1>3, <1>4

\* A step of the merge is a step of the result stream.
LEMMA NextExternalStream ==
    ASSUME RowsSized(Rows), RowOrder, KeysAgree, Base, Conserved, Ordered, NextExternal
    PROVE  Stream!Next
<1>1. /\ output = "External" /\ ~ended /\ UNCHANGED <<input, pulled, output, ended>>
      /\ TypeOK /\ pulled = Len(input) /\ emitted \in Seq(Rows)
  BY DEF NextExternal, inputVars, Base, Merging, TypeOK
<1>2. PICK i \in DOMAIN Streams, row \in Rows : Takes(i, row)
  BY NextExternalBase
<1>3. PICK rest \in Seq(Rows) : rest = FlattenSeq(Streams')
  <2>1. <<>> \in Seq(Rows) /\ Streams' \in Seq(Seq(Rows))
    BY <1>2 DEF Takes
  <2> QED
    BY <2>1, FlattenAppend
<1>4. emitted' = Append(emitted, row) /\ Streams' \in Seq(Seq(Rows))
  BY <1>2 DEF Takes
<1>5. AllPulled(Append(emitted, row) \o rest)
  <2>1. AllPulled(emitted \o FlattenSeq(Streams))'
    BY <1>1, NextExternalConserved DEF Conserved
  <2> QED
    BY <1>1, <1>3, <1>4, <2>1 DEF AllPulled
<1>6. NoneBefore(row, rest)
  <2>1. \A r \in ToSet(emitted') : \A j \in DOMAIN Streams' : NoneBefore(r, Streams'[j])
    BY <1>1, NextExternalOrdered DEF Ordered, NoneBefore
  <2>2. row \in ToSet(emitted')
    <3>1. /\ Append(emitted, row) \in Seq(Rows)
          /\ Len(Append(emitted, row)) = Len(emitted) + 1
          /\ ToSet(Append(emitted, row)) = ToSet(emitted) \cup {row}
      BY <1>1, RowAppended
    <3> QED
      BY <1>4, <3>1
  <2>3. \A other : other \in ToSet(rest) <=>
                       \E j \in DOMAIN Streams' : other \in ToSet(Streams'[j])
    BY <1>3, <1>4, FlattenRows
  <2> QED
    BY <2>1, <2>2, <2>3 DEF NoneBefore
<1> QED
  BY <1>1, <1>4, <1>5, <1>6, EmitsNext

\* The merge ends when every reader has.
LEMMA EndExternalStream ==
    ASSUME RowsSized(Rows), Base, Conserved, EndExternal
    PROVE  Stream!Next
<1>1. /\ output = "External" /\ ended' = TRUE /\ UNCHANGED <<input, emitted>>
      /\ TypeOK /\ pulled = Len(input) /\ emitted \in Seq(Rows)
  BY DEF EndExternal, inputVars, Base, Merging, TypeOK
<1>2. Streams \in Seq(Seq(Rows)) /\ AllPulled(emitted \o FlattenSeq(Streams))
  BY <1>1 DEF Conserved
<1>3. PICK rest \in Seq(Rows) : rest = FlattenSeq(Streams)
  <2>1. <<>> \in Seq(Rows)
    OBVIOUS
  <2> QED
    BY <1>2, <2>1, FlattenAppend
<1>4. rest = <<>>
  <2>1. \A i \in DOMAIN Streams : Streams[i] = <<>>
    BY EndExternalBase
  <2>2. \A row : row \in ToSet(rest) <=>
                     \E i \in DOMAIN Streams : row \in ToSet(Streams[i])
    BY <1>2, <1>3, FlattenRows
  <2>3. ToSet(rest) = {}
    BY <2>1, <2>2 DEF ToSet
  <2>4. Len(rest) = 0
    <3>1. Len(rest) \in Nat /\ \A i \in 1 .. Len(rest) : rest[i] \in ToSet(rest)
      BY LenProperties DEF ToSet
    <3> QED
      BY <2>3, <3>1
  <2> QED
    BY <2>4, EmptySeq
<1>5. emitted \o <<>> = emitted
  BY <1>1, ConcatEmptySeq
<1>6. AllPulled(emitted)
  BY <1>2, <1>3, <1>4, <1>5, Zenon
<1> QED
  BY <1>1, <1>6, FinishesNext

\* The sort keeps the promise of a result stream: it returns every row of its
\* child once, in the order of the sort specs, and only then None.
THEOREM SortImplementsStream ==
    ASSUME RowsSized(Rows), RowOrder, KeysAgree
    PROVE  Spec => ImplementsResultStream
<1>1. Init => Stream!Init
  <2> SUFFICES ASSUME Init PROVE Stream!Init
    OBVIOUS
  <2>1. input \in Seq(Rows) /\ emitted = <<>> /\ ended = FALSE
    BY SortAssumption DEF Init
  <2>2. ToSet(input) \subseteq Rows
    BY <2>1, LenProperties, ElementOfSeq DEF ToSet
  <2> QED
    BY <2>1, <2>2 DEF Stream!Init, RowsOf
<1>2. Base /\ Conserved /\ Ordered /\ [Next]_vars => [Stream!Next]_Stream!vars
  <2> SUFFICES ASSUME Base, Conserved, Ordered, [Next]_vars
               PROVE  [Stream!Next]_Stream!vars
    OBVIOUS
  <2>1. UNCHANGED <<input, emitted, ended>> => UNCHANGED Stream!vars
    BY DEF Stream!vars, RowsOf
  <2>2. CASE ChildSpill \/ Pull \/ KeepInMemory \/ StartMerge \/ PanicOnLastRun
             \/ Stopped \/ UNCHANGED vars
    BY <2>1, <2>2 DEF ChildSpill, Pull, KeepInMemory, StartMerge, PanicOnLastRun, Stopped,
                        vars, inputVars, outVars
  <2>3. CASE NextInMemory
    BY <2>3, NextInMemoryStream
  <2>4. CASE NextExternal
    BY <2>4, NextExternalStream
  <2>5. CASE EndExternal
    BY <2>5, EndExternalStream
  <2> QED
    BY <2>2, <2>3, <2>4, <2>5 DEF Next
<1> QED
  BY <1>1, <1>2, OrderedHolds, PTL DEF Spec, ImplementsResultStream, Stream!Spec
-----------------------------------------------------------------------------
\* Two sequences of rows take together what they take one by one.
LEMMA MemoryConcat ==
    ASSUME NEW R, \A r \in R : r.mem \in Nat, NEW s \in Seq(R), NEW t \in Seq(R)
    PROVE  MemoryOf(s \o t) = MemoryOf(s) + MemoryOf(t)
<1> DEFINE T == {n \in Nat : \A u \in Seq(R) : Len(u) = n =>
                                 MemoryOf(s \o u) = MemoryOf(s) + MemoryOf(u)}
<1>1. 0 \in T
  <2>1. ASSUME NEW u \in Seq(R), Len(u) = 0
        PROVE  MemoryOf(s \o u) = MemoryOf(s) + MemoryOf(u)
    <3>1. u = <<>> /\ s \o <<>> = s
      BY <2>1, EmptySeq, ConcatEmptySeq
    <3>2. MemoryOf(s) \in Nat /\ MemoryOf(<<>>) = 0
      BY MemoryAppend
    <3>3. MemoryOf(s) + 0 = MemoryOf(s)
      BY <3>2
    <3> QED
      BY <3>1, <3>2, <3>3, Zenon
  <2> QED
    BY <2>1
<1>2. ASSUME NEW n \in Nat, n \in T PROVE n + 1 \in T
  <2>1. ASSUME NEW u \in Seq(R), Len(u) = n + 1
        PROVE  MemoryOf(s \o u) = MemoryOf(s) + MemoryOf(u)
    <3>1. PICK v \in Seq(R), r \in R : u = Append(v, r)
      <4>1. u # <<>>
        BY <2>1, EmptySeq
      <4> QED
        BY <4>1, SequenceEmptyOrAppend
    <3>2. Len(v) = n
      <4>1. Len(u) = Len(v) + 1 /\ Len(v) \in Nat
        BY <3>1, AppendProperties, LenProperties
      <4> QED
        BY <2>1, <4>1
    <3>3. MemoryOf(s \o v) = MemoryOf(s) + MemoryOf(v)
      BY <1>2, <3>2
    <3>4. PICK w \in Seq(R) : w = s \o v
      BY ConcatProperties
    <3>5. s \o u = Append(w, r)
      <4>1. /\ u = v \o <<r>> /\ Append(w, r) = w \o <<r>> /\ <<r>> \in Seq(R)
        BY <3>1, AppendIsConcat
      <4>2. (s \o v) \o <<r>> = s \o (v \o <<r>>)
        BY <4>1, ConcatAssociative
      <4> QED
        BY <3>4, <4>1, <4>2, Zenon
    <3>6. /\ MemoryOf(Append(w, r)) = MemoryOf(w) + r.mem
          /\ MemoryOf(Append(v, r)) = MemoryOf(v) + r.mem
          /\ MemoryOf(s) \in Nat /\ MemoryOf(v) \in Nat /\ r.mem \in Nat
      BY MemoryAppend
    <3>7. MemoryOf(s \o u) = MemoryOf(w) + r.mem /\ MemoryOf(u) = MemoryOf(v) + r.mem
      BY <3>1, <3>5, <3>6, Zenon
    <3> QED
      BY <3>3, <3>4, <3>6, <3>7
  <2>2. n + 1 \in Nat
    OBVIOUS
  <2> QED
    BY <2>1, <2>2
<1> HIDE DEF T
<1>3. Len(t) \in T
  BY <1>1, <1>2, LenProperties, SetInduction
<1> QED
  BY <1>3 DEF T

\* Each block takes at most c bytes decoded.
AtMost(blocks, c) == \A i \in DOMAIN blocks : MemoryOf(blocks[i].rows) <= c

\* Then n blocks take at most n times that.
LEMMA DecodedMemory ==
    ASSUME RowsSized(Rows), NEW blocks \in Seq(FilledBlocks(Rows)),
           NEW c \in Nat, AtMost(blocks, c)
    PROVE  /\ MemoryOf(DecodeBlocks(blocks)) \in Nat
           /\ MemoryOf(DecodeBlocks(blocks)) <= Len(blocks) * c
<1> DEFINE T == {n \in Nat : \A u \in Seq(FilledBlocks(Rows)) : Len(u) = n /\ AtMost(u, c) =>
                                 MemoryOf(DecodeBlocks(u)) <= n * c}
<1>0. /\ Decodable(FilledBlocks(Rows), Rows) /\ \A r \in Rows : r.mem \in Nat
      /\ \A b \in FilledBlocks(Rows) : decode_block(b) \in Seq(Rows) /\ decode_block(b) = b.rows
  <2>1. /\ Decodable(PackedBlocks(Rows), Rows)
        /\ \A b \in PackedBlocks(Rows) : decode_block(b) = b.rows
    BY DecodePacked DEF RowsSized
  <2> QED
    BY <2>1, BlockFacts, SortAssumption
<1>1. 0 \in T
  <2>1. ASSUME NEW u \in Seq(FilledBlocks(Rows)), Len(u) = 0
        PROVE  MemoryOf(DecodeBlocks(u)) <= 0 * c
    <3>1. u = <<>>
      BY <2>1, EmptySeq
    <3>2. DecodeBlocks(<<>>) = <<>>
      BY <1>0, DecodeAppend
    <3>3. <<>> \in Seq(Rows)
      OBVIOUS
    <3>4. MemoryOf(<<>>) = 0
      BY <1>0, <3>3, MemoryAppend
    <3>5. MemoryOf(DecodeBlocks(u)) = 0
      BY <3>1, <3>2, <3>4, Zenon
    <3> QED
      BY <3>5
  <2> QED
    BY <2>1
<1>2. ASSUME NEW n \in Nat, n \in T PROVE n + 1 \in T
  <2>1. ASSUME NEW u \in Seq(FilledBlocks(Rows)), Len(u) = n + 1, AtMost(u, c)
        PROVE  MemoryOf(DecodeBlocks(u)) <= (n + 1) * c
    <3>1. PICK v \in Seq(FilledBlocks(Rows)), b \in FilledBlocks(Rows) : u = Append(v, b)
      <4>1. u # <<>>
        BY <2>1, EmptySeq
      <4> QED
        BY <4>1, SequenceEmptyOrAppend
    <3>2. /\ Len(v) = n /\ DOMAIN v = 1 .. n /\ DOMAIN u = 1 .. n + 1
          /\ u[n + 1] = b /\ \A i \in 1 .. n : u[i] = v[i]
      <4>1. Len(u) = Len(v) + 1 /\ Len(v) \in Nat
        BY <3>1, AppendProperties, LenProperties
      <4>2. Len(v) = n
        BY <2>1, <4>1
      <4> QED
        BY <3>1, <4>2, AppendedSeq
    <3>3. AtMost(v, c) /\ MemoryOf(b.rows) <= c
      <4>1. \A i \in 1 .. n : i \in 1 .. n + 1
        OBVIOUS
      <4>2. n + 1 \in 1 .. n + 1
        OBVIOUS
      <4> QED
        BY <2>1, <3>2, <4>1, <4>2 DEF AtMost
    <3>4. MemoryOf(DecodeBlocks(v)) <= n * c
      BY <1>2, <3>2, <3>3
    <3>5. /\ DecodeBlocks(u) = DecodeBlocks(v) \o decode_block(b)
          /\ DecodeBlocks(v) \in Seq(Rows)
      BY <1>0, <3>1, DecodeAppend
    <3>6. decode_block(b) \in Seq(Rows) /\ decode_block(b) = b.rows
      BY <1>0
    <3>7. /\ MemoryOf(DecodeBlocks(v) \o decode_block(b))
                 = MemoryOf(DecodeBlocks(v)) + MemoryOf(decode_block(b))
          /\ MemoryOf(DecodeBlocks(v)) \in Nat /\ MemoryOf(decode_block(b)) \in Nat
      BY <1>0, <3>5, <3>6, MemoryConcat, MemoryAppend
    <3>8. PICK x \in Nat, y \in Nat :
              /\ x = MemoryOf(DecodeBlocks(v)) /\ y = MemoryOf(b.rows)
              /\ MemoryOf(DecodeBlocks(u)) = x + y
      BY <3>5, <3>6, <3>7
    <3>9. x <= n * c /\ y <= c
      BY <3>3, <3>4, <3>8
    <3>10. x + y <= (n + 1) * c
      <4>1. PICK z \in Nat : z = n * c
        OBVIOUS
      <4>2. (n + 1) * c = z + c
        BY <4>1
      <4> QED
        BY <3>9, <4>1, <4>2
    <3> QED
      BY <3>8, <3>10
  <2>2. n + 1 \in Nat
    OBVIOUS
  <2> QED
    BY <2>1, <2>2, Zenon
<1> HIDE DEF T
<1>3. Len(blocks) \in T
  BY <1>1, <1>2, LenProperties, SetInduction
<1>4. DecodeBlocks(blocks) \in Seq(Rows)
  BY <1>0, DecodeAppend
<1>5. MemoryOf(DecodeBlocks(blocks)) \in Nat
  BY <1>0, <1>4, MemoryAppend
<1> QED
  BY <1>3, <1>5 DEF T
-----------------------------------------------------------------------------
\* The sum of n numbers of at most c.
LEMMA SumBound ==
    ASSUME NEW n \in Nat, NEW f \in [1 .. n -> Nat], NEW c \in Nat,
           \A i \in 1 .. n : f[i] <= c
    PROVE  FoldFunction(+, 0, f) \in Nat /\ FoldFunction(+, 0, f) <= n * c
<1> DEFINE D == 1 .. n
           Body(g) == [t \in SUBSET D |->
                          IF t = {} THEN 0
                          ELSE f[CHOOSE x \in t : TRUE] + g[t \ {CHOOSE x \in t : TRUE}]]
           ot == CHOOSE g : g = Body(g)
<1>1. FoldFunction(+, 0, f) = ot[D]
  <2>1. DOMAIN f = D
    OBVIOUS
  <2> QED
    BY <2>1, Zenon DEF FoldFunction, FoldFunctionOnSet, MapThenFoldSet
<1>2. PICK rows \in Seq([mem : Nat]) : Len(rows) = n /\ \A i \in D : rows[i].mem = f[i]
  <2>1. [i \in D |-> [mem |-> f[i]]] \in Seq([mem : Nat])
    OBVIOUS
  <2>2. Len([i \in D |-> [mem |-> f[i]]]) = n
    OBVIOUS
  <2> QED
    BY <2>1, <2>2
<1>3. PICK sum : SumsMemory(sum, rows)
  BY <1>2, MemorySum
<1>4. /\ sum \in [SUBSET D -> Nat] /\ sum[{}] = 0
      /\ \A t \in SUBSET D : \A x \in t : sum[t] = f[x] + sum[t \ {x}]
  <2>1. DOMAIN rows = D
    BY <1>2
  <2>2. ASSUME NEW t \in SUBSET D, NEW x \in t
        PROVE  sum[t] = f[x] + sum[t \ {x}]
    <3>1. sum[t] = sum[t \ {x}] + rows[x].mem
      BY <1>3, <2>1 DEF SumsMemory
    <3>2. sum[t \ {x}] \in Nat /\ f[x] \in Nat /\ rows[x].mem = f[x]
      BY <1>2, <1>3, <2>1 DEF SumsMemory
    <3> QED
      BY <3>1, <3>2
  <2> QED
    BY <1>3, <2>1, <2>2 DEF SumsMemory
<1>5. sum = Body(sum)
  <2>1. \A t \in SUBSET D : t # {} => (CHOOSE x \in t : TRUE) \in t
    OBVIOUS
  <2>2. ASSUME NEW t \in SUBSET D
        PROVE  sum[t] = IF t = {} THEN 0
                        ELSE f[CHOOSE x \in t : TRUE] + sum[t \ {CHOOSE x \in t : TRUE}]
    BY <1>4, <2>1
  <2> QED
    BY <1>4, <2>2
<1>6. ot = Body(ot)
  BY <1>5, Zenon
<1> HIDE DEF ot
<1>7. /\ ot[{}] = 0
      /\ \A t \in SUBSET D : t # {} => \E x \in t : ot[t] = f[x] + ot[t \ {x}]
  BY <1>6
<1> DEFINE T == {k \in Nat : \A t \in SUBSET D : Cardinality(t) = k => ot[t] = sum[t]}
<1>f. IsFiniteSet(D) /\ \A t \in SUBSET D : IsFiniteSet(t) /\ Cardinality(t) \in Nat
  <2>1. IsFiniteSet(1 .. n)
    BY FS_Interval
  <2>2. \A t \in SUBSET D : IsFiniteSet(t)
    BY <2>1, FS_Subset
  <2>3. \A t \in SUBSET D : Cardinality(t) \in Nat
    BY <2>2, FS_CardinalityType
  <2> QED
    BY <2>1, <2>2, <2>3
<1>8. 0 \in T
  <2>1. \A t \in SUBSET D : Cardinality(t) = 0 => t = {}
    BY <1>f, FS_EmptySet
  <2> QED
    BY <1>4, <1>7, <2>1
<1>9. ASSUME NEW k \in Nat, k \in T PROVE k + 1 \in T
  <2>1. ASSUME NEW t \in SUBSET D, Cardinality(t) = k + 1 PROVE ot[t] = sum[t]
    <3>1. t # {}
      <4>1. Cardinality({}) = 0
        BY FS_EmptySet
      <4>2. k + 1 # 0
        OBVIOUS
      <4> QED
        BY <2>1, <4>1, <4>2, Zenon
    <3>2. PICK x \in t : ot[t] = f[x] + ot[t \ {x}]
      BY <1>7, <3>1
    <3>3. Cardinality(t \ {x}) = k
      <4>1. Cardinality(t \ {x}) = Cardinality(t) - 1
        BY <1>f, FS_RemoveElement
      <4> QED
        BY <2>1, <4>1
    <3>4. ot[t \ {x}] = sum[t \ {x}]
      BY <1>9, <3>3
    <3> QED
      BY <1>4, <3>2, <3>4
  <2>2. k + 1 \in Nat
    OBVIOUS
  <2> QED
    BY <2>1, <2>2
<1> HIDE DEF T
<1>10. Cardinality(D) \in T
  BY <1>f, <1>8, <1>9, SetInduction
<1>11. ot[D] = sum[D]
  BY <1>10 DEF T
<1> DEFINE U == {k \in Nat : k <= n => sum[1 .. k] <= k * c}
<1>12. 0 \in U
  <2>1. 1 .. 0 = {} /\ 0 * c = 0
    OBVIOUS
  <2> QED
    BY <1>4, <2>1
<1>13. ASSUME NEW k \in Nat, k \in U PROVE k + 1 \in U
  <2>1. ASSUME k + 1 <= n PROVE sum[1 .. k + 1] <= (k + 1) * c
    <3>1. /\ 1 .. k + 1 \in SUBSET D /\ k + 1 \in 1 .. k + 1 /\ k + 1 \in D
          /\ (1 .. k + 1) \ {k + 1} = 1 .. k /\ 1 .. k \in SUBSET D
      BY <2>1
    <3>2. sum[1 .. k + 1] = f[k + 1] + sum[(1 .. k + 1) \ {k + 1}]
      BY <1>4, <3>1, Zenon
    <3>3. PICK x \in Nat, y \in Nat, z \in Nat :
              x = f[k + 1] /\ y = sum[1 .. k] /\ z = k * c
      <4>1. f[k + 1] \in Nat /\ sum[1 .. k] \in Nat
        BY <1>4, <3>1
      <4>2. k * c \in Nat
        OBVIOUS
      <4> QED
        BY <4>1, <4>2
    <3>4. x <= c /\ y <= z
      BY <1>13, <2>1, <3>1, <3>3
    <3>5. (k + 1) * c = z + c
      BY <3>3
    <3>6. sum[1 .. k + 1] = x + y
      BY <3>1, <3>2, <3>3
    <3> QED
      BY <3>4, <3>5, <3>6
  <2>2. k + 1 \in Nat
    OBVIOUS
  <2> QED
    BY <2>1, <2>2
<1> HIDE DEF U
<1>14. n \in U
  BY <1>12, <1>13, SetInduction
<1>15. sum[D] \in Nat /\ sum[D] <= n * c
  BY <1>4, <1>14 DEF U
<1> QED
  BY <1>1, <1>11, <1>15

\* The greater of two numbers.
LEMMA MaxOfTwo ==
    ASSUME NEW a \in Nat, NEW b \in Nat
    PROVE  Max({a, b}) = IF a <= b THEN b ELSE a
<1> DEFINE m == IF a <= b THEN b ELSE a
<1>1. m \in {a, b} /\ \A y \in {a, b} : m >= y
  OBVIOUS
<1>2. Max({a, b}) \in {a, b} /\ \A y \in {a, b} : Max({a, b}) >= y
  <2> HIDE DEF m
  <2> QED
    BY <1>1, Zenon DEF Max
<1> QED
  BY <1>1, <1>2

\* A batch for each reader, or a block where the budget is less than that.
LEMMA BatchesWithinBudget ==
    ASSUME NEW n \in Nat \ {0}
    PROVE  n * (BatchBlocks(n) * (2 * BlockSize))
               <= Max({READER_BUFFER_BUDGET, n * 2 * BlockSize})
<1>1. PICK d \in Nat \ {0} : d = n * 2 * BlockSize
  <2>1. n * 2 * BlockSize \in Nat \ {0}
    BY BlockSizeAssumption
  <2> QED
    BY <2>1
<1>2. PICK budget \in Nat : budget = READER_BUFFER_BUDGET
  BY SortAssumption
<1>3. PICK q \in Nat : q = budget \div d /\ q * d <= budget
  <2>1. budget \div d \in Nat /\ (budget \div d) * d <= budget
    OBVIOUS
  <2> QED
    BY <2>1
<1>4. PICK p \in Nat \ {0} : p = Max({1, q}) /\ (p = 1 \/ p = q)
  <2>1. Max({1, q}) = IF 1 <= q THEN q ELSE 1
    BY MaxOfTwo
  <2> QED
    BY <2>1
<1>5. PICK k \in Nat \ {0} : k = MAX_BATCH_BLOCKS
  BY SortAssumption
<1>6. PICK batch \in Nat \ {0} : batch = BatchBlocks(n) /\ batch <= p
  <2>1. BatchBlocks(n) = Min({k, p})
    BY <1>1, <1>2, <1>3, <1>4, <1>5, Zenon DEF BatchBlocks
  <2>2. Min({k, p}) = IF k <= p THEN k ELSE p
    BY MinOfTwo
  <2> QED
    BY <2>1, <2>2
<1>7. n * (batch * (2 * BlockSize)) = batch * d
  <2>1. BlockSize \in Nat
    BY BlockSizeAssumption
  <2> QED
    BY <1>1, <2>1
<1>8. batch * d <= p * d
  BY <1>6
<1>9. p * d <= budget \/ p * d <= d
  BY <1>3, <1>4
<1>10. Max({budget, d}) = IF budget <= d THEN d ELSE budget
  BY MaxOfTwo
<1>11. batch * d <= Max({budget, d})
  <2>1. PICK x \in Nat, y \in Nat : x = batch * d /\ y = p * d
    OBVIOUS
  <2> QED
    BY <1>8, <1>9, <1>10, <2>1
<1> QED
  BY <1>1, <1>2, <1>6, <1>7, <1>11
-----------------------------------------------------------------------------
\* Every reader of a merge has the batch size the number of runs gives it, and
\* buffers at most one batch.
Batched ==
    output = "External" =>
        \A i \in DOMAIN run_metas :
            /\ OneBatch(disk, readers[i], run_metas[i])
            /\ readers[i].batch_blocks = BatchBlocks(Len(run_metas))

\* StartMerge opens the readers with their first batch.
LEMMA StartMergeBatched ==
    ASSUME RowsSized(Rows), Base, StartMerge
    PROVE  Batched'
<1>1. /\ run_metas' \in Seq(Run) /\ run_metas' # <<>> /\ RunsStored'
  <2>1. Flushed /\ Base' /\ run_metas # <<>>
    BY StartMergeBase DEF StartMerge
  <2>2. run_metas' # <<>>
    BY <2>1 DEF Flushed, FlushesTo
  <2> QED
    BY <2>1, <2>2 DEF Base, TypeOK
<1>2. PICK n \in Nat \ {0} : n = Len(run_metas')
  BY <1>1, LenProperties, EmptySeq
<1>3. PICK batch \in Nat \ {0} : batch = BatchBlocks(n)
  BY BatchIsPositive
<1>4. readers' = [i \in DOMAIN run_metas' |-> NewReader(disk', run_metas'[i], batch)]
  BY <1>2, <1>3 DEF StartMerge
<1>5. ASSUME NEW i \in DOMAIN run_metas'
      PROVE  /\ OneBatch(disk', readers'[i], run_metas'[i])
             /\ readers'[i].batch_blocks = batch
  <2>1. RunOnDisk(Rows, disk', run_metas'[i])
    BY <1>1 DEF RunsStored
  <2>2. readers'[i] = NewReader(disk', run_metas'[i], batch)
    BY <1>4
  <2>3. /\ OneBatch(disk', NewReader(disk', run_metas'[i], batch), run_metas'[i])
        /\ NewReader(disk', run_metas'[i], batch).batch_blocks = batch
    BY <2>1, OpenReader
  <2> QED
    BY <2>2, <2>3, Zenon
<1> QED
  BY <1>2, <1>3, <1>5 DEF Batched

\* A reader that moves on keeps its batch or takes the next.
LEMMA NextExternalBatched ==
    ASSUME RowsSized(Rows), Base, Batched, NextExternal
    PROVE  Batched'
<1>1. PICK entry \in heap :
          readers' = [readers EXCEPT ![entry.run_idx] = advance(disk, @)]
  BY Zenon DEF NextExternal
<1>2. output = "External" /\ UNCHANGED <<disk, run_metas>>
  BY DEF NextExternal
<1>3. /\ RunsStored /\ readers = [i \in DOMAIN run_metas |-> readers[i]]
      /\ \A i \in DOMAIN run_metas : ReaderOn(readers[i], run_metas[i])
  BY <1>2 DEF Base, Merging
<1>4. PICK i \in DOMAIN readers : ~is_empty(readers[i]) /\ entry.run_idx = i
  BY <1>2 DEF Base, HeapMirrorsReaders
<1>5. DOMAIN readers = DOMAIN run_metas
  BY <1>3
<1>6. PICK moved : moved = advance(disk, readers[i])
  OBVIOUS
<1>7. /\ OneBatch(disk, readers[i], run_metas[i]) => OneBatch(disk, moved, run_metas[i])
      /\ moved.batch_blocks = readers[i].batch_blocks
  <2>1. RunOnDisk(Rows, disk, run_metas[i]) /\ ReaderOn(readers[i], run_metas[i])
    BY <1>3, <1>4, <1>5 DEF RunsStored
  <2> QED
    BY <1>4, <1>6, <2>1, AdvanceReader
<1>8. /\ readers'[i] = moved
      /\ \A j \in DOMAIN readers : j # i => readers'[j] = readers[j]
  BY <1>1, <1>4, <1>6
<1> QED
  BY <1>2, <1>4, <1>5, <1>7, <1>8 DEF Batched

\* No step lets a reader buffer more than a batch.
LEMMA BatchedHolds ==
    ASSUME RowsSized(Rows)
    PROVE  Spec => [](Base /\ Batched)
<1>1. Init => Batched
  BY DEF Init, Batched
<1>2. ASSUME Base, Batched, [Next]_vars PROVE Batched'
  <2>1. CASE StartMerge
    BY <1>2, <2>1, StartMergeBatched
  <2>2. CASE NextExternal
    BY <1>2, <2>2, NextExternalBatched
  <2>3. CASE ChildSpill \/ Pull \/ KeepInMemory \/ PanicOnLastRun \/ NextInMemory
    BY <2>3 DEF ChildSpill, Pull, KeepInMemory, PanicOnLastRun, NextInMemory, Batched
  <2>4. CASE EndExternal \/ Stopped \/ UNCHANGED vars
    BY <1>2, <2>4 DEF EndExternal, Stopped, vars, mergeVars, Batched
  <2> QED
    BY <1>2, <2>1, <2>2, <2>3, <2>4 DEF Next
<1> QED
  BY <1>1, <1>2, BaseHolds, PTL DEF Spec

\* What the buffer of one reader takes.
LEMMA BufferMemory ==
    ASSUME RowsSized(Rows), Base, Batched, DecodedWithinEstimate, output = "External",
           NEW i \in DOMAIN readers
    PROVE  /\ MemoryOf(readers[i].buffer) \in Nat
           /\ MemoryOf(readers[i].buffer) <= BatchBlocks(Len(run_metas)) * (2 * BlockSize)
<1>1. i \in DOMAIN run_metas /\ run_metas \in Seq(Run) /\ RunOnDisk(Rows, disk, run_metas[i])
  BY DEF Base, TypeOK, Merging, RunsStored
<1>2. PICK batch \in Nat \ {0} : batch = BatchBlocks(Len(run_metas))
  <2>1. Len(run_metas) \in Nat \ {0}
    BY <1>1, LenProperties
  <2> QED
    BY <2>1, BatchIsPositive
<1>3. PICK start \in Nat, n \in Nat :
          start = run_metas[i].start_block /\ n = run_metas[i].num_blocks
  BY <1>1 DEF RunOnDisk, Run
<1>4. PICK m \in Nat, t \in Nat : /\ m + t <= n /\ t <= batch
                                  /\ readers[i].buffer = RunRows(disk, start + m, t)
  BY <1>1, <1>2, <1>3 DEF Batched, OneBatch
<1>5. PICK at \in Nat : at = start + m
  OBVIOUS
<1>6. PICK c \in Nat : c = 2 * BlockSize
  BY BlockSizeAssumption
<1>7. Stored(Rows, disk, at, t)
  <2>1. Stored(Rows, disk, start, n)
    BY <1>1, <1>3 DEF RunOnDisk
  <2>2. \A b \in at .. at + t - 1 : b \in start .. start + n - 1
    BY <1>4, <1>5
  <2> QED
    BY <2>1, <2>2 DEF Stored
<1>8. PICK blocks \in Seq(FilledBlocks(Rows)) : blocks = read_blocks(disk, at, t) /\ Len(blocks) = t
  BY <1>7, StoredYields DEF YieldsRows
<1>9. AtMost(blocks, c)
  <2>1. ASSUME NEW j \in 1 .. t PROVE MemoryOf(blocks[j].rows) <= c
    <3>1. blocks[j] = disk.pages[at + j - 1]
      BY <1>8 DEF read_blocks
    <3>2. PICK k \in 1 .. n : k = m + j
      <4>1. m + j \in 1 .. n
        BY <1>4
      <4> QED
        BY <4>1
    <3>3. at + j - 1 = start + k - 1
      BY <1>5, <3>2
    <3>4. RunBlocks(run_metas[i])[k] = disk.pages[start + k - 1]
      BY <1>3 DEF RunBlocks, read_blocks
    <3>5. MemoryOf(RunBlocks(run_metas[i])[k].rows) <= 2 * BlockSize
      BY <1>1, <1>3, Zenon DEF DecodedWithinEstimate
    <3> QED
      BY <1>6, <3>1, <3>3, <3>4, <3>5
  <2>2. DOMAIN blocks = 1 .. t
    BY <1>8, LenProperties
  <2> QED
    BY <2>1, <2>2 DEF AtMost
<1>10. PICK x \in Nat : x = MemoryOf(readers[i].buffer) /\ x <= t * c
  <2>1. MemoryOf(DecodeBlocks(blocks)) \in Nat /\ MemoryOf(DecodeBlocks(blocks)) <= Len(blocks) * c
    BY <1>9, DecodedMemory
  <2>2. readers[i].buffer = DecodeBlocks(blocks)
    BY <1>4, <1>5, <1>8 DEF RunRows
  <2> QED
    BY <1>8, <2>1, <2>2
<1>11. t * c <= batch * c
  BY <1>4
<1>12. x <= batch * c
  <2>1. PICK y \in Nat, z \in Nat : y = t * c /\ z = batch * c
    OBVIOUS
  <2> QED
    BY <1>10, <1>11, <2>1
<1> QED
  BY <1>2, <1>6, <1>10, <1>12

\* The buffers of a merge, for every number of runs: within the budget where
\* the estimate the batch size rests on holds.
THEOREM SortReaderBuffersBounded ==
    ASSUME RowsSized(Rows)
    PROVE  Spec => []ReaderBuffersBounded
<1>1. ASSUME Base, Batched PROVE ReaderBuffersBounded
  <2>1. SUFFICES ASSUME DecodedWithinEstimate
                 PROVE  ReaderBufferBytes <= Max({READER_BUFFER_BUDGET,
                                                  Len(readers) * 2 * BlockSize})
    BY DEF ReaderBuffersBounded
  <2>2. PICK f : f = [i \in DOMAIN readers |-> MemoryOf(readers[i].buffer)]
    OBVIOUS
  <2>3. ReaderBufferBytes = FoldFunction(+, 0, f)
    BY <2>2 DEF ReaderBufferBytes
  <2>x. PICK x : x = ReaderBufferBytes
    OBVIOUS
  <2>4. PICK budget \in Nat : budget = READER_BUFFER_BUDGET
    BY SortAssumption
  <2>5. CASE readers = <<>>
    <3>1. f \in [1 .. 0 -> Nat] /\ \A i \in 1 .. 0 : f[i] <= 0
      BY <2>2, <2>5
    <3>2. FoldFunction(+, 0, f) \in Nat /\ FoldFunction(+, 0, f) <= 0 * 0
      BY <3>1, SumBound
    <3>3. x \in Nat /\ x <= 0 * 0
      BY <2>3, <2>x, <3>2, Zenon
    <3>4. Len(readers) * 2 * BlockSize = 0
      BY <2>5, BlockSizeAssumption
    <3>5. Max({budget, 0}) = IF budget <= 0 THEN 0 ELSE budget
      BY MaxOfTwo
    <3>6. x <= Max({budget, 0})
      BY <3>3, <3>5
    <3> QED
      BY <2>4, <2>x, <3>4, <3>6, Zenon
  <2>6. CASE readers # <<>>
    <3>1. /\ output = "External" /\ run_metas \in Seq(Run)
          /\ readers = [i \in DOMAIN run_metas |-> readers[i]]
      BY <1>1, <2>6 DEF Base, TypeOK, Waiting, InMemory, Merging
    <3>2. PICK n \in Nat : n = Len(run_metas) /\ DOMAIN run_metas = 1 .. n
      BY <3>1, LenProperties
    <3>3. DOMAIN readers = 1 .. n /\ Len(readers) = n /\ n \in Nat \ {0}
      <4>1. readers = [i \in 1 .. n |-> readers[i]]
        BY <3>1, <3>2
      <4>2. DOMAIN readers = 1 .. n /\ Len(readers) = n
        BY <4>1
      <4>3. n # 0
        BY <2>6, <4>1
      <4> QED
        BY <4>2, <4>3
    <3>4. PICK c \in Nat : c = BatchBlocks(n) * (2 * BlockSize)
      <4>1. PICK b \in Nat : b = BatchBlocks(n)
        BY <3>3, BatchIsPositive
      <4>2. b * (2 * BlockSize) \in Nat
        BY BlockSizeAssumption
      <4> QED
        BY <4>1, <4>2
    <3>5. \A i \in 1 .. n : f[i] \in Nat /\ f[i] <= c
      BY <1>1, <2>1, <2>2, <3>1, <3>2, <3>3, <3>4, BufferMemory
    <3>6. f \in [1 .. n -> Nat]
      BY <2>2, <3>3, <3>5
    <3>7. FoldFunction(+, 0, f) \in Nat /\ FoldFunction(+, 0, f) <= n * c
      BY <3>5, <3>6, SumBound
    <3>8. n * c <= Max({budget, n * 2 * BlockSize})
      BY <2>4, <3>3, <3>4, BatchesWithinBudget
    <3>9. PICK d \in Nat : d = n * 2 * BlockSize
      <4>1. n * 2 * BlockSize \in Nat
        BY BlockSizeAssumption
      <4> QED
        BY <4>1
    <3>10. x \in Nat /\ x <= n * c
      BY <2>3, <2>x, <3>7, Zenon
    <3>11. Max({budget, d}) = IF budget <= d THEN d ELSE budget
      BY MaxOfTwo
    <3>12. x <= Max({budget, d})
      <4>1. PICK y \in Nat : y = n * c
        OBVIOUS
      <4>2. y <= Max({budget, d})
        BY <3>8, <3>9, <4>1
      <4> QED
        BY <3>9, <3>10, <3>11, <4>1, <4>2
    <3> QED
      BY <2>4, <2>x, <3>3, <3>9, <3>12, Zenon
  <2> QED
    BY <2>5, <2>6
<1> QED
  BY <1>1, BatchedHolds, PTL
=============================================================================
