------------------------------ MODULE HashJoin -------------------------------
(* The hash join (database/src/executor/hashjoin.rs).  The constructor reads *)
(* the whole right (build) child.  While it stays within a budget it is kept *)
(* as a hash table, and next() streams the left child through it; when it    *)
(* does not, both children are partitioned by the hash of the join key into  *)
(* segments on the disk (a grace join), and next() joins partition after     *)
(* partition.                                                                *)
EXTENDS RowBlocks, AnonDisk

CONSTANTS Rows,                     \* the rows a child may produce
          LeftInputs, RightInputs,  \* and the streams of them it may produce
          INMEM_BUILD_BUDGET, NUM_PARTITIONS, FLUSH_THRESHOLD, READ_BATCH,
          ChildSpills,              \* blocks a child may spill before its first row
          hash_partition(_)         \* partition of a join key

Partitions == 0 .. NUM_PARTITIONS - 1

\* Every row fits in a block, as the assertion of rows_to_blocks demands.
ASSUME HashJoinAssumption ==
    /\ INMEM_BUILD_BUDGET \in Nat \ {0} /\ FLUSH_THRESHOLD \in Nat \ {0}
    /\ NUM_PARTITIONS \in Nat \ {0} /\ READ_BATCH \in Nat \ {0}
    /\ ChildSpills \in SUBSET Nat
    /\ \A row \in Rows : /\ row.len \in Nat /\ row.len <= usable
                         /\ row.mem \in Nat
                         /\ hash_partition(row.key) \in Partitions
    /\ \A stream \in LeftInputs \cup RightInputs :
           /\ stream \in Seq(Rows)
           /\ \A i \in DOMAIN stream : stream[i].id = i

VARIABLES left_input, right_input,  \* the rows the children return, in order
          left_pulled, right_pulled,
          disk,
          phase,            \* "Build", "Repartition", "PartitionLeft", and the
                            \* modes "InMemory" and "Partitioned"
          hash_table,       \* join key -> rows of the right side
          right_bytes,
          bufs,             \* the PartitionBuffers being filled
          left_segs, right_segs,
          cur_part, left_reader,    \* left_reader: OpenReader(..) or NoReader
          current_left, match_idx,
          emitted,          \* the pairs of row ids next() has returned
          ended             \* next() has returned None

inputVars == <<left_input, right_input>>
pulledVars == <<left_pulled, right_pulled>>
segVars == <<left_segs, right_segs>>
probeVars == <<cur_part, left_reader, current_left, match_idx>>
outVars == <<emitted, ended>>
vars == <<inputVars, pulledVars, disk, phase, hash_table, right_bytes, bufs,
          segVars, probeVars, outVars>>

NoRow == [id |-> 0]
NoReader == <<>>
-----------------------------------------------------------------------------
EmptyTable == <<>>

\* hash_table.get(key)
Bucket(table, key) == IF key \in DOMAIN table THEN table[key] ELSE <<>>

\* hash_table.entry(key).or_default().push(row)
TableInsert(table, row) ==
    [key \in DOMAIN table \cup {row.key} |->
        IF key = row.key THEN Append(Bucket(table, key), row) ELSE table[key]]

\* PartitionBuffers.  flush_one and push act on the buffers and on the disk:
\* both are fields of a store.
NewBuffers == [buffers   |-> [p \in Partitions |-> <<>>],
               buf_bytes |-> [p \in Partitions |-> 0],
               segments  |-> [p \in Partitions |-> <<>>]]

flush_one(store, p) ==
    LET blocks == rows_to_blocks(store.bufs.buffers[p])
        segment == [start_block |-> store.disk.next_anon_block, num_blocks |-> Len(blocks)]
    IN  IF store.bufs.buffers[p] = <<>> THEN store
        ELSE [disk |-> Spill(store.disk, blocks),
              bufs |-> [buffers   |-> [store.bufs.buffers EXCEPT ![p] = <<>>],
                        buf_bytes |-> [store.bufs.buf_bytes EXCEPT ![p] = 0],
                        segments  |-> [store.bufs.segments EXCEPT ![p] = Append(@, segment)]]]

\* Variants of push: one that flushes the buffer and forgets the row that
\* filled it, and one that lets the buffer reach the threshold.
PushForgetsRow(store, row) ==
    LET p == hash_partition(row.key)
    IN  IF store.bufs.buf_bytes[p] + row.mem >= FLUSH_THRESHOLD THEN flush_one(store, p)
        ELSE [store EXCEPT !.bufs.buffers[p] = Append(@, row),
                           !.bufs.buf_bytes[p] = @ + row.mem]

PushOverThreshold(store, row) ==
    LET p == hash_partition(row.key)
        pushed == [store EXCEPT !.bufs.buffers[p] = Append(@, row),
                                !.bufs.buf_bytes[p] = @ + row.mem]
    IN  IF pushed.bufs.buf_bytes[p] > FLUSH_THRESHOLD THEN flush_one(pushed, p)
                                                      ELSE pushed

push(store, row) ==
    LET p == hash_partition(row.key)
        pushed == [store EXCEPT !.bufs.buffers[p] = Append(@, row),
                                !.bufs.buf_bytes[p] = @ + row.mem]
    IN  IF pushed.bufs.buf_bytes[p] >= FLUSH_THRESHOLD THEN flush_one(pushed, p)
                                                       ELSE pushed

\* A variant that leaves the last partition in memory.
FinishButLast(store) ==
    FoldLeft(flush_one, store, [i \in 1 .. NUM_PARTITIONS - 1 |-> i - 1])

finish(store) ==
    FoldLeft(flush_one, store, [i \in 1 .. NUM_PARTITIONS |-> i - 1])

Store == [disk |-> disk, bufs |-> bufs]

StoreBecomes(store) == disk' = store.disk /\ bufs' = store.bufs
-----------------------------------------------------------------------------
(* PartitionReader.  `requests` are the reads it has still to make: every    *)
(* segment in turn, READ_BATCH blocks at a time.                             *)
SegmentRequests(segment) ==
    [j \in 1 .. (segment.num_blocks + READ_BATCH - 1) \div READ_BATCH |->
        LET done == (j - 1) * READ_BATCH
        IN  [start |-> segment.start_block + done,
             count |-> Min({READ_BATCH, segment.num_blocks - done})]]

Requests(segments) ==
    FlattenSeq([i \in DOMAIN segments |-> SegmentRequests(segments[i])])

Answer(request) == DecodeBlocks(read_blocks(disk, request.start, request.count))

\* load_next_batch: the first request that yields rows, if one does.
load_next_batch(reader) ==
    LET Yielding == {i \in DOMAIN reader.requests : Answer(reader.requests[i]) # <<>>}
    IN  IF Yielding = {}
        THEN [requests |-> <<>>, buffer |-> <<>>, buf_idx |-> 0]
        ELSE [requests |-> SubSeq(reader.requests, Min(Yielding) + 1, Len(reader.requests)),
              buffer |-> Answer(reader.requests[Min(Yielding)]), buf_idx |-> 0]

NewReader(segments) ==
    load_next_batch([requests |-> Requests(segments), buffer |-> <<>>, buf_idx |-> 0])

HasRow(reader) == reader.buf_idx < Len(reader.buffer)

\* next_row, the reader after it: the next batch is fetched with the last row.
advance(reader) ==
    IF reader.buf_idx + 1 < Len(reader.buffer)
    THEN [reader EXCEPT !.buf_idx = @ + 1] ELSE load_next_batch(reader)

\* What a fresh reader returns until it is exhausted.
SegmentRows(segments) ==
    FlattenSeq([i \in DOMAIN Requests(segments) |-> Answer(Requests(segments)[i])])
-----------------------------------------------------------------------------
Init == /\ left_input \in LeftInputs /\ right_input \in RightInputs
        /\ left_pulled = 0 /\ right_pulled = 0
        /\ disk = NewDisk
        /\ phase = "Build"
        /\ hash_table = EmptyTable /\ right_bytes = 0
        /\ bufs = NewBuffers
        /\ left_segs = NewBuffers.segments /\ right_segs = NewBuffers.segments
        /\ cur_part = 0 /\ left_reader = NoReader
        /\ current_left = NoRow /\ match_idx = 0
        /\ emitted = <<>> /\ ended = FALSE

\* The first next() of a child may spill blocks of the child's own (once: the
\* last block allocated is not yet one of them).
ChildSpill ==
    /\ \/ phase = "Build" /\ right_pulled = 0 /\ disk = NewDisk
       \/ /\ phase = "PartitionLeft" /\ left_pulled = 0
          /\ disk.pages[disk.next_anon_block - 1] # EmptyBlock
    /\ \E n \in ChildSpills : disk' = Spill(disk, [i \in 1 .. n |-> EmptyBlock])
    /\ UNCHANGED <<inputVars, pulledVars, phase, hash_table, right_bytes, bufs,
                   segVars, probeVars, outVars>>

\* Phase 1 of the constructor: one row of the right child enters the table.
\* Reaching the budget breaks the loop.
Build ==
    /\ phase = "Build" /\ right_pulled < Len(right_input)
    /\ LET row == right_input[right_pulled + 1]
       IN  /\ right_bytes' = right_bytes + row.mem
           /\ hash_table' = TableInsert(hash_table, row)
    /\ right_pulled' = right_pulled + 1
    /\ phase' = IF right_bytes' >= INMEM_BUILD_BUDGET THEN "Repartition" ELSE "Build"
    /\ UNCHANGED <<inputVars, left_pulled, disk, bufs, segVars, probeVars, outVars>>

BuiltInMemory ==
    /\ phase = "Build" /\ right_pulled = Len(right_input)
    /\ phase' = "InMemory"
    /\ UNCHANGED <<inputVars, pulledVars, disk, hash_table, right_bytes, bufs, segVars,
                   probeVars, outVars>>

\* Phase 2: hash_table.drain() hands out the entries in an arbitrary order.
RepartitionEntry ==
    /\ phase = "Repartition"
    /\ \E key \in DOMAIN hash_table :
           /\ StoreBecomes(FoldLeft(push, Store, hash_table[key]))
           /\ hash_table' = [k \in DOMAIN hash_table \ {key} |-> hash_table[k]]
    /\ UNCHANGED <<inputVars, pulledVars, phase, right_bytes, segVars, probeVars, outVars>>

PartitionRight ==
    /\ phase = "Repartition" /\ DOMAIN hash_table = {}
    /\ right_pulled < Len(right_input)
    /\ StoreBecomes(push(Store, right_input[right_pulled + 1]))
    /\ right_pulled' = right_pulled + 1
    /\ UNCHANGED <<inputVars, left_pulled, phase, hash_table, right_bytes, segVars,
                   probeVars, outVars>>

FinishRight ==
    /\ phase = "Repartition" /\ DOMAIN hash_table = {}
    /\ right_pulled = Len(right_input)
    /\ LET done == finish(Store)
       IN  disk' = done.disk /\ right_segs' = done.bufs.segments
    /\ bufs' = NewBuffers
    /\ phase' = "PartitionLeft"
    /\ UNCHANGED <<inputVars, pulledVars, hash_table, right_bytes, left_segs, probeVars,
                   outVars>>

PartitionLeft ==
    /\ phase = "PartitionLeft" /\ left_pulled < Len(left_input)
    /\ StoreBecomes(push(Store, left_input[left_pulled + 1]))
    /\ left_pulled' = left_pulled + 1
    /\ UNCHANGED <<inputVars, right_pulled, phase, hash_table, right_bytes, segVars,
                   probeVars, outVars>>

FinishLeft ==
    /\ phase = "PartitionLeft" /\ left_pulled = Len(left_input)
    /\ LET done == finish(Store)
       IN  disk' = done.disk /\ left_segs' = done.bufs.segments
    /\ bufs' = NewBuffers
    /\ phase' = "Partitioned"
    /\ UNCHANGED <<inputVars, pulledVars, hash_table, right_bytes, right_segs, probeVars,
                   outVars>>
-----------------------------------------------------------------------------
(* The loop of next().                                                       *)
Probing == phase \in {"InMemory", "Partitioned"} /\ ~ended

Matches ==
    IF current_left = NoRow THEN <<>> ELSE Bucket(hash_table, current_left.key)

ReturnMatch ==
    /\ Probing /\ match_idx < Len(Matches)
    /\ emitted' = Append(emitted, <<current_left.id, Matches[match_idx + 1].id>>)
    /\ match_idx' = match_idx + 1
    /\ UNCHANGED <<inputVars, pulledVars, disk, phase, hash_table, right_bytes, bufs,
                   segVars, cur_part, left_reader, current_left, ended>>

NeedsLeft == Probing /\ match_idx >= Len(Matches)

\* In memory: left.next() returns a row, or None.
StreamLeft ==
    /\ NeedsLeft /\ phase = "InMemory"
    /\ match_idx' = 0
    /\ IF left_pulled < Len(left_input)
       THEN /\ left_pulled' = left_pulled + 1
            /\ current_left' = left_input[left_pulled + 1]
            /\ UNCHANGED ended
       ELSE /\ current_left' = NoRow
            /\ ended' = TRUE
            /\ UNCHANGED left_pulled
    /\ UNCHANGED <<inputVars, right_pulled, disk, phase, hash_table, right_bytes, bufs,
                   segVars, cur_part, left_reader, emitted>>

\* A variant that does not clear the table of the partition before.
KeptTable(p) == FoldLeft(TableInsert, hash_table, SegmentRows(right_segs[p]))

PartitionTable(p) == FoldLeft(TableInsert, EmptyTable, SegmentRows(right_segs[p]))

\* Load the right side of the next partition and open a reader on its left.
OpenPartition ==
    /\ NeedsLeft /\ phase = "Partitioned"
    /\ left_reader = NoReader /\ cur_part < NUM_PARTITIONS
    /\ hash_table' = PartitionTable(cur_part)
    /\ left_reader' = <<NewReader(left_segs[cur_part])>>
    /\ current_left' = NoRow /\ match_idx' = 0
    /\ UNCHANGED <<inputVars, pulledVars, disk, phase, right_bytes, bufs, segVars,
                   cur_part, outVars>>

ProbePartition ==
    /\ NeedsLeft /\ left_reader # NoReader /\ HasRow(left_reader[1])
    /\ current_left' = left_reader[1].buffer[left_reader[1].buf_idx + 1]
    /\ match_idx' = 0
    /\ left_reader' = <<advance(left_reader[1])>>
    /\ UNCHANGED <<inputVars, pulledVars, disk, phase, hash_table, right_bytes, bufs,
                   segVars, cur_part, outVars>>

\* A variant that stays with the partition it has finished.
ClosePartitionInPlace ==
    /\ NeedsLeft /\ left_reader # NoReader /\ ~HasRow(left_reader[1])
    /\ current_left' = NoRow
    /\ left_reader' = NoReader
    /\ UNCHANGED <<inputVars, pulledVars, disk, phase, hash_table, right_bytes, bufs,
                   segVars, cur_part, match_idx, outVars>>

ClosePartition ==
    /\ NeedsLeft /\ left_reader # NoReader /\ ~HasRow(left_reader[1])
    /\ current_left' = NoRow
    /\ left_reader' = NoReader
    /\ cur_part' = cur_part + 1
    /\ UNCHANGED <<inputVars, pulledVars, disk, phase, hash_table, right_bytes, bufs,
                   segVars, match_idx, outVars>>

EndOfPartitions ==
    /\ NeedsLeft /\ phase = "Partitioned"
    /\ left_reader = NoReader /\ cur_part = NUM_PARTITIONS
    /\ ended' = TRUE
    /\ UNCHANGED <<inputVars, pulledVars, disk, phase, hash_table, right_bytes, bufs,
                   segVars, probeVars, emitted>>

Stopped == ended /\ UNCHANGED vars

Next == \/ ChildSpill \/ Build \/ BuiltInMemory
        \/ RepartitionEntry \/ PartitionRight \/ FinishRight
        \/ PartitionLeft \/ FinishLeft
        \/ ReturnMatch \/ StreamLeft
        \/ OpenPartition \/ ProbePartition \/ ClosePartition \/ EndOfPartitions
        \/ Stopped

\* The constructor is a sequence of loops of one thread, and the caller calls
\* next() until it returns None.
Spec == Init /\ [][Next]_vars /\ WF_vars(Next)
-----------------------------------------------------------------------------
TableRows == UNION {ToSet(hash_table[k]) : k \in DOMAIN hash_table}

TableMemory == FoldFunction(LAMBDA rows, sum : MemoryOf(rows) + sum, 0, hash_table)

\* Every one of the rows is in its own partition of a side, on the disk or in
\* the buffer of the partition, exactly once.
PartitionedExactly(segs, buffers, rows) ==
    \A p \in Partitions :
        LET held == SegmentRows(segs[p]) \o buffers[p]
        IN  /\ ToSet(held) = {r \in rows : hash_partition(r.key) = p}
            /\ IsInjective(held)

\* No row is lost, duplicated or misplaced while the sides are partitioned: the
\* rows pulled from a child are in the table or in the partition of their key.
RowsConserved ==
    LET right == ToSet(SubSeq(right_input, 1, right_pulled))
        left == ToSet(SubSeq(left_input, 1, left_pulled))
        filling == bufs.buffers
        flushed == NewBuffers.buffers
    IN  /\ phase \in {"Build", "InMemory"} => TableRows = right
        /\ phase = "Repartition" =>
               PartitionedExactly(bufs.segments, filling, right \ TableRows)
        /\ phase \in {"PartitionLeft", "Partitioned"} =>
               PartitionedExactly(right_segs, flushed, right)
        /\ phase = "PartitionLeft" => PartitionedExactly(bufs.segments, filling, left)
        /\ phase = "Partitioned" => PartitionedExactly(left_segs, flushed, left)

\* The table a left row is probed against holds every right row with its key:
\* never the table of another partition, nor one that keeps old rows.
TableMatchesProbe ==
    /\ current_left # NoRow =>
           ToSet(Matches) = {r \in ToSet(right_input) : r.key = current_left.key}
    /\ left_reader # NoReader =>
           TableRows = {r \in ToSet(right_input) : hash_partition(r.key) = cur_part}

\* The memory the operator budgets for: the in-memory table stays below
\* INMEM_BUILD_BUDGET, and no partition buffer reaches FLUSH_THRESHOLD.
MemoryWithinBudget ==
    /\ phase \in {"Build", "InMemory"} =>
           TableMemory = right_bytes /\ TableMemory < INMEM_BUILD_BUDGET
    /\ \A p \in Partitions :
           /\ bufs.buf_bytes[p] = MemoryOf(bufs.buffers[p])
           /\ MemoryOf(bufs.buffers[p]) < FLUSH_THRESHOLD

KeysMatch == {pair \in (DOMAIN left_input) \X (DOMAIN right_input) :
                  left_input[pair[1]].key = right_input[pair[2]].key}

\* The result is every pair of rows with equal keys, each once, in no
\* particular order, and then None.
Stream == INSTANCE ResultStream
    WITH Results <- (Nat \ {0}) \X (Nat \ {0}),
         Precedes <- LAMBDA p, q : FALSE,
         owed <- KeysMatch \ ToSet(emitted)

ImplementsResultStream == Stream!Spec /\ Stream!Ends

=============================================================================
