----------------------------- MODULE SortOperator ----------------------------
(* The external merge sort (database/src/executor/sort.rs).  The first call  *)
(* of next() runs initialize(): it pulls every row of the child, flushes a   *)
(* sorted run to the anonymous region whenever the buffered rows reach       *)
(* RUN_BUDGET_BYTES, and then either keeps the rest in memory or opens one   *)
(* reader per run; the calls after it return the sorted rows one by one.     *)
EXTENDS RowBlocks, AnonDisk

CONSTANTS Rows,                     \* the rows a child may produce
          Inputs,                   \* and the streams of them it may produce
          RUN_BUDGET_BYTES, READER_BUFFER_BUDGET,
          MAX_BATCH_BLOCKS,         \* 64 in the code
          ChildSpills,              \* blocks the child may spill before its first row
          RowLess(_, _),            \* compare_by_specs(a, b) = Less
          SortKey(_),               \* encode_sort_key
          KeyLess(_, _)             \* the order of the byte keys

ASSUME SortAssumption ==
    /\ RUN_BUDGET_BYTES \in Nat \ {0}
    /\ READER_BUFFER_BUDGET \in Nat
    /\ MAX_BATCH_BLOCKS \in Nat \ {0}
    /\ ChildSpills \in SUBSET Nat
    /\ \A row \in Rows : row.len \in Nat /\ row.mem \in Nat
    /\ \A stream \in Inputs : /\ stream \in Seq(Rows)
                              /\ \A i \in DOMAIN stream : stream[i].id = i

VARIABLES input,        \* the rows the child returns, in order
          pulled,       \* how many of them initialize() has taken
          disk,         \* the anonymous region
          buf,          \* rows buffered; in the InMemory output, its `rows`
          buf_bytes, run_metas,
          output,       \* the SortOutput variant, or "Panicked"
          idx,          \* next row of the InMemory output
          readers, heap,
          emitted,      \* the rows next() has returned
          ended         \* next() has returned None

vars == <<input, pulled, disk, buf, buf_bytes, run_metas, output, idx,
          readers, heap, emitted, ended>>

inputVars == <<input, pulled>>
bufVars == <<buf, buf_bytes>>
mergeVars == <<readers, heap>>
outVars == <<emitted, ended>>
-----------------------------------------------------------------------------
\* A variant that flushes the rows as they came.
UnsortedRun(rows) == {rows}

\* slice::sort_by is stable: the only order of rows it can produce.
StableSorts(rows) ==
    LET Before(i, j) == RowLess(rows[i], rows[j])
                        \/ (~RowLess(rows[j], rows[i]) /\ i < j)
        Orders == {p \in Bijection(DOMAIN rows, DOMAIN rows) :
                      \A i, j \in DOMAIN rows : i < j => Before(p[i], p[j])}
    IN  {[i \in DOMAIN rows |-> rows[p[i]]] : p \in Orders}

\* flush_run: sort, pack, allocate and write.
flush_run(rows) ==
    \E sorted \in StableSorts(rows) :
        LET blocks == rows_to_blocks(sorted)
        IN  /\ disk' = Spill(disk, blocks)
            /\ run_metas' = Append(run_metas, [start_block |-> disk.next_anon_block,
                                               num_blocks  |-> Len(blocks)])
-----------------------------------------------------------------------------
(* RunReader.                                                                *)
peek(reader) == reader.buffer[reader.buf_idx + 1]

is_empty(reader) == reader.buf_idx >= Len(reader.buffer)

\* load_next_batch: read whole batches until one yields rows or the run ends.
load_next_batch(store, reader) ==
    LET Batch(from) ==
            LET to_read == Min({reader.total_blocks - from, reader.batch_blocks})
            IN  DecodeBlocks(read_blocks(store, reader.start_block + from, to_read))
        Starts == {from \in reader.blocks_read .. reader.total_blocks - 1 :
                      (from - reader.blocks_read) % reader.batch_blocks = 0}
        Yielding == {from \in Starts : Batch(from) # <<>>}
    IN  IF Yielding = {}
        THEN [reader EXCEPT !.buffer = <<>>, !.buf_idx = 0,
                            !.blocks_read = reader.total_blocks]
        ELSE [reader EXCEPT !.buffer = Batch(Min(Yielding)), !.buf_idx = 0,
                            !.blocks_read = Min({reader.total_blocks,
                                                 Min(Yielding) + reader.batch_blocks})]

NewReader(store, meta, batch_blocks) ==
    load_next_batch(store, [start_block |-> meta.start_block,
                            total_blocks |-> meta.num_blocks,
                            blocks_read |-> 0, buffer |-> <<>>, buf_idx |-> 0,
                            batch_blocks |-> batch_blocks])

\* Variants of advance: one that asks for the next batch too early, and one
\* that never does.
AdvanceDropsBatch(store, reader) == load_next_batch(store, reader)
AdvanceWithinBatch(store, reader) == [reader EXCEPT !.buf_idx = @ + 1]

advance(store, reader) ==
    LET moved == [reader EXCEPT !.buf_idx = @ + 1]
    IN  IF is_empty(moved) THEN load_next_batch(store, moved) ELSE moved

\* A variant that gives every reader the whole budget.
BatchBlocksPerRun(num_runs) ==
    Min({MAX_BATCH_BLOCKS, Max({1, READER_BUFFER_BUDGET \div (2 * BlockSize)})})

\* The batch every reader gets, so that together they stay within the budget
\* if a decoded block takes at most twice its size in memory.
BatchBlocks(num_runs) ==
    Min({MAX_BATCH_BLOCKS,
         Max({1, READER_BUFFER_BUDGET \div (num_runs * 2 * BlockSize)})})

\* A variant that ranks a reader by the first row of its batch.
PushFirstRow(reader, i) ==
    IF is_empty(reader) THEN {}
    ELSE {[key |-> SortKey(reader.buffer[1]), run_idx |-> i]}

\* push_next: the heap entry of a reader, if it has a row.
push_next(reader, i) ==
    IF is_empty(reader) THEN {} ELSE {[key |-> SortKey(peek(reader)), run_idx |-> i]}
-----------------------------------------------------------------------------
Init == /\ input \in Inputs
        /\ pulled = 0
        /\ disk = NewDisk
        /\ buf = <<>> /\ buf_bytes = 0 /\ run_metas = <<>>
        /\ output = "Pending" /\ idx = 0
        /\ readers = <<>> /\ heap = {}
        /\ emitted = <<>> /\ ended = FALSE

\* The child's first next() may spill blocks of its own (a Cross or a Sort
\* below this one does) before it returns a row.
ChildSpill ==
    /\ output = "Pending" /\ pulled = 0 /\ disk = NewDisk
    /\ \E n \in ChildSpills : disk' = Spill(disk, [i \in 1 .. n |-> EmptyBlock])
    /\ UNCHANGED <<bufVars, inputVars, run_metas, output, idx, mergeVars, outVars>>

\* A variant that lets the buffer reach the budget.
RunIsOverfull(bytes) == bytes > RUN_BUDGET_BYTES

RunIsFull(bytes) == bytes >= RUN_BUDGET_BYTES

\* One iteration of the pull loop of initialize().
Pull ==
    /\ output = "Pending" /\ pulled < Len(input)
    /\ pulled' = pulled + 1
    /\ LET row == input[pulled + 1]
           filled == Append(buf, row)
           bytes == buf_bytes + row.mem
       IN  \/ /\ ~RunIsFull(bytes)
              /\ buf' = filled /\ buf_bytes' = bytes
              /\ UNCHANGED <<disk, run_metas, output>>
           \/ /\ RunIsFull(bytes) /\ Packable(filled)
              /\ flush_run(filled)
              /\ buf' = <<>> /\ buf_bytes' = 0
              /\ UNCHANGED output
           \/ /\ RunIsFull(bytes) /\ ~Packable(filled)
              /\ output' = "Panicked"
              /\ UNCHANGED <<bufVars, disk, run_metas>>
    /\ UNCHANGED <<input, idx, mergeVars, outVars>>

\* The child has returned None and no run was flushed: sort what is buffered.
KeepInMemory ==
    /\ output = "Pending" /\ pulled = Len(input) /\ run_metas = <<>>
    /\ buf' \in StableSorts(buf)
    /\ output' = "InMemory"
    /\ UNCHANGED <<inputVars, disk, buf_bytes, run_metas, idx, mergeVars, outVars>>

\* The child has returned None and runs are on disk: flush the rest as the
\* last run, open a reader on each, and push the first row of each.
StartMerge ==
    /\ output = "Pending" /\ pulled = Len(input) /\ run_metas # <<>>
    /\ \/ /\ buf = <<>>
          /\ UNCHANGED <<disk, run_metas>>
       \/ /\ buf # <<>> /\ Packable(buf)
          /\ flush_run(buf)
    /\ buf' = <<>> /\ buf_bytes' = 0
    /\ readers' = [i \in DOMAIN run_metas' |->
                      NewReader(disk', run_metas'[i], BatchBlocks(Len(run_metas')))]
    /\ heap' = UNION {push_next(readers'[i], i) : i \in DOMAIN readers'}
    /\ output' = "External"
    /\ UNCHANGED <<inputVars, idx, outVars>>

\* The assertion of rows_to_blocks fails on the last run.
PanicOnLastRun ==
    /\ output = "Pending" /\ pulled = Len(input) /\ run_metas # <<>>
    /\ ~Packable(buf)
    /\ output' = "Panicked"
    /\ UNCHANGED <<inputVars, disk, bufVars, run_metas, idx, mergeVars, outVars>>

NextInMemory ==
    /\ output = "InMemory" /\ ~ended
    /\ IF idx < Len(buf)
       THEN /\ emitted' = Append(emitted, buf[idx + 1])
            /\ UNCHANGED ended
       ELSE /\ ended' = TRUE
            /\ UNCHANGED emitted
    /\ idx' = idx + 1
    /\ UNCHANGED <<inputVars, disk, bufVars, run_metas, output, mergeVars>>

\* ExternalMerge::next_row.  The heap orders entries by key only, so any of
\* the entries with the least key may be popped.
NextExternal ==
    /\ output = "External" /\ ~ended
    /\ \E entry \in heap :
        /\ \A other \in heap : ~KeyLess(other.key, entry.key)
        /\ LET i == entry.run_idx
           IN  /\ emitted' = Append(emitted, peek(readers[i]))
               /\ readers' = [readers EXCEPT ![i] = advance(disk, @)]
               /\ heap' = (heap \ {entry}) \cup push_next(readers'[i], i)
    /\ UNCHANGED <<inputVars, disk, bufVars, run_metas, output, idx, ended>>

EndExternal ==
    /\ output = "External" /\ ~ended /\ heap = {}
    /\ ended' = TRUE
    /\ UNCHANGED <<inputVars, disk, bufVars, run_metas, output, idx, mergeVars, emitted>>

\* The caller does not call next() again after None, or after a panic.
Stopped == (ended \/ output = "Panicked") /\ UNCHANGED vars

Next == \/ ChildSpill \/ Pull \/ KeepInMemory \/ StartMerge \/ PanicOnLastRun
        \/ NextInMemory \/ NextExternal \/ EndExternal \/ Stopped

\* db_main calls next() until it returns None, and initialize() is a loop of
\* one thread: a step that can be taken is taken.
Spec == Init /\ [][Next]_vars /\ WF_vars(Next)
-----------------------------------------------------------------------------
RowsOf(stream) == ToSet(stream)

RunBlocks(run) == read_blocks(disk, run.start_block, run.num_blocks)

\* The rows a reader has still to hand out: buffered, then on disk.
Unread(reader) ==
    SubSeq(reader.buffer, reader.buf_idx + 1, Len(reader.buffer))
    \o DecodeBlocks(read_blocks(disk, reader.start_block + reader.blocks_read,
                                reader.total_blocks - reader.blocks_read))

\* Every row the operator holds, wherever it keeps it.
Held ==
    CASE output = "InMemory" -> SubSeq(buf, idx + 1, Len(buf))
      [] output = "External" -> FlattenSeq([i \in DOMAIN readers |-> Unread(readers[i])])
      [] OTHER -> buf \o FlattenSeq([i \in DOMAIN run_metas |->
                                        DecodeBlocks(RunBlocks(run_metas[i]))])

\* No row is lost or duplicated on its way through buffer, runs, readers and
\* output: at every step the rows pulled are the rows held and those emitted.
RowsConserved ==
    output # "Panicked" =>
        LET all == emitted \o Held
        IN  /\ Len(all) = pulled
            /\ RowsOf(all) = RowsOf(SubSeq(input, 1, pulled))

\* The heap holds exactly the head of every reader that has one, under the key
\* of that head: the unwrap in next_row never fails and pops the row it ranked.
\* A reader stays within its run, and every block of a run was written.
HeapMirrorsReaders ==
    output = "External" =>
        /\ \A i \in DOMAIN run_metas :
               Readable(disk, run_metas[i].start_block, run_metas[i].num_blocks)
        /\ \A i \in DOMAIN readers : readers[i].blocks_read <= run_metas[i].num_blocks
        /\ heap = {[key |-> SortKey(peek(readers[i])), run_idx |-> i] :
                       i \in {r \in DOMAIN readers : ~is_empty(readers[r])}}

\* The head of a reader precedes whatever that reader still has to return, and
\* nothing still held should have come before a row already returned.
MergeStaysOrdered ==
    /\ \A i \in DOMAIN readers :
           LET rest == Unread(readers[i])
           IN  \A j, k \in DOMAIN rest : j < k => ~RowLess(rest[k], rest[j])
    /\ output \in {"InMemory", "External"} =>
           \A row \in RowsOf(emitted), other \in RowsOf(Held) : ~RowLess(other, row)

\* buf_bytes, the running total compared with RUN_BUDGET_BYTES, is the size of
\* what is buffered, and no more than the budget is ever kept in memory.
BufferWithinBudget ==
    output \in {"Pending", "InMemory"} =>
        /\ MemoryOf(buf) = buf_bytes
        /\ MemoryOf(buf) < RUN_BUDGET_BYTES

ReaderBufferBytes ==
    FoldFunction(+, 0, [i \in DOMAIN readers |-> MemoryOf(readers[i].buffer)])

\* "Assume decoded in-memory bytes per block <= 2 x block_size" (sort.rs:91).
DecodedWithinEstimate ==
    \A i \in DOMAIN run_metas : \A j \in 1 .. run_metas[i].num_blocks :
        MemoryOf(RunBlocks(run_metas[i])[j].rows) <= 2 * BlockSize

\* Where the assumption on decoded blocks holds, the reader buffers together
\* stay within their budget, or within one block per run if that is more.  With
\* many runs it is more, and the code accepts it.
ReaderBuffersBounded ==
    DecodedWithinEstimate =>
        ReaderBufferBytes <= Max({READER_BUFFER_BUDGET,
                                  Len(readers) * 2 * BlockSize})

\* A block, once written, keeps its contents: no run overwrites another run or
\* the blocks of the child.
BlocksWrittenOnce ==
    [][\A b \in DOMAIN disk.pages :
          b \in DOMAIN disk'.pages /\ disk'.pages[b] = disk.pages[b]]_vars

\* The operator keeps the promise of a result stream: the rows of its child,
\* each once, in the order of the sort specs, and only then None.
Stream == INSTANCE ResultStream
    WITH Results <- Rows,
         Precedes <- RowLess,
         owed <- RowsOf(input) \ RowsOf(emitted)

ImplementsResultStream == Stream!Spec

\* A caller that keeps calling next() gets None in the end, unless the process
\* panics because a row does not fit in a block.
EventuallyEnds ==
    <>(ended \/ \E i \in DOMAIN input : input[i].len > usable)
=============================================================================
