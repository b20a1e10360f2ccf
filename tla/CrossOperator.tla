---------------------------- MODULE CrossOperator ----------------------------
(* The cross product (database/src/executor/cross.rs).  The first call of    *)
(* next() spills every row of the right child to the anonymous region and,   *)
(* when the spilled side is small, reads it back into a cache; every row of  *)
(* the left child is then paired with the right rows, from the cache or,     *)
(* block by block, from the disk.  Nothing but the start of the first batch  *)
(* and the number of blocks is remembered of the spill: the operator relies  *)
(* on its batches being adjacent on the disk.                                *)
EXTENDS RowBlocks, AnonDisk

CONSTANTS LeftInputs, RightInputs,  \* the row streams the children may produce
          RIGHT_CACHE_BYTES,
          BATCH_BLOCKS,             \* blocks per write of the spill, 64 in the code
          ChildSpills               \* blocks a child may spill before its first row

ASSUME CrossAssumption ==
    /\ RIGHT_CACHE_BYTES \in Nat /\ BATCH_BLOCKS \in Nat \ {0}
    /\ ChildSpills \in SUBSET Nat
    /\ \A stream \in LeftInputs \cup RightInputs :
           /\ stream \in Seq([id : Nat, len : Nat])
           /\ \A i \in DOMAIN stream : stream[i].id = i

VARIABLES left_input, right_input,  \* the rows the children return, in order
          left_pulled, right_pulled,
          disk,
          phase,                    \* "New", "Initialised" or "Panicked"
          current_block, write_buf, total_blocks,    \* locals of spill_right
          right_start_block,
          right_cache,              \* Cached(rows) or NoCache
          right_cache_idx,
          right_block_idx, right_buf, right_row_idx, \* used without a cache
          current_left,             \* the left row being paired, or NoRow
          emitted,                  \* the pairs of row ids next() has returned
          ended                     \* next() has returned None

inputVars == <<left_input, right_input>>
spillVars == <<current_block, write_buf, total_blocks, right_start_block>>
cursorVars == <<right_cache_idx, right_block_idx, right_buf, right_row_idx>>
outVars == <<emitted, ended>>
vars == <<inputVars, left_pulled, right_pulled, disk, phase, spillVars,
          right_cache, cursorVars, current_left, outVars>>

NoRow == [id |-> 0, len |-> 0]
\* Option<Vec<Row>>: a sequence of at most one cache.
NoCache == <<>>
Cached(rows) == <<rows>>
CacheRows == right_cache[1]
-----------------------------------------------------------------------------
Init == /\ left_input \in LeftInputs /\ right_input \in RightInputs
        /\ left_pulled = 0 /\ right_pulled = 0
        /\ disk = NewDisk
        /\ phase = "New"
        /\ current_block = EmptyBlock /\ write_buf = <<>> /\ total_blocks = 0
        /\ right_start_block = 0
        /\ right_cache = NoCache /\ right_cache_idx = 0
        /\ right_block_idx = 0 /\ right_buf = <<>> /\ right_row_idx = 0
        /\ current_left = NoRow
        /\ emitted = <<>> /\ ended = FALSE

\* The first next() of a child may spill blocks of the child's own before it
\* returns a row (when the child is, or is built on, a Sort or a Cross).
ChildSpill ==
    /\ \/ phase = "New" /\ right_pulled = 0 /\ disk = NewDisk
       \/ phase = "Initialised" /\ left_pulled = 0 /\ ~ended
          /\ disk.next_anon_block = right_start_block + total_blocks
    /\ \E n \in ChildSpills : disk' = Spill(disk, [i \in 1 .. n |-> EmptyBlock])
    /\ UNCHANGED <<inputVars, left_pulled, right_pulled, phase, spillVars,
                   right_cache, cursorVars, current_left, outVars>>

\* A variant that counts the batches instead of their blocks.
FlushBatchCountsBatches(blocks) ==
    /\ disk' = Spill(disk, blocks)
    /\ right_start_block' = IF total_blocks = 0 THEN disk.next_anon_block
                                                ELSE right_start_block
    /\ total_blocks' = total_blocks + 1
    /\ write_buf' = <<>>

\* flush_batch: write the finished blocks where the allocator puts them, and
\* remember the start of the first batch only.
flush_batch(blocks) ==
    /\ disk' = Spill(disk, blocks)
    /\ right_start_block' = IF total_blocks = 0 THEN disk.next_anon_block
                                                ELSE right_start_block
    /\ total_blocks' = total_blocks + Len(blocks)
    /\ write_buf' = <<>>

BatchFull(blocks) == Len(blocks) >= BATCH_BLOCKS

\* One iteration of the loop of spill_right.  Unlike rows_to_blocks it does
\* not check that the row fits: only a row longer than the block panics.
SpillRow ==
    /\ phase = "New" /\ right_pulled < Len(right_input)
    /\ right_pulled' = right_pulled + 1
    /\ LET row == right_input[right_pulled + 1]
           closes == offset(current_block) + row.len > usable
           finished == IF closes THEN Append(write_buf, current_block) ELSE write_buf
       IN  /\ IF closes /\ BatchFull(finished)
              THEN flush_batch(finished)
              ELSE /\ write_buf' = finished
                   /\ UNCHANGED <<disk, right_start_block, total_blocks>>
           /\ IF row.len > BlockSize
              THEN phase' = "Panicked" /\ UNCHANGED current_block
              ELSE /\ current_block' =
                          AddRow(IF closes THEN EmptyBlock ELSE current_block, row)
                   /\ UNCHANGED phase
    /\ UNCHANGED <<inputVars, left_pulled, right_cache, cursorVars, current_left,
                   outVars>>

RightBlock(store, start, i) == decode_block(read_blocks(store, start + i, 1)[1])

\* A variant that reads back full batches only.
TryCacheFullBatches(store, start, count) ==
    IF count * BlockSize * 2 > RIGHT_CACHE_BYTES THEN NoCache
    ELSE Cached(DecodeBlocks(read_blocks(store, start, count - (count % BATCH_BLOCKS))))

\* try_cache_right: read the spill back in batches, if it is small enough.
TryCache(store, start, count) ==
    LET Batch(from, to_read) == DecodeBlocks(read_blocks(store, start + from, to_read))
        cache[remaining \in 0 .. count] ==
            IF remaining = 0 THEN <<>>
            ELSE LET to_read == IF remaining < BATCH_BLOCKS THEN remaining
                                                            ELSE BATCH_BLOCKS
                 IN  Batch(count - remaining, to_read) \o cache[remaining - to_read]
    IN  IF count * BlockSize * 2 > RIGHT_CACHE_BYTES THEN NoCache
        ELSE Cached(cache[count])

\* The right child has returned None: write the last block, and read the
\* spilled side back, whole or its first block.
FinishSpill ==
    /\ phase = "New" /\ right_pulled = Len(right_input)
    /\ flush_batch(Append(write_buf, current_block))
    /\ phase' = "Initialised"
    /\ right_cache' = TryCache(disk', right_start_block', total_blocks')
    /\ IF right_cache' = NoCache
       THEN right_buf' = RightBlock(disk', right_start_block', 0)
       ELSE UNCHANGED right_buf
    /\ UNCHANGED <<inputVars, left_pulled, right_pulled, current_block, right_cache_idx,
                   right_block_idx, right_row_idx, current_left, outVars>>
-----------------------------------------------------------------------------
(* The loop of next().                                                       *)
Return(row) == emitted' = Append(emitted, <<current_left.id, row.id>>)

HasCached == right_cache # NoCache /\ right_cache_idx < Len(CacheRows)

HasBuffered == right_cache = NoCache /\ right_row_idx < Len(right_buf)

\* A variant that takes the last block but one for the last.
HasMoreBlocksButLast == right_cache = NoCache /\ right_block_idx + 2 < total_blocks

HasMoreBlocks == right_cache = NoCache /\ right_block_idx + 1 < total_blocks

Running == phase = "Initialised" /\ ~ended

ReturnCached ==
    /\ Running /\ current_left # NoRow /\ HasCached
    /\ Return(CacheRows[right_cache_idx + 1])
    /\ right_cache_idx' = right_cache_idx + 1
    /\ UNCHANGED <<inputVars, left_pulled, right_pulled, disk, phase, spillVars,
                   right_cache, right_block_idx, right_buf, right_row_idx,
                   current_left, ended>>

ReturnBuffered ==
    /\ Running /\ current_left # NoRow /\ HasBuffered
    /\ Return(right_buf[right_row_idx + 1])
    /\ right_row_idx' = right_row_idx + 1
    /\ UNCHANGED <<inputVars, left_pulled, right_pulled, disk, phase, spillVars,
                   right_cache, right_cache_idx, right_block_idx, right_buf,
                   current_left, ended>>

\* load_right_block of the block after the one that has been used up.
NextBlock ==
    /\ Running /\ current_left # NoRow /\ ~HasBuffered /\ HasMoreBlocks
    /\ right_block_idx' = right_block_idx + 1
    /\ right_buf' = RightBlock(disk, right_start_block, right_block_idx + 1)
    /\ right_row_idx' = 0
    /\ UNCHANGED <<inputVars, left_pulled, right_pulled, disk, phase, spillVars,
                   right_cache, right_cache_idx, current_left, outVars>>

NeedsLeft == current_left = NoRow \/ ~(HasCached \/ HasBuffered \/ HasMoreBlocks)

\* The next left row, and rewind_right.
NextLeft ==
    /\ Running /\ NeedsLeft /\ left_pulled < Len(left_input)
    /\ left_pulled' = left_pulled + 1
    /\ current_left' = left_input[left_pulled + 1]
    /\ IF right_cache # NoCache
       THEN /\ right_cache_idx' = 0
            /\ UNCHANGED <<right_block_idx, right_buf, right_row_idx>>
       ELSE /\ right_block_idx' = 0
            /\ right_buf' = RightBlock(disk, right_start_block, 0)
            /\ right_row_idx' = 0
            /\ UNCHANGED right_cache_idx
    /\ UNCHANGED <<inputVars, right_pulled, disk, phase, spillVars, right_cache, outVars>>

\* The left child returns None, and so does next().
EndOfLeft ==
    /\ Running /\ NeedsLeft /\ left_pulled = Len(left_input)
    /\ current_left' = NoRow
    /\ IF right_cache = NoCache /\ current_left # NoRow
       THEN right_block_idx' = right_block_idx + 1
       ELSE UNCHANGED right_block_idx
    /\ ended' = TRUE
    /\ UNCHANGED <<inputVars, left_pulled, right_pulled, disk, phase, spillVars,
                   right_cache, right_cache_idx, right_buf, right_row_idx, emitted>>

Stopped == (ended \/ phase = "Panicked") /\ UNCHANGED vars

Next == \/ ChildSpill \/ SpillRow \/ FinishSpill
        \/ ReturnCached \/ ReturnBuffered \/ NextBlock \/ NextLeft \/ EndOfLeft
        \/ Stopped

\* The caller calls next() until it returns None; the loops are of one thread.
Spec == Init /\ [][Next]_vars /\ WF_vars(Next)
-----------------------------------------------------------------------------
SpilledBlocks == read_blocks(disk, right_start_block, total_blocks)

\* The blocks from right_start_block on, the finished blocks not yet written
\* and the block being filled are the right rows pulled so far, in order: all
\* the batches are adjacent, whatever else was allocated on the same disk.
SpillHoldsRightRows ==
    phase # "Panicked" =>
        LET pending == IF phase = "New" THEN Append(write_buf, current_block) ELSE <<>>
        IN  DecodeBlocks(SpilledBlocks \o pending) = SubSeq(right_input, 1, right_pulled)

\* The cache, when there is one, holds what is on the disk, and the buffered
\* block is the one right_block_idx names; the spill is within what was written
\* and the cursors within what they index.
BuffersMirrorDisk ==
    /\ Readable(disk, right_start_block, total_blocks)
    /\ right_row_idx \in 0 .. Len(right_buf)
    /\ Running =>
        /\ right_cache # NoCache => CacheRows = DecodeBlocks(SpilledBlocks)
        /\ right_cache = NoCache =>
               /\ right_block_idx < total_blocks
               /\ right_buf = decode_block(SpilledBlocks[right_block_idx + 1])

\* The layout row.rs:13-16 gives every block: rows in the bytes before the
\* last two, which hold the row count.
RowsKeepOffCounter ==
    \A b \in DOMAIN disk.pages : offset(disk.pages[b]) <= usable

\* The result is the product of the two streams, in the order of the left
\* stream and, for each left row, of the right one, and then None.
PairPrecedes(p, q) == p[1] < q[1] \/ (p[1] = q[1] /\ p[2] < q[2])

Product == (DOMAIN left_input) \X (DOMAIN right_input)

Stream == INSTANCE ResultStream
    WITH Results <- (Nat \ {0}) \X (Nat \ {0}),
         Precedes <- PairPrecedes,
         owed <- Product \ ToSet(emitted)

ImplementsResultStream == Stream!Spec /\ Stream!Ends
=============================================================================
