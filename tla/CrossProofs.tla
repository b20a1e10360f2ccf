------------------------------ MODULE CrossProofs -----------------------------
(* The cross product returns the product of the streams of its children, in  *)
(* order, each pair once: for every input whose right rows fit in a block,   *)
(* whatever the budgets, the batch size and the children's own spills are.   *)
EXTENDS CrossOperator, RowBlocksProofs

\* A right row takes at least a byte and fits in a block, and the counter of a
\* block can count the rows the block has room for.
Fitting == [id : Nat, len : 1 .. usable]

RowsFit ==
    /\ usable < CountLimit
    /\ \A stream \in RightInputs : stream \in Seq(Fitting)

Packed == PackedBlocks(Fitting)

TypeOK ==
    /\ left_input \in LeftInputs /\ right_input \in RightInputs
    /\ left_pulled \in 0 .. Len(left_input) /\ right_pulled \in 0 .. Len(right_input)
    /\ SoundDisk(disk, Packed)
    /\ phase \in {"New", "Initialised"}
    /\ current_block \in Packed /\ write_buf \in Seq(Packed)
    /\ total_blocks \in Nat /\ right_start_block \in Nat
    /\ right_cache_idx \in Nat /\ right_block_idx \in Nat /\ right_row_idx \in Nat
    /\ right_buf \in Seq(Fitting)
    /\ current_left \in [id : Nat, len : Nat]
    /\ emitted \in Seq(Nat \X Nat) /\ ended \in BOOLEAN

\* While the right side is read, the batches written so far are next to each
\* other and end where the next one goes, and nothing has been returned.
Spilling ==
    phase = "New" =>
        /\ total_blocks > 0 => right_start_block + total_blocks = disk.next_anon_block
        /\ right_cache = NoCache /\ right_cache_idx = 0
        /\ right_block_idx = 0 /\ right_buf = <<>> /\ right_row_idx = 0
        /\ left_pulled = 0 /\ current_left = NoRow /\ emitted = <<>> /\ ~ended

\* Afterwards all of it is on the disk, and the cache, if any, is all of it.
Spilled ==
    phase = "Initialised" =>
        /\ right_pulled = Len(right_input) /\ total_blocks > 0
        /\ right_cache \in {NoCache, Cached(right_input)}
        /\ right_cache # NoCache => right_cache_idx <= Len(right_input)
        /\ ~ended => current_left = IF left_pulled = 0 THEN NoRow
                                                       ELSE left_input[left_pulled]

\* How many right rows the current left row has been paired with.
PairedRows ==
    IF right_cache # NoCache THEN right_cache_idx
    ELSE Len(DecodeBlocks(read_blocks(disk, right_start_block, right_block_idx)))
             + right_row_idx

\* The pairs of the left rows before l, and of l with the first n right rows.
PairsUpTo(l, n) == {p \in Product : p[1] < l \/ (p[1] = l /\ p[2] <= n)}

\* What has been returned before the cursors.
ReturnedPairs == PairsUpTo(left_pulled, PairedRows)

OutputOK ==
    phase = "Initialised" =>
        ToSet(emitted) = IF ended THEN Product ELSE ReturnedPairs

IInv == /\ TypeOK /\ Spilling /\ Spilled /\ OutputOK
        /\ SpillHoldsRightRows /\ BuffersMirrorDisk
-----------------------------------------------------------------------------
\* What the proofs use of the children's rows.
LEMMA InputRows ==
    ASSUME RowsFit, TypeOK
    PROVE  /\ left_input \in Seq([id : Nat, len : Nat]) /\ Len(left_input) \in Nat
           /\ DOMAIN left_input = 1 .. Len(left_input)
           /\ right_input \in Seq(Fitting) /\ Len(right_input) \in Nat
           /\ DOMAIN right_input = 1 .. Len(right_input)
           /\ \A i \in 1 .. Len(left_input) : left_input[i].id = i
           /\ \A i \in 1 .. Len(right_input) : right_input[i].id = i
<1>1. /\ left_input \in Seq([id : Nat, len : Nat])
      /\ \A i \in DOMAIN left_input : left_input[i].id = i
      /\ \A i \in DOMAIN right_input : right_input[i].id = i
  BY CrossAssumption DEF TypeOK
<1>2. right_input \in Seq(Fitting)
  BY DEF TypeOK, RowsFit
<1> HIDE DEF Fitting
<1> QED
  BY <1>1, <1>2, LenProperties

\* What they use of the blocks the rows are packed in.
LEMMA PackedFacts ==
    ASSUME RowsFit
    PROVE  /\ usable \in Nat /\ usable < BlockSize
           /\ EmptyBlock \in Packed /\ decode_block(EmptyBlock) = <<>>
           /\ offset(EmptyBlock) = 0
           /\ Decodable(Packed, Fitting)
           /\ \A b \in Packed : decode_block(b) \in Seq(Fitting) /\ offset(b) \in Nat
           /\ \A b \in Packed, row \in Fitting :
                  offset(b) + row.len <= usable =>
                      /\ AddRow(b, row) \in Packed
                      /\ decode_block(AddRow(b, row)) = Append(decode_block(b), row)
<1>1. usable \in Nat /\ usable < BlockSize
  BY BlockSizeAssumption DEF usable, CountBytes
<1>2. SizedRows(Fitting) /\ usable < CountLimit
  BY <1>1 DEF SizedRows, Fitting, RowsFit
<1>3. /\ EmptyBlock \in Packed /\ offset(EmptyBlock) = 0
      /\ \A b \in Packed, row \in Fitting :
             offset(b) + row.len <= usable => AddRow(b, row) \in Packed
  BY <1>2, PackedBlock DEF Packed
<1>4. Decodable(Packed, Fitting) /\ \A b \in Packed : decode_block(b) = b.rows
  BY <1>2, DecodePacked DEF Packed
<1>5. decode_block(EmptyBlock) = <<>>
  BY <1>3, <1>4 DEF EmptyBlock
<1>6. ASSUME NEW b \in Packed PROVE decode_block(b) \in Seq(Fitting) /\ offset(b) \in Nat
  <2>1. b.rows \in Seq(Fitting)
    BY DEF Packed, PackedBlocks
  <2>2. \A r \in Fitting : r.len \in Nat
    BY <1>2 DEF SizedRows
  <2> QED
    BY <1>4, <2>1, <2>2, OffsetOfBlock
<1>7. \A b, row : AddRow(b, row).rows = Append(b.rows, row)
  BY DEF AddRow
<1> QED
  BY <1>1, <1>3, <1>4, <1>5, <1>6, <1>7

\* A row more of the right side.
LEMMA OneRowMore ==
    ASSUME NEW R, NEW s \in Seq(R), NEW n \in Nat, n < Len(s)
    PROVE  /\ SubSeq(s, 1, n) \in Seq(R)
           /\ SubSeq(s, 1, n + 1) = Append(SubSeq(s, 1, n), s[n + 1])
<1>1. Len(s) \in Nat
  BY LenProperties
<1>2. /\ SubSeq(s, 1, n) \in Seq(R) /\ SubSeq(s, 1, n + 1) \in Seq(R)
      /\ Len(SubSeq(s, 1, n)) = n /\ Len(SubSeq(s, 1, n + 1)) = n + 1
      /\ \A i \in 1 .. n : SubSeq(s, 1, n)[i] = s[i]
      /\ \A i \in 1 .. n + 1 : SubSeq(s, 1, n + 1)[i] = s[i]
      /\ s[n + 1] \in R
  BY <1>1
<1> DEFINE t == SubSeq(s, 1, n)
           u == SubSeq(s, 1, n + 1)
<1> HIDE DEF t, u
<1>3. /\ Append(t, s[n + 1]) \in Seq(R) /\ Len(Append(t, s[n + 1])) = n + 1
      /\ \A i \in 1 .. n : Append(t, s[n + 1])[i] = s[i]
      /\ Append(t, s[n + 1])[n + 1] = s[n + 1]
  BY <1>2 DEF t
<1>4. \A i \in 1 .. n + 1 : Append(t, s[n + 1])[i] = u[i]
  BY <1>2, <1>3 DEF u
<1>5. u = Append(t, s[n + 1])
  BY <1>2, <1>3, <1>4, SeqEqual DEF u
<1> QED
  BY <1>2, <1>5 DEF t, u
-----------------------------------------------------------------------------
\* The spilled region is on the disk, and the next batch would adjoin it.
Adjacent ==
    /\ SoundDisk(disk, Packed) /\ right_start_block \in Nat /\ total_blocks \in Nat
    /\ Readable(disk, right_start_block, total_blocks)
    /\ total_blocks > 0 => right_start_block + total_blocks = disk.next_anon_block

\* A batch goes after the batches before it.
LEMMA FlushAppends ==
    ASSUME NEW blocks \in Seq(Packed), Adjacent, flush_batch(blocks)
    PROVE  /\ Adjacent' /\ write_buf' = <<>>
           /\ total_blocks' = total_blocks + Len(blocks)
           /\ SpilledBlocks \in Seq(Packed)
           /\ SpilledBlocks' = SpilledBlocks \o blocks
<1> DEFINE next == disk.next_anon_block
           spilled == Spill(disk, blocks)
<1>1. /\ disk' = spilled /\ write_buf' = <<>>
      /\ right_start_block' = IF total_blocks = 0 THEN next ELSE right_start_block
      /\ total_blocks' = total_blocks + Len(blocks)
  BY DEF flush_batch
<1>2. /\ SoundDisk(spilled, Packed) /\ spilled.next_anon_block = next + Len(blocks)
  BY SpillExtends DEF Adjacent
<1>3. /\ Readable(spilled, next, Len(blocks))
      /\ read_blocks(spilled, next, Len(blocks)) = blocks
      /\ Readable(spilled, right_start_block, total_blocks)
      /\ read_blocks(spilled, right_start_block, total_blocks) = SpilledBlocks
  BY ReadAfterSpill DEF Adjacent, SpilledBlocks
<1>4. next \in Nat /\ Len(blocks) \in Nat /\ right_start_block \in Nat /\ total_blocks \in Nat
  BY LenProperties DEF Adjacent, SoundDisk
<1>5. SpilledBlocks \in Seq(Packed) /\ Len(SpilledBlocks) = total_blocks
  BY ReadWritten DEF Adjacent, SpilledBlocks
<1>s. SpilledBlocks' = read_blocks(disk', right_start_block', total_blocks')
  BY DEF SpilledBlocks
<1> HIDE DEF next, spilled
<1>6. CASE total_blocks = 0
  <2>1. right_start_block' = next /\ total_blocks' = Len(blocks)
    BY <1>1, <1>4, <1>6
  <2>2. SpilledBlocks = <<>>
    BY <1>5, <1>6
  <2>3. SpilledBlocks' = SpilledBlocks \o blocks
    BY <1>1, <1>3, <1>s, <2>1, <2>2, ConcatEmptySeq
  <2>4. Adjacent'
    BY <1>1, <1>2, <1>3, <1>4, <2>1 DEF Adjacent
  <2> QED
    BY <1>1, <1>5, <2>3, <2>4
<1>7. CASE total_blocks > 0
  <2>1. right_start_block' = right_start_block /\ right_start_block + total_blocks = next
    BY <1>1, <1>4, <1>7 DEF Adjacent, next
  <2>2. /\ read_blocks(spilled, right_start_block, total_blocks + Len(blocks))
              = read_blocks(spilled, right_start_block, total_blocks)
                    \o read_blocks(spilled, right_start_block + total_blocks, Len(blocks))
        /\ Readable(spilled, right_start_block, total_blocks + Len(blocks)) <=>
               /\ Readable(spilled, right_start_block, total_blocks)
               /\ Readable(spilled, right_start_block + total_blocks, Len(blocks))
    <3>1. AdjoiningReads(spilled, right_start_block, total_blocks, Len(blocks))
      BY <1>4, ReadAdjacent
    <3> QED
      BY <3>1 DEF AdjoiningReads
  <2>3. SpilledBlocks' = SpilledBlocks \o blocks
    BY <1>1, <1>3, <1>s, <2>1, <2>2
  <2>4. Readable(disk', right_start_block', total_blocks')
    BY <1>1, <1>3, <2>1, <2>2
  <2>5. /\ right_start_block' + total_blocks' = next + Len(blocks)
        /\ right_start_block' \in Nat /\ total_blocks' \in Nat
    BY <1>1, <1>4, <2>1
  <2>6. SoundDisk(disk', Packed) /\ disk'.next_anon_block = next + Len(blocks)
    BY <1>1, <1>2
  <2>7. Adjacent'
    BY <2>4, <2>5, <2>6 DEF Adjacent
  <2> QED
    BY <1>1, <1>5, <2>3, <2>7
<1> QED
  BY <1>4, <1>6, <1>7

\* A child's own spill leaves the spilled region alone.
LEMMA ChildSpillKeeps ==
    ASSUME RowsFit, SoundDisk(disk, Packed), NEW n \in Nat,
           disk' = Spill(disk, [i \in 1 .. n |-> EmptyBlock])
    PROVE  /\ SoundDisk(disk', Packed)
           /\ \A start, count \in Nat :
                 Readable(disk, start, count) =>
                     /\ Readable(disk', start, count)
                     /\ read_blocks(disk', start, count) = read_blocks(disk, start, count)
<1> DEFINE blocks == [i \in 1 .. n |-> EmptyBlock]
<1>1. blocks \in Seq(Packed)
  <2>1. EmptyBlock \in Packed
    BY PackedFacts
  <2> QED
    BY <2>1
<1> HIDE DEF blocks
<1>2. SoundDisk(Spill(disk, blocks), Packed)
  BY <1>1, SpillExtends
<1>3. \A start, count \in Nat :
         Readable(disk, start, count) =>
             /\ Readable(Spill(disk, blocks), start, count)
             /\ read_blocks(Spill(disk, blocks), start, count)
                    = read_blocks(disk, start, count)
  BY <1>1, ReadAfterSpill
<1> QED
  BY <1>2, <1>3 DEF blocks
-----------------------------------------------------------------------------
\* Nothing is on the disk of a new query.
LEMMA InitIInv ==
    ASSUME RowsFit, Init
    PROVE  IInv
<1>1. /\ left_input \in LeftInputs /\ right_input \in RightInputs
      /\ left_pulled = 0 /\ right_pulled = 0 /\ disk = NewDisk /\ phase = "New"
      /\ current_block = EmptyBlock /\ write_buf = <<>> /\ total_blocks = 0
      /\ right_start_block = 0
  BY DEF Init
<1>2. /\ right_cache = NoCache /\ right_cache_idx = 0
      /\ right_block_idx = 0 /\ right_buf = <<>> /\ right_row_idx = 0
      /\ current_left = NoRow /\ emitted = <<>> /\ ended = FALSE
  BY DEF Init
<1>3. Len(left_input) \in Nat /\ Len(right_input) \in Nat
  <2>1. left_input \in Seq([id : Nat, len : Nat]) /\ right_input \in Seq([id : Nat, len : Nat])
    BY <1>1, CrossAssumption
  <2> QED
    BY <2>1, LenProperties
<1>4. SoundDisk(disk, Packed) /\ Readable(disk, 0, 0)
  <2>1. /\ disk = [pages |-> <<>>, next_anon_block |-> AnonStart] /\ AnonStart \in Nat
    BY <1>1, AnonStartAssumption DEF NewDisk
  <2>2. DOMAIN disk.pages = {} /\ disk.pages \in [{} -> Packed]
    BY <2>1
  <2>3. 0 .. 0 + 0 - 1 = {}
    OBVIOUS
  <2> QED
    BY <2>1, <2>2, <2>3 DEF SoundDisk, Readable
<1>5. TypeOK
  <2>1. EmptyBlock \in Packed
    BY PackedFacts
  <2>2. <<>> \in Seq(Packed) /\ <<>> \in Seq(Fitting) /\ <<>> \in Seq(Nat \X Nat)
    BY EmptySeq
  <2>3. NoRow \in [id : Nat, len : Nat]
    BY DEF NoRow
  <2>4. 0 \in 0 .. Len(left_input) /\ 0 \in 0 .. Len(right_input)
    BY <1>3
  <2> HIDE DEF Packed, Fitting
  <2> QED
    BY <1>1, <1>2, <1>4, <2>1, <2>2, <2>3, <2>4 DEF TypeOK
<1>6. Spilling /\ Spilled /\ OutputOK
  BY <1>1, <1>2 DEF Spilling, Spilled, OutputOK
<1>7. SpillHoldsRightRows
  <2>1. SpilledBlocks = <<>>
    BY <1>1 DEF SpilledBlocks, read_blocks
  <2>2. <<>> \in Seq(Packed) /\ EmptyBlock \in Packed
    BY PackedFacts, EmptySeq
  <2>3. <<>> \o Append(<<>>, EmptyBlock) = Append(<<>>, EmptyBlock)
    BY <2>2
  <2>4. DecodeBlocks(Append(<<>>, EmptyBlock)) = <<>> \o <<>>
    BY <2>2, DecodeAppend, PackedFacts
  <2>5. SubSeq(right_input, 1, 0) = <<>>
    BY SubSeqEmpty
  <2>6. <<>> \o <<>> = <<>>
    OBVIOUS
  <2> QED
    BY <1>1, <2>1, <2>3, <2>4, <2>5, <2>6 DEF SpillHoldsRightRows
<1>8. BuffersMirrorDisk
  BY <1>1, <1>2, <1>4 DEF BuffersMirrorDisk, Running
<1> QED
  BY <1>5, <1>6, <1>7, <1>8 DEF IInv

\* A child's spill comes before any batch, or after all of them.
LEMMA ChildSpillIInv ==
    ASSUME RowsFit, IInv, ChildSpill
    PROVE  IInv'
<1>1. PICK n \in Nat : disk' = Spill(disk, [i \in 1 .. n |-> EmptyBlock])
  BY CrossAssumption DEF ChildSpill
<1>2. /\ left_input' = left_input /\ right_input' = right_input
      /\ left_pulled' = left_pulled /\ right_pulled' = right_pulled /\ phase' = phase
      /\ current_block' = current_block /\ write_buf' = write_buf
      /\ total_blocks' = total_blocks /\ right_start_block' = right_start_block
      /\ right_cache' = right_cache /\ right_cache_idx' = right_cache_idx
      /\ right_block_idx' = right_block_idx /\ right_buf' = right_buf
      /\ right_row_idx' = right_row_idx /\ current_left' = current_left
      /\ emitted' = emitted /\ ended' = ended
  BY DEF ChildSpill, inputVars, spillVars, cursorVars, outVars
<1>3. SoundDisk(disk, Packed) /\ right_start_block \in Nat /\ total_blocks \in Nat
  BY DEF IInv, TypeOK
<1>4. /\ SoundDisk(disk', Packed)
      /\ \A start, count \in Nat :
            Readable(disk, start, count) =>
                /\ Readable(disk', start, count)
                /\ read_blocks(disk', start, count) = read_blocks(disk, start, count)
  BY <1>1, <1>3, ChildSpillKeeps
<1>5. Readable(disk, right_start_block, total_blocks)
  BY DEF IInv, BuffersMirrorDisk
<1>6. /\ Readable(disk', right_start_block', total_blocks')
      /\ SpilledBlocks' = SpilledBlocks
  BY <1>2, <1>3, <1>4, <1>5 DEF SpilledBlocks
<1>7. TypeOK'
  BY <1>2, <1>4 DEF IInv, TypeOK
<1>8. Spilling'
  <2> SUFFICES ASSUME phase = "New", total_blocks > 0 PROVE FALSE
    BY <1>2 DEF IInv, Spilling
  <2>1. disk = NewDisk
    BY DEF ChildSpill
  <2>2. right_start_block \in right_start_block .. right_start_block + total_blocks - 1
    BY <1>3
  <2>3. right_start_block \in DOMAIN disk.pages
    BY <1>5, <2>2 DEF Readable
  <2> QED
    BY <2>1, <2>3 DEF NewDisk
<1>9. Spilled'
  BY <1>2 DEF IInv, Spilled, CacheRows
<1>10. OutputOK'
  <2> SUFFICES ASSUME phase = "Initialised"
               PROVE  ToSet(emitted) = IF ended THEN Product' ELSE ReturnedPairs'
    BY <1>2 DEF OutputOK
  <2>1. left_pulled = 0 /\ ~ended
    BY DEF ChildSpill
  <2>2. Product' = Product /\ \A p \in Product : p[1] \in Nat \ {0}
    <3>1. DOMAIN left_input = 1 .. Len(left_input) /\ Len(left_input) \in Nat
      BY InputRows DEF IInv
    <3> QED
      BY <1>2, <3>1 DEF Product
  <2>3. \A p \in Product : ~(p[1] < 0) /\ p[1] # 0
    BY <2>2
  <2>4. ReturnedPairs = {} /\ ReturnedPairs' = {}
    BY <1>2, <2>1, <2>2, <2>3 DEF ReturnedPairs, PairsUpTo
  <2> QED
    BY <2>1, <2>4 DEF IInv, OutputOK
<1>11. SpillHoldsRightRows'
  BY <1>2, <1>6 DEF IInv, SpillHoldsRightRows
<1>12. BuffersMirrorDisk'
  BY <1>2, <1>6 DEF IInv, BuffersMirrorDisk, Running, CacheRows
<1> QED
  BY <1>7, <1>8, <1>9, <1>10, <1>11, <1>12 DEF IInv

\* A row of the right side goes to the end of the block being filled, or into
\* a new one when it does not fit, and then the finished blocks may be written.
LEMMA SpillRowIInv ==
    ASSUME RowsFit, IInv, SpillRow
    PROVE  IInv'
<1> DEFINE row == right_input[right_pulled + 1]
           closes == offset(current_block) + row.len > usable
           finished == IF closes THEN Append(write_buf, current_block) ELSE write_buf
           fresh == IF closes THEN EmptyBlock ELSE current_block
<1>1. /\ left_input' = left_input /\ right_input' = right_input
      /\ left_pulled' = left_pulled /\ right_pulled' = right_pulled + 1
      /\ right_cache' = right_cache /\ right_cache_idx' = right_cache_idx
      /\ right_block_idx' = right_block_idx /\ right_buf' = right_buf
      /\ right_row_idx' = right_row_idx /\ current_left' = current_left
      /\ emitted' = emitted /\ ended' = ended
  BY DEF SpillRow, inputVars, cursorVars, outVars
<1>2. /\ phase = "New" /\ right_pulled < Len(right_input) /\ right_pulled \in Nat
      /\ right_pulled \in 0 .. Len(right_input) /\ Len(right_input) \in Nat
      /\ right_input \in Seq(Fitting)
  BY InputRows DEF SpillRow, IInv, TypeOK
<1>3. row \in Fitting /\ row.len \in 1 .. usable /\ ~(row.len > BlockSize)
  <2>1. right_pulled + 1 \in 1 .. Len(right_input)
    BY <1>2
  <2>2. row \in Fitting
    BY <1>2, <2>1, ElementOfSeq
  <2>3. row.len \in 1 .. usable
    BY <2>2 DEF Fitting
  <2>4. BlockSize \in Nat
    BY BlockSizeAssumption
  <2> HIDE DEF row
  <2>5. ~(row.len > BlockSize)
    BY <2>3, <2>4, PackedFacts
  <2> QED
    BY <2>2, <2>3, <2>5
<1>4. /\ current_block \in Packed /\ write_buf \in Seq(Packed)
      /\ Adjacent /\ SpilledBlocks \in Seq(Packed)
  <2>1. Adjacent
    BY <1>2 DEF IInv, TypeOK, Spilling, BuffersMirrorDisk, Adjacent
  <2> QED
    BY <2>1, ReadWritten DEF Adjacent, SpilledBlocks, IInv, TypeOK
<1>5. /\ current_block' = AddRow(fresh, row) /\ phase' = phase
      /\ \/ /\ closes /\ BatchFull(finished) /\ flush_batch(finished)
         \/ /\ write_buf' = finished
            /\ UNCHANGED <<disk, right_start_block, total_blocks>>
  BY <1>3 DEF SpillRow
<1>6. fresh \in Packed /\ offset(fresh) + row.len <= usable
  <2>1. CASE closes
    BY <1>3, <2>1, PackedFacts
  <2>2. CASE ~closes
    BY <1>3, <1>4, <2>2, PackedFacts
  <2> QED
    BY <2>1, <2>2
<1>7. /\ current_block' \in Packed
      /\ decode_block(current_block') = Append(decode_block(fresh), row)
  BY <1>3, <1>5, <1>6, PackedFacts
<1>8. finished \in Seq(Packed)
  BY <1>4
<1> DEFINE before == SpilledBlocks \o write_buf
<1>9. before \in Seq(Packed)
  BY <1>4, ConcatProperties
<1>10. SpilledBlocks \o finished = IF closes THEN Append(before, current_block) ELSE before
  <2>1. SpilledBlocks \o Append(write_buf, current_block) = Append(before, current_block)
    BY <1>4, AppendLater
  <2> QED
    BY <2>1, Zenon
<1> HIDE DEF row, closes, finished, fresh
<1>11. /\ Adjacent' /\ write_buf' \in Seq(Packed) /\ SpilledBlocks' \in Seq(Packed)
       /\ SpilledBlocks' \o write_buf' = SpilledBlocks \o finished
  <2>1. CASE flush_batch(finished)
    <3>1. /\ Adjacent' /\ write_buf' = <<>> /\ SpilledBlocks' = SpilledBlocks \o finished
      BY <1>4, <1>8, <2>1, FlushAppends
    <3>2. SpilledBlocks' \in Seq(Packed)
      BY <1>4, <1>8, <3>1, ConcatProperties
    <3> QED
      BY <3>1, <3>2, ConcatEmptySeq, EmptySeq
  <2>2. CASE write_buf' = finished /\ UNCHANGED <<disk, right_start_block, total_blocks>>
    <3>1. Adjacent' /\ SpilledBlocks' = SpilledBlocks
      BY <1>4, <2>2 DEF Adjacent, SpilledBlocks
    <3> QED
      BY <1>4, <1>8, <2>2, <3>1
  <2> QED
    BY <1>5, <2>1, <2>2
<1>12. DecodeBlocks(SpilledBlocks \o Append(write_buf, current_block))
           = SubSeq(right_input, 1, right_pulled)
  BY <1>2 DEF IInv, SpillHoldsRightRows
<1>13. DecodeBlocks(SpilledBlocks \o finished) \o decode_block(fresh)
           = SubSeq(right_input, 1, right_pulled)
  <2>1. SpilledBlocks \o Append(write_buf, current_block) = Append(before, current_block)
    BY <1>4, AppendLater
  <2>2. CASE closes
    <3>1. Append(before, current_block) \in Seq(Packed)
      BY <1>4, <1>9
    <3>2. DecodeBlocks(Append(before, current_block)) \in Seq(Fitting)
      BY <3>1, DecodeAppend, PackedFacts
    <3>3. decode_block(fresh) = <<>>
      BY <2>2, PackedFacts DEF fresh
    <3> QED
      BY <1>10, <1>12, <2>1, <2>2, <3>2, <3>3, ConcatEmptySeq
  <2>3. CASE ~closes
    <3>1. fresh = current_block
      BY <2>3 DEF fresh
    <3>2. DecodeBlocks(Append(before, current_block))
              = DecodeBlocks(before) \o decode_block(current_block)
      BY <1>4, <1>9, DecodeAppend, PackedFacts
    <3> QED
      BY <1>10, <1>12, <2>1, <2>3, <3>1, <3>2
  <2> QED
    BY <2>2, <2>3
<1> HIDE DEF before
<1>14. DecodeBlocks(SpilledBlocks' \o Append(write_buf', current_block'))
           = SubSeq(right_input, 1, right_pulled + 1)
  <2> DEFINE done == SpilledBlocks \o finished
  <2>1. done \in Seq(Packed)
    BY <1>4, <1>8, ConcatProperties
  <2>2. SpilledBlocks' \o Append(write_buf', current_block') = Append(done, current_block')
    <3>1. SpilledBlocks' \o Append(write_buf', current_block')
              = Append(SpilledBlocks' \o write_buf', current_block')
      <4>1. \A t, u \in Seq(Packed), b \in Packed : t \o Append(u, b) = Append(t \o u, b)
        BY AppendLater
      <4> QED
        BY <1>7, <1>11, <4>1, Zenon
    <3> QED
      BY <1>11, <3>1, Zenon
  <2> HIDE DEF done
  <2>3. DecodeBlocks(Append(done, current_block'))
            = DecodeBlocks(done) \o Append(decode_block(fresh), row)
    BY <1>7, <2>1, DecodeAppend, PackedFacts
  <2>4. DecodeBlocks(done) \in Seq(Fitting) /\ decode_block(fresh) \in Seq(Fitting)
    BY <1>6, <2>1, DecodeAppend, PackedFacts
  <2>5. DecodeBlocks(done) \o Append(decode_block(fresh), row)
            = Append(DecodeBlocks(done) \o decode_block(fresh), row)
    BY <1>3, <2>4, AppendLater
  <2>6. SubSeq(right_input, 1, right_pulled + 1)
            = Append(SubSeq(right_input, 1, right_pulled), row)
    BY <1>2, OneRowMore DEF row
  <2> QED
    BY <1>13, <2>2, <2>3, <2>5, <2>6 DEF done
<1>15. TypeOK'
  <2>1. right_pulled + 1 \in 0 .. Len(right_input)
    BY <1>2
  <2> QED
    BY <1>1, <1>5, <1>7, <1>11, <2>1 DEF IInv, TypeOK, Adjacent
<1>16. Spilling'
  BY <1>1, <1>2, <1>5, <1>11 DEF IInv, Spilling, Adjacent
<1>17. Spilled' /\ OutputOK'
  BY <1>2, <1>5 DEF Spilled, OutputOK
<1>18. SpillHoldsRightRows'
  BY <1>1, <1>2, <1>5, <1>14 DEF SpillHoldsRightRows
<1>19. BuffersMirrorDisk'
  BY <1>1, <1>2, <1>5, <1>11 DEF IInv, BuffersMirrorDisk, Running, Adjacent
<1> QED
  BY <1>15, <1>16, <1>17, <1>18, <1>19 DEF IInv
-----------------------------------------------------------------------------
\* Blocks that are on the disk, next to each other.
OnDisk(store, start, count) ==
    /\ SoundDisk(store, Packed) /\ start \in Nat /\ count \in Nat
    /\ Readable(store, start, count)

\* The rows of the first k blocks of a spill.
RowsBefore(store, start, k) == DecodeBlocks(read_blocks(store, start, k))

\* Reading n of the blocks, at any place.
ReadsRows(store, at, n) ==
    /\ read_blocks(store, at, n) \in Seq(Packed) /\ Len(read_blocks(store, at, n)) = n
    /\ RowsBefore(store, at, n) \in Seq(Fitting)

\* Part of a spill decodes to rows.
LEMMA ReadPart ==
    ASSUME RowsFit, NEW store, NEW start, NEW count, OnDisk(store, start, count),
           NEW at \in Nat, NEW n \in Nat, start <= at, at + n <= start + count
    PROVE  ReadsRows(store, at, n)
<1>1. Readable(store, at, n) /\ SoundDisk(store, Packed)
  <2>1. start \in Nat /\ count \in Nat
    BY DEF OnDisk
  <2>2. at .. at + n - 1 \subseteq start .. start + count - 1
    BY <2>1
  <2> QED
    BY <2>2 DEF Readable, OnDisk
<1>2. read_blocks(store, at, n) \in Seq(Packed) /\ Len(read_blocks(store, at, n)) = n
  BY <1>1, ReadWritten
<1>3. RowsBefore(store, at, n) \in Seq(Fitting)
  BY <1>2, DecodeAppend, PackedFacts DEF RowsBefore
<1> QED
  BY <1>2, <1>3 DEF ReadsRows

AdjoiningRows(store, at, m, n) ==
    RowsBefore(store, at, m + n) = RowsBefore(store, at, m) \o RowsBefore(store, at + m, n)

\* Reading a part and then the next gives the rows of both.
LEMMA ReadParts ==
    ASSUME RowsFit, NEW store, NEW start, NEW count, OnDisk(store, start, count),
           NEW at \in Nat, NEW m \in Nat, NEW n \in Nat, start <= at,
           at + (m + n) <= start + count
    PROVE  AdjoiningRows(store, at, m, n)
<1>0. start \in Nat /\ count \in Nat
  BY DEF OnDisk
<1>1. ReadsRows(store, at, m)
  <2>1. at + m <= start + count
    BY <1>0
  <2> QED
    BY <2>1, ReadPart
<1>2. ReadsRows(store, at + m, n)
  <2>1. at + m \in Nat /\ start <= at + m /\ (at + m) + n <= start + count
    BY <1>0
  <2> QED
    BY <2>1, ReadPart
<1>3. AdjoiningReads(store, at, m, n)
  BY ReadAdjacent
<1> DEFINE s == read_blocks(store, at, m)
           t == read_blocks(store, at + m, n)
<1>4. s \in Seq(Packed) /\ t \in Seq(Packed) /\ read_blocks(store, at, m + n) = s \o t
  BY <1>1, <1>2, <1>3 DEF ReadsRows, AdjoiningReads
<1> HIDE DEF s, t
<1>5. DecodeBlocks(s \o t) = DecodeBlocks(s) \o DecodeBlocks(t)
  BY <1>4, DecodeConcat, PackedFacts
<1> QED
  BY <1>4, <1>5 DEF AdjoiningRows, RowsBefore, s, t

\* The rows of the blocks passed are the first ones of the spill, and those of
\* block k, counted from 0, come next.
NextRows(store, start, count, k) ==
    LET passed == RowsBefore(store, start, k)
        block == RightBlock(store, start, k)
    IN  /\ block \in Seq(Fitting)
        /\ block = decode_block(read_blocks(store, start, count)[k + 1])
        /\ Len(RowsBefore(store, start, k + 1)) = Len(passed) + Len(block)
        /\ Len(passed) + Len(block) <= Len(RowsBefore(store, start, count))
        /\ \A i \in 1 .. Len(block) :
               RowsBefore(store, start, count)[Len(passed) + i] = block[i]

\* Before the first block there are no rows, and in all of them there are rows.
LEMMA FirstRows ==
    ASSUME RowsFit, NEW store, NEW start, NEW count, OnDisk(store, start, count)
    PROVE  /\ RowsBefore(store, start, 0) = <<>>
           /\ RowsBefore(store, start, count) \in Seq(Fitting)
<1>1. RowsBefore(store, start, 0) = <<>>
  <2>1. read_blocks(store, start, 0) = <<>>
    BY DEF read_blocks
  <2>2. <<>> \in Seq(Packed)
    BY EmptySeq
  <2> QED
    BY <2>1, <2>2, DecodeAppend, PackedFacts DEF RowsBefore
<1>2. start \in Nat /\ count \in Nat /\ start <= start /\ start + count <= start + count
  BY DEF OnDisk
<1>3. ReadsRows(store, start, count)
  BY <1>2, ReadPart
<1> QED
  BY <1>1, <1>3 DEF ReadsRows

\* Every block of a scan continues the rows before it.
LEMMA ScanOfBlocks ==
    ASSUME RowsFit, NEW store, NEW start, NEW count, OnDisk(store, start, count),
           NEW k \in Nat, k < count
    PROVE  NextRows(store, start, count, k)
<1>0. start \in Nat /\ count \in Nat
  BY DEF OnDisk
<1>1. PICK one \in Nat : one = 1
  OBVIOUS
<1>2. PICK rest \in Nat : rest = count - (k + 1)
  BY <1>0
<1>3. PICK here \in Nat : here = start + k
  BY <1>0
<1>4. PICK upto \in Nat : upto = k + 1
  BY <1>0
<1> DEFINE passed == RowsBefore(store, start, k)
           block == read_blocks(store, here, one)
           later == RowsBefore(store, start + upto, rest)
<1>5. ReadsRows(store, start, k) /\ ReadsRows(store, here, one)
  <2>1. start <= start /\ start + k <= start + count /\ start <= here
        /\ here + one <= start + count
    BY <1>0, <1>1, <1>3
  <2> QED
    BY <1>0, <2>1, ReadPart
<1>6. ReadsRows(store, start + upto, rest)
  <2>1. PICK after \in Nat : after = start + upto
    BY <1>0
  <2>2. start <= after /\ after + rest <= start + count
    BY <1>0, <1>2, <1>4, <2>1
  <2>3. ReadsRows(store, after, rest)
    BY <2>2, ReadPart
  <2> QED
    BY <2>1, <2>3
<1>7. AdjoiningRows(store, start, k, one) /\ AdjoiningRows(store, start, upto, rest)
  <2>1. start <= start /\ start + (k + one) <= start + count
        /\ start + (upto + rest) <= start + count
    BY <1>0, <1>1, <1>2, <1>4
  <2> QED
    BY <1>0, <2>1, ReadParts
<1>8. /\ RowsBefore(store, start, k + 1) = passed \o RowsBefore(store, here, one)
      /\ RowsBefore(store, start, count) = RowsBefore(store, start, k + 1) \o later
  <2>1. k + one = k + 1 /\ upto + rest = count /\ start + k = here /\ upto = k + 1
    BY <1>0, <1>1, <1>2, <1>3, <1>4
  <2> QED
    BY <1>7, <2>1 DEF AdjoiningRows
<1>9. /\ block \in Seq(Packed) /\ Len(block) = 1
      /\ block[1] = store.pages[here]
      /\ read_blocks(store, start, count)[k + 1] = store.pages[here]
  <2>1. here + 1 - 1 = here /\ start + (k + 1) - 1 = here
        /\ k + 1 \in 1 .. count /\ 1 \in 1 .. one /\ one = 1
    BY <1>0, <1>1, <1>3
  <2>2. block \in Seq(Packed) /\ Len(block) = one
    BY <1>5 DEF ReadsRows
  <2> QED
    BY <2>1, <2>2 DEF read_blocks
<1> DEFINE rows == RightBlock(store, start, k)
<1>10. rows = decode_block(block[1])
  BY <1>1, <1>3 DEF RightBlock
<1> HIDE DEF block
<1>11. block[1] \in Packed /\ block = <<block[1]>>
  <2>1. 1 \in 1 .. Len(block)
    BY <1>9
  <2>2. block[1] \in Packed
    BY <1>9, <2>1, ElementOfSeq
  <2>3. <<block[1]>> \in Seq(Packed) /\ Len(<<block[1]>>) = 1 /\ <<block[1]>>[1] = block[1]
    BY <2>2
  <2>4. \A i \in 1 .. Len(block) : block[i] = <<block[1]>>[i]
    BY <1>9, <2>3
  <2> QED
    BY <1>9, <2>2, <2>3, <2>4, SeqEqual
<1> HIDE DEF rows
<1>12. rows \in Seq(Fitting)
  BY <1>10, <1>11, PackedFacts
<1>13. RowsBefore(store, here, one) = rows
  <2>1. <<>> \in Seq(Packed) /\ Append(<<>>, block[1]) = <<block[1]>>
    BY EmptySeq
  <2>2. /\ DecodeBlocks(Append(<<>>, block[1])) = DecodeBlocks(<<>>) \o decode_block(block[1])
        /\ DecodeBlocks(<<>>) = <<>>
    BY <1>11, <2>1, DecodeAppend, PackedFacts
  <2>3. DecodeBlocks(block) = <<>> \o rows
    BY <1>10, <1>11, <2>1, <2>2
  <2> QED
    BY <1>12, <2>3, ConcatEmptySeq DEF RowsBefore, block
<1>14. passed \in Seq(Fitting) /\ later \in Seq(Fitting)
  BY <1>5, <1>6 DEF ReadsRows
<1> HIDE DEF passed, later
<1>15. /\ passed \o rows \in Seq(Fitting) /\ Len(passed \o rows) = Len(passed) + Len(rows)
       /\ Len(passed) \in Nat /\ Len(rows) \in Nat /\ Len(later) \in Nat
       /\ \A i \in 1 .. Len(passed) + Len(rows) :
              (passed \o rows)[i] = IF i <= Len(passed) THEN passed[i]
                                    ELSE rows[i - Len(passed)]
  BY <1>12, <1>14, ConcatProperties, LenProperties
<1>16. /\ Len((passed \o rows) \o later) = Len(passed \o rows) + Len(later)
       /\ \A i \in 1 .. Len(passed \o rows) + Len(later) :
              ((passed \o rows) \o later)[i] = IF i <= Len(passed \o rows)
                                               THEN (passed \o rows)[i]
                                               ELSE later[i - Len(passed \o rows)]
  BY <1>14, <1>15, ConcatProperties
<1>17. ASSUME NEW i \in 1 .. Len(rows)
       PROVE  ((passed \o rows) \o later)[Len(passed) + i] = rows[i]
  <2>1. /\ Len(passed) + i \in 1 .. Len(passed \o rows) + Len(later)
        /\ Len(passed) + i <= Len(passed \o rows)
        /\ Len(passed) + i \in 1 .. Len(passed) + Len(rows)
        /\ ~(Len(passed) + i <= Len(passed)) /\ (Len(passed) + i) - Len(passed) = i
    BY <1>15
  <2>2. ((passed \o rows) \o later)[Len(passed) + i] = (passed \o rows)[Len(passed) + i]
    BY <1>16, <2>1
  <2>3. (passed \o rows)[Len(passed) + i] = rows[(Len(passed) + i) - Len(passed)]
    BY <1>15, <2>1
  <2> QED
    BY <2>1, <2>2, <2>3
<1>18. Len(passed) + Len(rows) <= Len((passed \o rows) \o later)
  BY <1>15, <1>16
<1> QED
  BY <1>8, <1>9, <1>10, <1>12, <1>13, <1>15, <1>17, <1>18 DEF NextRows, passed, rows

\* Reading the spill back in batches gives the rows of all of it.
LEMMA CacheHoldsAll ==
    ASSUME RowsFit, NEW store, NEW start, NEW count, OnDisk(store, start, count)
    PROVE  TryCache(store, start, count)
               \in {NoCache, Cached(RowsBefore(store, start, count))}
<1> DEFINE Size(r) == IF r < BATCH_BLOCKS THEN r ELSE BATCH_BLOCKS
           Batch(from, n) == DecodeBlocks(read_blocks(store, start + from, n))
           Body(g) == [r \in 0 .. count |->
                          IF r = 0 THEN <<>> ELSE Batch(count - r, Size(r)) \o g[r - Size(r)]]
           cache == CHOOSE g : g = Body(g)
           want == [r \in 0 .. count |-> RowsBefore(store, start + (count - r), r)]
<1>0. start \in Nat /\ count \in Nat /\ BATCH_BLOCKS \in Nat \ {0}
  BY CrossAssumption DEF OnDisk
<1>1. TryCache(store, start, count) = IF count * BlockSize * 2 > RIGHT_CACHE_BYTES THEN NoCache
                                      ELSE Cached(cache[count])
  BY Zenon DEF TryCache
<1>2. want[0] = <<>>
  <2>1. 0 \in 0 .. count /\ start + (count - 0) = start + count
    BY <1>0
  <2>2. read_blocks(store, start + count, 0) = <<>>
    BY DEF read_blocks
  <2>3. DecodeBlocks(<<>>) = <<>>
    BY EmptySeq, DecodeAppend, PackedFacts
  <2> QED
    BY <2>1, <2>2, <2>3 DEF RowsBefore
<1>3. ASSUME NEW r \in 1 .. count
      PROVE  /\ Size(r) \in 1 .. r /\ r - Size(r) \in 0 .. count /\ r - Size(r) < r
             /\ want[r] = Batch(count - r, Size(r)) \o want[r - Size(r)]
  <2>1. PICK n \in Nat : n = Size(r)
    BY <1>0
  <2>2. n \in 1 .. r
    BY <1>0, <2>1
  <2>3. PICK rest \in Nat : rest = r - n
    BY <2>2
  <2>4. PICK at \in Nat : at = start + (count - r)
    BY <1>0
  <2>5. start <= at /\ at + (n + rest) <= start + count /\ n + rest = r
        /\ at + n = start + (count - rest)
    BY <1>0, <2>2, <2>3, <2>4
  <2>6. AdjoiningRows(store, at, n, rest)
    BY <2>5, ReadParts
  <2>7. RowsBefore(store, at, r)
            = RowsBefore(store, at, n) \o RowsBefore(store, start + (count - rest), rest)
    BY <2>5, <2>6 DEF AdjoiningRows
  <2>8. rest \in 0 .. count /\ r \in 0 .. count /\ rest < r
    BY <1>0, <2>2, <2>3
  <2>9. /\ want[rest] = RowsBefore(store, start + (count - rest), rest)
        /\ want[r] = RowsBefore(store, at, r)
    BY <2>4, <2>8
  <2>10. Batch(count - r, n) = RowsBefore(store, at, n)
    BY <2>4 DEF RowsBefore
  <2> HIDE DEF want, Batch, Size
  <2> QED
    BY <2>1, <2>2, <2>3, <2>7, <2>8, <2>9, <2>10
<1>4. want = Body(want)
  <2>1. ASSUME NEW r \in 0 .. count
        PROVE  want[r] = IF r = 0 THEN <<>>
                         ELSE Batch(count - r, Size(r)) \o want[r - Size(r)]
    <3>1. r = 0 \/ r \in 1 .. count
      BY <1>0
    <3> HIDE DEF want, Batch, Size
    <3> QED
      BY <1>2, <1>3, <3>1
  <2>2. want = [r \in 0 .. count |-> want[r]]
    OBVIOUS
  <2> HIDE DEF want
  <2> QED
    BY <2>1, <2>2, Zenon
<1>5. cache = Body(cache)
  BY <1>4, Zenon
<1> HIDE DEF cache, want, Batch, Size
<1>6. cache[0] = <<>> /\ \A r \in 1 .. count : cache[r] = Batch(count - r, Size(r))
                                                             \o cache[r - Size(r)]
  <2>1. ASSUME NEW r \in 0 .. count
        PROVE  cache[r] = IF r = 0 THEN <<>>
                          ELSE Batch(count - r, Size(r)) \o cache[r - Size(r)]
    BY <1>5, Zenon
  <2>2. 0 \in 0 .. count /\ \A r \in 1 .. count : r \in 0 .. count /\ r # 0
    BY <1>0
  <2> QED
    BY <2>1, <2>2, Zenon
<1>7. \A r \in 0 .. count : cache[r] = want[r]
  <2> DEFINE Wrong == {r \in 0 .. count : cache[r] # want[r]}
  <2> SUFFICES ASSUME Wrong # {} PROVE FALSE
    BY Zenon
  <2>1. Wrong \subseteq Nat
    OBVIOUS
  <2>2. PICK r \in Wrong : \A y \in Wrong : r <= y
    <3> HIDE DEF Wrong
    <3> QED
      BY <2>1, LeastNumber
  <2>3. r # 0 /\ r \in 0 .. count
    BY <1>2, <1>6, <2>2
  <2>4. r \in 1 .. count
    BY <1>0, <2>3
  <2>5. r - Size(r) \in 0 .. count /\ r - Size(r) < r /\ r \in Nat
    <3>1. r - Size(r) \in 0 .. count /\ r - Size(r) < r
      BY <1>3, <2>4, Zenon
    <3> QED
      BY <1>0, <2>4, <3>1
  <2>6. r - Size(r) \notin Wrong
    <3> HIDE DEF Wrong
    <3>1. ~(r <= r - Size(r))
      BY <2>5
    <3> QED
      BY <2>2, <3>1
  <2>7. cache[r - Size(r)] = want[r - Size(r)]
    BY <2>5, <2>6
  <2>8. cache[r] = want[r]
    BY <1>3, <1>6, <2>4, <2>7, Zenon
  <2> QED
    BY <2>2, <2>8
<1>8. want[count] = RowsBefore(store, start, count)
  <2>1. count \in 0 .. count /\ start + (count - count) = start
    BY <1>0
  <2> QED
    BY <2>1 DEF want
<1>9. cache[count] = RowsBefore(store, start, count)
  <2>1. count \in 0 .. count
    BY <1>0
  <2> QED
    BY <1>7, <1>8, <2>1
<1> QED
  BY <1>1, <1>9
-----------------------------------------------------------------------------
\* The last batch completes the spill, and the cache or the first block of it
\* is what next() starts from.
LEMMA FinishSpillIInv ==
    ASSUME RowsFit, IInv, FinishSpill
    PROVE  IInv'
<1> DEFINE blocks == Append(write_buf, current_block)
<1>1. /\ left_input' = left_input /\ right_input' = right_input
      /\ left_pulled' = left_pulled /\ right_pulled' = right_pulled
      /\ current_block' = current_block /\ right_cache_idx' = right_cache_idx
      /\ right_block_idx' = right_block_idx
      /\ right_row_idx' = right_row_idx /\ current_left' = current_left
      /\ emitted' = emitted /\ ended' = ended
  BY DEF FinishSpill, inputVars, outVars
<1>2. /\ phase = "New" /\ right_pulled = Len(right_input) /\ right_input \in Seq(Fitting)
      /\ phase' = "Initialised" /\ flush_batch(blocks)
      /\ right_cache' = TryCache(disk', right_start_block', total_blocks')
      /\ right_buf' = IF right_cache' = NoCache
                      THEN RightBlock(disk', right_start_block', 0) ELSE right_buf
  BY InputRows DEF FinishSpill, IInv
<1>3. /\ current_block \in Packed /\ write_buf \in Seq(Packed)
      /\ Adjacent /\ blocks \in Seq(Packed) /\ Len(blocks) \in Nat \ {0}
  <2>1. Adjacent
    BY <1>2 DEF IInv, TypeOK, Spilling, BuffersMirrorDisk, Adjacent
  <2>2. current_block \in Packed /\ write_buf \in Seq(Packed)
    BY DEF IInv, TypeOK
  <2>3. blocks \in Seq(Packed) /\ Len(blocks) = Len(write_buf) + 1 /\ Len(write_buf) \in Nat
    BY <2>2
  <2> QED
    BY <2>1, <2>2, <2>3
<1> HIDE DEF blocks
<1>4. /\ Adjacent' /\ write_buf' = <<>> /\ total_blocks' = total_blocks + Len(blocks)
      /\ SpilledBlocks' = SpilledBlocks \o blocks
  BY <1>2, <1>3, FlushAppends
<1>5. DecodeBlocks(SpilledBlocks') = right_input
  <2>1. DecodeBlocks(SpilledBlocks \o blocks) = SubSeq(right_input, 1, right_pulled)
    BY <1>2 DEF IInv, SpillHoldsRightRows, blocks
  <2>2. SubSeq(right_input, 1, Len(right_input)) = right_input
    BY <1>2, SubSeqFull
  <2> QED
    BY <1>2, <1>4, <2>1, <2>2
<1>6. OnDisk(disk', right_start_block', total_blocks') /\ total_blocks' > 0
  BY <1>3, <1>4 DEF Adjacent, OnDisk
<1>7. RowsBefore(disk', right_start_block', total_blocks') = right_input
  BY <1>5 DEF RowsBefore, SpilledBlocks
<1>8. right_cache' \in {NoCache, Cached(right_input)}
  BY <1>2, <1>6, <1>7, CacheHoldsAll
<1>9. /\ right_cache_idx = 0 /\ right_block_idx = 0 /\ right_buf = <<>> /\ right_row_idx = 0
      /\ left_pulled = 0 /\ current_left = NoRow /\ emitted = <<>> /\ ~ended
  BY <1>2 DEF IInv, Spilling
<1>10. NextRows(disk', right_start_block', total_blocks', 0)
  <2>1. 0 < total_blocks'
    BY <1>6 DEF OnDisk
  <2> QED
    BY <1>6, <2>1, ScanOfBlocks
<1>11. /\ right_buf' \in Seq(Fitting) /\ Len(right_buf') \in Nat
       /\ right_cache' = NoCache => right_buf' = decode_block((SpilledBlocks')[0 + 1])
  <2>1. right_buf' \in Seq(Fitting)
    BY <1>2, <1>9, <1>10, EmptySeq DEF NextRows
  <2>2. right_cache' = NoCache => right_buf' = decode_block((SpilledBlocks')[0 + 1])
    BY <1>2, <1>10 DEF NextRows, SpilledBlocks
  <2> QED
    BY <2>1, <2>2, LenProperties
<1>12. TypeOK'
  <2>1. SoundDisk(disk', Packed) /\ right_start_block' \in Nat /\ total_blocks' \in Nat
    BY <1>6 DEF OnDisk
  <2>2. write_buf' \in Seq(Packed)
    BY <1>4, EmptySeq
  <2> HIDE DEF Packed, Fitting
  <2> QED
    BY <1>1, <1>2, <1>11, <2>1, <2>2 DEF IInv, TypeOK
<1>13. Spilling'
  BY <1>2 DEF Spilling
<1>14. Spilled'
  <2>1. Len(right_input) \in Nat
    BY <1>2, LenProperties
  <2> QED
    BY <1>1, <1>2, <1>6, <1>8, <1>9, <2>1 DEF Spilled
<1>15. OutputOK'
  <2>1. Product' = Product /\ \A p \in Product : ~(p[1] < 0) /\ p[1] # 0
    <3>1. DOMAIN left_input = 1 .. Len(left_input) /\ Len(left_input) \in Nat
      BY InputRows DEF IInv
    <3> QED
      BY <1>1, <3>1 DEF Product
  <2>2. ReturnedPairs' = {}
    BY <1>1, <1>9, <2>1 DEF ReturnedPairs, PairsUpTo
  <2>3. ToSet(emitted') = {}
    BY <1>1, <1>9 DEF ToSet
  <2> QED
    BY <1>1, <1>9, <2>2, <2>3 DEF OutputOK
<1>16. SpillHoldsRightRows'
  <2>1. SpilledBlocks' \in Seq(Packed)
    BY <1>6, ReadWritten DEF OnDisk, SpilledBlocks
  <2>2. SpilledBlocks' \o <<>> = SpilledBlocks'
    BY <2>1, ConcatEmptySeq
  <2>3. SubSeq(right_input, 1, Len(right_input)) = right_input
    BY <1>2, SubSeqFull
  <2> QED
    BY <1>1, <1>2, <1>5, <2>2, <2>3 DEF SpillHoldsRightRows
<1>17. BuffersMirrorDisk'
  <2>1. /\ Readable(disk', right_start_block', total_blocks')
        /\ 0 < total_blocks' /\ 0 \in 0 .. Len(right_buf')
    BY <1>6, <1>11 DEF OnDisk
  <2>2. right_cache' # NoCache => (CacheRows = DecodeBlocks(SpilledBlocks))'
    BY <1>5, <1>8 DEF CacheRows, Cached
  <2> QED
    BY <1>1, <1>9, <1>11, <2>1, <2>2 DEF BuffersMirrorDisk
<1> QED
  BY <1>12, <1>13, <1>14, <1>15, <1>16, <1>17 DEF IInv
-----------------------------------------------------------------------------
\* What the actions of the loop of next() start from.
Looping ==
    /\ phase = "Initialised" /\ ~ended
    /\ OnDisk(disk, right_start_block, total_blocks)
    /\ RowsBefore(disk, right_start_block, total_blocks) = right_input

\* It holds whenever the loop runs.
LEMMA LoopFacts ==
    ASSUME RowsFit, IInv, Running
    PROVE  Looping
<1>1. phase = "Initialised" /\ ~ended
  BY DEF Running
<1>2. OnDisk(disk, right_start_block, total_blocks)
  BY DEF IInv, TypeOK, BuffersMirrorDisk, OnDisk
<1>3. SpilledBlocks \in Seq(Packed)
  BY <1>2, ReadWritten DEF OnDisk, SpilledBlocks
<1>4. DecodeBlocks(SpilledBlocks \o <<>>) = SubSeq(right_input, 1, right_pulled)
  BY <1>1 DEF IInv, SpillHoldsRightRows
<1>5. right_pulled = Len(right_input) /\ right_input \in Seq(Fitting)
  BY <1>1, InputRows DEF IInv, Spilled
<1>6. SubSeq(right_input, 1, Len(right_input)) = right_input
  BY <1>5, SubSeqFull
<1>7. SpilledBlocks \o <<>> = SpilledBlocks
  BY <1>3, ConcatEmptySeq
<1> QED
  BY <1>1, <1>2, <1>4, <1>5, <1>6, <1>7 DEF Looping, RowsBefore, SpilledBlocks

\* The left row being paired is the last one pulled.
LEMMA CurrentLeft ==
    ASSUME RowsFit, IInv, Running
    PROVE  /\ left_pulled \in Nat /\ left_pulled <= Len(left_input)
           /\ current_left = NoRow => left_pulled = 0
           /\ current_left # NoRow =>
                  left_pulled \in 1 .. Len(left_input) /\ current_left.id = left_pulled
<1>1. /\ left_pulled \in 0 .. Len(left_input) /\ Len(left_input) \in Nat
      /\ \A i \in 1 .. Len(left_input) : left_input[i].id = i
  BY InputRows DEF IInv, TypeOK
<1>2. current_left = IF left_pulled = 0 THEN NoRow ELSE left_input[left_pulled]
  BY DEF IInv, Spilled, Running
<1>3. NoRow.id = 0
  BY DEF NoRow
<1>4. left_pulled # 0 => left_pulled \in 1 .. Len(left_input)
  BY <1>1
<1> QED
  BY <1>1, <1>2, <1>3, <1>4

\* Where the cursors are: with the cache, at a row of the right side; without
\* it, in the block right_block_idx names.
CursorOK ==
    /\ PairedRows \in Nat /\ PairedRows <= Len(right_input)
    /\ right_cache # NoCache =>
           CacheRows = right_input /\ PairedRows = right_cache_idx
    /\ right_cache = NoCache =>
           /\ right_block_idx \in Nat /\ right_block_idx < total_blocks
           /\ right_row_idx \in Nat /\ right_row_idx <= Len(right_buf)
           /\ right_buf = RightBlock(disk, right_start_block, right_block_idx)
           /\ NextRows(disk, right_start_block, total_blocks, right_block_idx)
           /\ Len(RowsBefore(disk, right_start_block, right_block_idx)) \in Nat
           /\ PairedRows = Len(RowsBefore(disk, right_start_block, right_block_idx))
                               + right_row_idx

\* It holds whenever the loop runs.
LEMMA CursorFacts ==
    ASSUME RowsFit, IInv, Running
    PROVE  CursorOK
<1>1. Looping
  BY LoopFacts
<1>2. right_input \in Seq(Fitting) /\ Len(right_input) \in Nat
  BY InputRows DEF IInv
<1>3. right_cache \in {NoCache, Cached(right_input)}
  BY DEF IInv, Spilled, Running
<1>4. CASE right_cache # NoCache
  <2>1. CacheRows = right_input
    BY <1>3, <1>4 DEF CacheRows, Cached
  <2>2. right_cache_idx \in Nat /\ right_cache_idx <= Len(right_input)
    BY <1>4 DEF IInv, Spilled, TypeOK, Running
  <2>3. PairedRows = right_cache_idx
    BY <1>4 DEF PairedRows
  <2> QED
    BY <1>4, <2>1, <2>2, <2>3 DEF CursorOK
<1>5. CASE right_cache = NoCache
  <2>1. /\ right_block_idx \in Nat /\ right_block_idx < total_blocks
        /\ right_buf = decode_block(SpilledBlocks[right_block_idx + 1])
        /\ right_row_idx \in 0 .. Len(right_buf) /\ right_buf \in Seq(Fitting)
    BY <1>5 DEF IInv, BuffersMirrorDisk, TypeOK
  <2>2. Len(right_buf) \in Nat
    BY <2>1, LenProperties
  <2>3. NextRows(disk, right_start_block, total_blocks, right_block_idx)
    BY <1>1, <2>1, ScanOfBlocks DEF Looping
  <2>4. right_buf = RightBlock(disk, right_start_block, right_block_idx)
    BY <2>1, <2>3 DEF NextRows, SpilledBlocks
  <2> DEFINE passed == RowsBefore(disk, right_start_block, right_block_idx)
  <2>5. Len(passed) \in Nat
    <3>1. /\ OnDisk(disk, right_start_block, total_blocks)
          /\ right_start_block \in Nat /\ total_blocks \in Nat
      BY <1>1 DEF Looping, OnDisk
    <3>2. /\ right_start_block <= right_start_block
          /\ right_start_block + right_block_idx <= right_start_block + total_blocks
      BY <2>1, <3>1
    <3>3. ReadsRows(disk, right_start_block, right_block_idx)
      BY <2>1, <3>1, <3>2, ReadPart
    <3> QED
      BY <3>3, LenProperties DEF ReadsRows
  <2>6. PairedRows = Len(passed) + right_row_idx
    BY <1>5 DEF PairedRows, RowsBefore
  <2>7. Len(passed) + Len(right_buf) <= Len(right_input)
    BY <1>1, <2>3, <2>4 DEF NextRows, Looping
  <2> HIDE DEF passed
  <2>8. PairedRows \in Nat /\ PairedRows <= Len(right_input)
    BY <1>2, <2>1, <2>2, <2>5, <2>6, <2>7
  <2>9. right_row_idx \in Nat /\ right_row_idx <= Len(right_buf)
    BY <2>1, <2>2
  <2> QED
    BY <1>5, <2>1, <2>3, <2>4, <2>5, <2>6, <2>8, <2>9 DEF CursorOK, passed
<1> QED
  BY <1>4, <1>5

\* The next pair of a left row: it is owed, and nothing owed precedes it.
LEMMA NextPair ==
    ASSUME RowsFit, TypeOK, NEW l \in 1 .. Len(left_input),
           NEW n \in Nat, n < Len(right_input)
    PROVE  /\ <<l, n + 1>> \in Product /\ <<l, n + 1>> \notin PairsUpTo(l, n)
           /\ PairsUpTo(l, n + 1) = PairsUpTo(l, n) \cup {<<l, n + 1>>}
           /\ \A q \in Product \ PairsUpTo(l, n) : ~PairPrecedes(q, <<l, n + 1>>)
<1>1. /\ Product = (1 .. Len(left_input)) \X (1 .. Len(right_input))
      /\ Len(left_input) \in Nat /\ Len(right_input) \in Nat
  BY InputRows DEF Product
<1>2. <<l, n + 1>> \in Product
  BY <1>1
<1>3. <<l, n + 1>> \notin PairsUpTo(l, n)
  <2>1. ~(l < l) /\ ~(n + 1 <= n)
    OBVIOUS
  <2> QED
    BY <2>1 DEF PairsUpTo
<1>4. ASSUME NEW p \in Product
      PROVE  p \in PairsUpTo(l, n + 1) <=> p \in PairsUpTo(l, n) \cup {<<l, n + 1>>}
  <2>1. PICK a \in 1 .. Len(left_input), b \in 1 .. Len(right_input) : p = <<a, b>>
    BY <1>1
  <2>2. b <= n + 1 <=> b <= n \/ b = n + 1
    BY <1>1
  <2>3. p \in PairsUpTo(l, n + 1) <=> a < l \/ (a = l /\ b <= n + 1)
    BY <2>1 DEF PairsUpTo
  <2>4. p \in PairsUpTo(l, n) <=> a < l \/ (a = l /\ b <= n)
    BY <2>1 DEF PairsUpTo
  <2>5. p = <<l, n + 1>> <=> a = l /\ b = n + 1
    BY <2>1
  <2> QED
    BY <2>2, <2>3, <2>4, <2>5
<1>5. PairsUpTo(l, n + 1) = PairsUpTo(l, n) \cup {<<l, n + 1>>}
  BY <1>2, <1>4 DEF PairsUpTo
<1>6. ASSUME NEW q \in Product, q \notin PairsUpTo(l, n), PairPrecedes(q, <<l, n + 1>>)
      PROVE  FALSE
  <2>1. PICK a \in 1 .. Len(left_input), b \in 1 .. Len(right_input) : q = <<a, b>>
    BY <1>1
  <2>2. a < l \/ (a = l /\ b < n + 1)
    BY <1>6, <2>1 DEF PairPrecedes
  <2>3. ~(a < l \/ (a = l /\ b <= n))
    BY <1>6, <2>1 DEF PairsUpTo
  <2> QED
    BY <1>1, <2>2, <2>3
<1> QED
  BY <1>2, <1>3, <1>5, <1>6

\* A left row paired with every right row is followed by the next left row.
LEMMA RowComplete ==
    ASSUME RowsFit, TypeOK, NEW l \in Nat, l <= Len(left_input), NEW n,
           l = 0 \/ n = Len(right_input)
    PROVE  /\ PairsUpTo(l + 1, 0) = PairsUpTo(l, n)
           /\ l = Len(left_input) => PairsUpTo(l, n) = Product
<1>1. /\ Product = (1 .. Len(left_input)) \X (1 .. Len(right_input))
      /\ Len(left_input) \in Nat /\ Len(right_input) \in Nat
  BY InputRows DEF Product
<1>2. ASSUME NEW p \in Product
      PROVE  /\ p \in PairsUpTo(l + 1, 0) <=> p \in PairsUpTo(l, n)
             /\ l = Len(left_input) => p \in PairsUpTo(l, n)
  <2>1. PICK a \in 1 .. Len(left_input), b \in 1 .. Len(right_input) : p = <<a, b>>
    BY <1>1
  <2>2. p \in PairsUpTo(l + 1, 0) <=> a < l + 1 \/ (a = l + 1 /\ b <= 0)
    BY <2>1 DEF PairsUpTo
  <2>3. p \in PairsUpTo(l, n) <=> a < l \/ (a = l /\ b <= n)
    BY <2>1 DEF PairsUpTo
  <2>4. ~(b <= 0) /\ (a < l + 1 <=> a < l \/ a = l) /\ a # 0 /\ b <= Len(right_input)
    BY <1>1
  <2>5. a = l => b <= n
    BY <2>4
  <2>6. l = Len(left_input) => a < l \/ a = l
    BY <1>1
  <2> QED
    BY <2>2, <2>3, <2>4, <2>5, <2>6
<1> QED
  BY <1>2 DEF PairsUpTo

\* The elements of a sequence and of one with an element more.
LEMMA ToSetAppend ==
    ASSUME NEW R, NEW s \in Seq(R), NEW e \in R
    PROVE  ToSet(Append(s, e)) = ToSet(s) \cup {e}
<1> DEFINE t == Append(s, e)
<1>1. PICK n \in Nat : n = Len(s)
  BY LenProperties
<1>2. /\ DOMAIN s = 1 .. n /\ DOMAIN t = 1 .. n + 1
      /\ \A i \in 1 .. n : t[i] = s[i]
      /\ t[n + 1] = e
  BY <1>1
<1> HIDE DEF t
<1>3. \A i \in 1 .. n + 1 : i \in 1 .. n \/ i = n + 1
  OBVIOUS
<1>4. (\A i \in 1 .. n : i \in 1 .. n + 1) /\ n + 1 \in 1 .. n + 1
  OBVIOUS
<1>5. {t[i] : i \in 1 .. n + 1} = {s[i] : i \in 1 .. n} \cup {e}
  BY <1>2, <1>3, <1>4
<1>6. ToSet(t) = ToSet(s) \cup {e}
  BY <1>2, <1>5 DEF ToSet
<1> QED
  BY <1>6 DEF t

\* What a call of next() that returns a row does, however it found the row.
Returns ==
    /\ Running /\ current_left # NoRow /\ PairedRows < Len(right_input)
    /\ Return(right_input[PairedRows + 1])
    /\ PairedRows' = PairedRows + 1
    /\ left_input' = left_input /\ right_input' = right_input
    /\ left_pulled' = left_pulled /\ ended' = ended

\* It returns the pair of the result that is due.
LEMMA ReturnsNextPair ==
    ASSUME RowsFit, IInv, Returns
    PROVE  /\ emitted' \in Seq(Nat \X Nat) /\ OutputOK' /\ Stream!Next
<1> DEFINE pair == <<left_pulled, PairedRows + 1>>
<1>1. Running /\ phase = "Initialised" /\ ~ended /\ TypeOK
  BY DEF Returns, Running, IInv
<1>2. left_pulled \in 1 .. Len(left_input) /\ current_left.id = left_pulled
  BY <1>1, CurrentLeft DEF Returns
<1>3. PairedRows \in Nat /\ PairedRows < Len(right_input)
  BY <1>1, CursorFacts DEF Returns, CursorOK
<1>4. right_input[PairedRows + 1].id = PairedRows + 1
  <2>1. \A i \in 1 .. Len(right_input) : right_input[i].id = i
    BY <1>1, InputRows
  <2>2. PairedRows + 1 \in 1 .. Len(right_input)
    BY <1>1, <1>3, InputRows
  <2> QED
    BY <2>1, <2>2, Zenon
<1>5. emitted' = Append(emitted, pair)
  BY <1>2, <1>4 DEF Returns, Return
<1>6. emitted \in Seq(Nat \X Nat) /\ pair \in Nat \X Nat
  BY <1>1, <1>2, <1>3, InputRows DEF TypeOK
<1>7. emitted' \in Seq(Nat \X Nat) /\ ToSet(emitted') = ToSet(emitted) \cup {pair}
  <2> HIDE DEF pair
  <2>1. Append(emitted, pair) \in Seq(Nat \X Nat)
    BY <1>6
  <2>2. ToSet(Append(emitted, pair)) = ToSet(emitted) \cup {pair}
    BY <1>6, ToSetAppend
  <2> QED
    BY <1>5, <2>1, <2>2
<1>8. ToSet(emitted) = PairsUpTo(left_pulled, PairedRows)
  BY <1>1 DEF IInv, OutputOK, ReturnedPairs
<1>9. /\ pair \in Product /\ pair \notin ToSet(emitted)
      /\ PairsUpTo(left_pulled, PairedRows + 1) = ToSet(emitted) \cup {pair}
      /\ \A q \in Product \ ToSet(emitted) : ~PairPrecedes(q, pair)
  BY <1>1, <1>2, <1>3, <1>8, NextPair
<1> HIDE DEF pair
<1>10. Product' = Product
  BY DEF Returns, Product
<1>11. OutputOK'
  <2>1. ReturnedPairs' = PairsUpTo(left_pulled, PairedRows + 1)
    BY <1>10 DEF Returns, ReturnedPairs, PairsUpTo
  <2> QED
    BY <1>1, <1>7, <1>9, <2>1 DEF Returns, OutputOK
<1>12. Stream!Next
  <2>1. (Product \ ToSet(emitted))' = (Product \ ToSet(emitted)) \ {pair}
    BY <1>7, <1>10
  <2>2. Stream!Emit(pair)
    BY <1>1, <1>5, <1>9, <2>1 DEF Stream!Emit, Returns
  <2> QED
    BY <1>9, <2>2 DEF Stream!Next
<1> QED
  BY <1>7, <1>11, <1>12

\* The next row of the cache.
LEMMA ReturnCachedIInv ==
    ASSUME RowsFit, IInv, ReturnCached
    PROVE  IInv' /\ Stream!Next
<1>1. /\ left_input' = left_input /\ right_input' = right_input
      /\ left_pulled' = left_pulled /\ right_pulled' = right_pulled /\ disk' = disk
      /\ phase' = phase /\ current_block' = current_block /\ write_buf' = write_buf
      /\ total_blocks' = total_blocks /\ right_start_block' = right_start_block
      /\ right_cache' = right_cache /\ right_block_idx' = right_block_idx
      /\ right_buf' = right_buf /\ right_row_idx' = right_row_idx
      /\ current_left' = current_left /\ ended' = ended
      /\ right_cache_idx' = right_cache_idx + 1
  BY DEF ReturnCached, inputVars, spillVars
<1>2. /\ Running /\ current_left # NoRow /\ right_cache # NoCache
      /\ right_cache_idx < Len(CacheRows) /\ Return(CacheRows[right_cache_idx + 1])
  BY DEF ReturnCached, HasCached
<1>3. CacheRows = right_input /\ PairedRows = right_cache_idx /\ right_cache_idx \in Nat
  BY <1>2, CursorFacts DEF CursorOK
<1>4. Returns
  <2>1. PairedRows' = PairedRows + 1
    BY <1>1, <1>2, <1>3 DEF PairedRows
  <2> QED
    BY <1>1, <1>2, <1>3, <2>1 DEF Returns
<1>5. emitted' \in Seq(Nat \X Nat) /\ OutputOK' /\ Stream!Next
  BY <1>4, ReturnsNextPair
<1>6. TypeOK'
  BY <1>1, <1>3, <1>5 DEF IInv, TypeOK
<1>7. Spilling' /\ Spilled'
  <2>1. Len(right_input) \in Nat
    BY InputRows DEF IInv
  <2>2. right_cache_idx + 1 <= Len(right_input)
    BY <1>2, <1>3, <2>1
  <2> QED
    BY <1>1, <1>2, <2>2 DEF IInv, Spilling, Spilled, Running
<1>8. SpillHoldsRightRows' /\ BuffersMirrorDisk'
  BY <1>1 DEF IInv, SpillHoldsRightRows, BuffersMirrorDisk, SpilledBlocks, Running, CacheRows
<1> QED
  BY <1>5, <1>6, <1>7, <1>8 DEF IInv

\* The next row of the buffered block.
LEMMA ReturnBufferedIInv ==
    ASSUME RowsFit, IInv, ReturnBuffered
    PROVE  IInv' /\ Stream!Next
<1>1. /\ left_input' = left_input /\ right_input' = right_input
      /\ left_pulled' = left_pulled /\ right_pulled' = right_pulled /\ disk' = disk
      /\ phase' = phase /\ current_block' = current_block /\ write_buf' = write_buf
      /\ total_blocks' = total_blocks /\ right_start_block' = right_start_block
      /\ right_cache' = right_cache /\ right_block_idx' = right_block_idx
      /\ right_buf' = right_buf /\ right_cache_idx' = right_cache_idx
      /\ current_left' = current_left /\ ended' = ended
      /\ right_row_idx' = right_row_idx + 1
  BY DEF ReturnBuffered, inputVars, spillVars
<1>2. /\ Running /\ current_left # NoRow /\ right_cache = NoCache
      /\ right_row_idx < Len(right_buf) /\ Return(right_buf[right_row_idx + 1])
  BY DEF ReturnBuffered, HasBuffered
<1> DEFINE passed == RowsBefore(disk, right_start_block, right_block_idx)
<1>3. /\ right_row_idx \in Nat /\ Len(passed) \in Nat
      /\ PairedRows = Len(passed) + right_row_idx
      /\ right_buf = RightBlock(disk, right_start_block, right_block_idx)
      /\ NextRows(disk, right_start_block, total_blocks, right_block_idx)
  BY <1>2, CursorFacts DEF CursorOK
<1>4. RowsBefore(disk, right_start_block, total_blocks) = right_input
  BY <1>2, LoopFacts DEF Looping
<1>5. /\ right_buf \in Seq(Fitting) /\ Len(passed) + Len(right_buf) <= Len(right_input)
      /\ \A i \in 1 .. Len(right_buf) : right_input[Len(passed) + i] = right_buf[i]
  BY <1>3, <1>4 DEF NextRows
<1> HIDE DEF passed
<1>6. Len(right_buf) \in Nat /\ Len(right_input) \in Nat
  BY <1>5, LenProperties, InputRows DEF IInv
<1>7. Returns
  <2>1. PairedRows < Len(right_input)
    BY <1>2, <1>3, <1>5, <1>6
  <2>2. right_input[PairedRows + 1] = right_buf[right_row_idx + 1]
    <3>1. /\ right_row_idx + 1 \in 1 .. Len(right_buf)
          /\ Len(passed) + (right_row_idx + 1) = PairedRows + 1
      BY <1>2, <1>3, <1>6
    <3> QED
      BY <1>5, <3>1
  <2>3. PairedRows' = PairedRows + 1
    <3>1. PairedRows' = Len(passed) + (right_row_idx + 1)
      BY <1>1, <1>2 DEF PairedRows, passed, RowsBefore
    <3> QED
      BY <1>3, <3>1
  <2> QED
    BY <1>1, <1>2, <2>1, <2>2, <2>3 DEF Returns
<1>8. emitted' \in Seq(Nat \X Nat) /\ OutputOK' /\ Stream!Next
  BY <1>7, ReturnsNextPair
<1>9. TypeOK'
  BY <1>1, <1>3, <1>8 DEF IInv, TypeOK
<1>10. Spilling' /\ Spilled'
  BY <1>1, <1>2 DEF IInv, Spilling, Spilled, Running
<1>11. SpillHoldsRightRows'
  BY <1>1 DEF IInv, SpillHoldsRightRows, SpilledBlocks
<1>12. BuffersMirrorDisk'
  <2>1. right_row_idx + 1 \in 0 .. Len(right_buf)
    BY <1>2, <1>3, <1>6
  <2> QED
    BY <1>1, <2>1 DEF IInv, BuffersMirrorDisk, SpilledBlocks, Running, CacheRows
<1> QED
  BY <1>8, <1>9, <1>10, <1>11, <1>12 DEF IInv

\* The block after the one used up: its rows come next.
LEMMA NextBlockIInv ==
    ASSUME RowsFit, IInv, NextBlock
    PROVE  /\ IInv'
           /\ UNCHANGED <<left_input, right_input, emitted, ended>>
<1>1. /\ left_input' = left_input /\ right_input' = right_input
      /\ left_pulled' = left_pulled /\ right_pulled' = right_pulled /\ disk' = disk
      /\ phase' = phase /\ current_block' = current_block /\ write_buf' = write_buf
      /\ total_blocks' = total_blocks /\ right_start_block' = right_start_block
      /\ right_cache' = right_cache /\ right_cache_idx' = right_cache_idx
      /\ current_left' = current_left /\ emitted' = emitted /\ ended' = ended
      /\ right_block_idx' = right_block_idx + 1 /\ right_row_idx' = 0
      /\ right_buf' = RightBlock(disk, right_start_block, right_block_idx + 1)
  BY DEF NextBlock, inputVars, spillVars, outVars
<1>2. /\ Running /\ right_cache = NoCache /\ right_block_idx + 1 < total_blocks
      /\ ~(right_row_idx < Len(right_buf))
  BY DEF NextBlock, HasMoreBlocks, HasBuffered
<1> DEFINE passed == RowsBefore(disk, right_start_block, right_block_idx)
<1>3. /\ right_block_idx \in Nat /\ right_row_idx \in Nat /\ Len(passed) \in Nat
      /\ right_row_idx <= Len(right_buf)
      /\ PairedRows = Len(passed) + right_row_idx
      /\ right_buf = RightBlock(disk, right_start_block, right_block_idx)
      /\ NextRows(disk, right_start_block, total_blocks, right_block_idx)
  BY <1>2, CursorFacts DEF CursorOK
<1>4. OnDisk(disk, right_start_block, total_blocks)
  BY <1>2, LoopFacts DEF Looping
<1>5. PICK k \in Nat : k = right_block_idx + 1
  BY <1>3
<1>6. NextRows(disk, right_start_block, total_blocks, k)
  <2>1. k < total_blocks
    BY <1>2, <1>5
  <2> QED
    BY <1>4, <2>1, ScanOfBlocks
<1>7. /\ right_buf' \in Seq(Fitting) /\ Len(right_buf') \in Nat
      /\ right_buf' = decode_block(SpilledBlocks[k + 1])
  <2>1. right_buf' \in Seq(Fitting) /\ right_buf' = decode_block(SpilledBlocks[k + 1])
    BY <1>1, <1>5, <1>6 DEF NextRows, SpilledBlocks
  <2> QED
    BY <2>1, LenProperties
<1>8. PairedRows' = PairedRows
  <2>1. right_row_idx = Len(right_buf) /\ Len(right_buf) \in Nat
    <3>1. Len(right_buf) \in Nat
      BY <1>3, LenProperties DEF NextRows
    <3> QED
      BY <1>2, <1>3, <3>1
  <2>2. Len(RowsBefore(disk, right_start_block, right_block_idx + 1))
            = Len(passed) + Len(right_buf)
    BY <1>3 DEF NextRows
  <2>3. PairedRows' = Len(RowsBefore(disk, right_start_block, right_block_idx + 1)) + 0
    BY <1>1, <1>2 DEF PairedRows, RowsBefore
  <2> QED
    BY <1>3, <2>1, <2>2, <2>3
<1>9. TypeOK'
  BY <1>1, <1>3, <1>7 DEF IInv, TypeOK
<1>10. Spilling' /\ Spilled'
  BY <1>1, <1>2 DEF IInv, Spilling, Spilled, Running
<1>11. OutputOK'
  BY <1>1, <1>8 DEF IInv, OutputOK, ReturnedPairs, PairsUpTo, Product
<1>12. SpillHoldsRightRows'
  BY <1>1 DEF IInv, SpillHoldsRightRows, SpilledBlocks
<1>13. BuffersMirrorDisk'
  <2>1. 0 \in 0 .. Len(right_buf') /\ SpilledBlocks' = SpilledBlocks
    BY <1>1, <1>7 DEF SpilledBlocks
  <2> QED
    BY <1>1, <1>2, <1>5, <1>7, <2>1 DEF IInv, BuffersMirrorDisk
<1> QED
  BY <1>1, <1>9, <1>10, <1>11, <1>12, <1>13 DEF IInv

\* A left row is left behind only when every right row has been paired with it.
LEMMA LeftRowDone ==
    ASSUME RowsFit, IInv, Running, NeedsLeft
    PROVE  left_pulled = 0 \/ PairedRows = Len(right_input)
<1> SUFFICES ASSUME left_pulled # 0 PROVE PairedRows = Len(right_input)
  OBVIOUS
<1>1. ~HasCached /\ ~HasBuffered /\ ~HasMoreBlocks
  BY CurrentLeft DEF NeedsLeft
<1>2. CursorOK /\ Looping
  BY CursorFacts, LoopFacts
<1>3. Len(right_input) \in Nat
  BY InputRows DEF IInv
<1>4. CASE right_cache # NoCache
  <2>1. ~(right_cache_idx < Len(CacheRows))
    BY <1>1, <1>4 DEF HasCached
  <2> QED
    BY <1>2, <1>3, <1>4, <2>1 DEF CursorOK
<1>5. CASE right_cache = NoCache
  <2>1. ~(right_row_idx < Len(right_buf)) /\ ~(right_block_idx + 1 < total_blocks)
    BY <1>1, <1>5 DEF HasBuffered, HasMoreBlocks
  <2> DEFINE passed == RowsBefore(disk, right_start_block, right_block_idx)
  <2>2. /\ right_block_idx \in Nat /\ right_row_idx \in Nat /\ Len(passed) \in Nat
        /\ right_row_idx <= Len(right_buf) /\ right_block_idx < total_blocks
        /\ PairedRows = Len(passed) + right_row_idx
        /\ right_buf = RightBlock(disk, right_start_block, right_block_idx)
        /\ NextRows(disk, right_start_block, total_blocks, right_block_idx)
    BY <1>2, <1>5 DEF CursorOK
  <2>3. total_blocks \in Nat
    BY <1>2 DEF Looping, OnDisk
  <2>4. right_block_idx + 1 = total_blocks
    BY <2>1, <2>2, <2>3
  <2>5. Len(RowsBefore(disk, right_start_block, right_block_idx + 1))
            = Len(passed) + Len(right_buf)
    BY <2>2 DEF NextRows
  <2>6. Len(right_buf) \in Nat
    BY <2>2, LenProperties DEF NextRows
  <2>7. right_row_idx = Len(right_buf)
    BY <2>1, <2>2, <2>6
  <2> QED
    BY <1>2, <2>2, <2>4, <2>5, <2>7 DEF Looping
<1> QED
  BY <1>4, <1>5

\* The next left row starts again at the first right row.
LEMMA NextLeftIInv ==
    ASSUME RowsFit, IInv, NextLeft
    PROVE  /\ IInv'
           /\ UNCHANGED <<left_input, right_input, emitted, ended>>
<1>1. /\ left_input' = left_input /\ right_input' = right_input
      /\ left_pulled' = left_pulled + 1 /\ right_pulled' = right_pulled /\ disk' = disk
      /\ phase' = phase /\ current_block' = current_block /\ write_buf' = write_buf
      /\ total_blocks' = total_blocks /\ right_start_block' = right_start_block
      /\ right_cache' = right_cache /\ emitted' = emitted /\ ended' = ended
      /\ current_left' = left_input[left_pulled + 1]
  BY DEF NextLeft, inputVars, spillVars, outVars
<1>2. Running /\ NeedsLeft /\ left_pulled < Len(left_input)
  BY DEF NextLeft
<1>3. /\ left_pulled \in Nat /\ Len(left_input) \in Nat
      /\ left_input \in Seq([id : Nat, len : Nat])
  BY <1>2, CurrentLeft, InputRows DEF IInv
<1>4. /\ left_pulled + 1 \in 0 .. Len(left_input) /\ left_pulled + 1 # 0
      /\ current_left' \in [id : Nat, len : Nat]
  <2>1. left_pulled + 1 \in 1 .. Len(left_input)
    BY <1>2, <1>3
  <2>2. left_input[left_pulled + 1] \in [id : Nat, len : Nat]
    BY <1>3, <2>1, ElementOfSeq
  <2> QED
    BY <1>1, <2>1, <2>2
<1>5. Looping
  BY <1>2, LoopFacts
<1>6. NextRows(disk, right_start_block, total_blocks, 0) /\ 0 < total_blocks
  <2>1. 0 < total_blocks
    BY <1>2 DEF IInv, Spilled, Running
  <2> QED
    BY <1>5, <2>1, ScanOfBlocks DEF Looping
<1>7. /\ right_cache # NoCache =>
             /\ right_cache_idx' = 0 /\ right_block_idx' = right_block_idx
             /\ right_buf' = right_buf /\ right_row_idx' = right_row_idx
      /\ right_cache = NoCache =>
             /\ right_block_idx' = 0 /\ right_row_idx' = 0
             /\ right_buf' = RightBlock(disk, right_start_block, 0)
             /\ right_cache_idx' = right_cache_idx
  BY DEF NextLeft
<1>8. /\ right_buf' \in Seq(Fitting) /\ Len(right_buf') \in Nat
      /\ right_row_idx' \in 0 .. Len(right_buf')
      /\ right_cache_idx' \in Nat /\ right_block_idx' \in Nat /\ right_row_idx' \in Nat
  <2>1. /\ right_buf \in Seq(Fitting) /\ right_row_idx \in 0 .. Len(right_buf)
        /\ right_cache_idx \in Nat /\ right_block_idx \in Nat /\ right_row_idx \in Nat
    BY DEF IInv, TypeOK, BuffersMirrorDisk
  <2>2. RightBlock(disk, right_start_block, 0) \in Seq(Fitting)
    BY <1>6 DEF NextRows
  <2>3. right_buf' \in Seq(Fitting)
    BY <1>7, <2>1, <2>2
  <2>4. Len(right_buf') \in Nat
    BY <2>3, LenProperties
  <2> QED
    BY <1>7, <2>1, <2>3, <2>4
<1>9. PairedRows' = 0
  <2>1. CASE right_cache # NoCache
    BY <1>1, <1>7, <2>1 DEF PairedRows
  <2>2. CASE right_cache = NoCache
    <3>1. RowsBefore(disk, right_start_block, 0) = <<>>
      BY <1>5, FirstRows DEF Looping
    <3> QED
      BY <1>1, <1>7, <2>2, <3>1 DEF PairedRows, RowsBefore
  <2> QED
    BY <2>1, <2>2
<1>10. TypeOK'
  BY <1>1, <1>4, <1>8 DEF IInv, TypeOK
<1>11. Spilling' /\ Spilled'
  <2>1. Len(right_input) \in Nat
    BY InputRows DEF IInv
  <2>2. right_cache # NoCache => 0 <= Len(right_input)
    BY <2>1
  <2> QED
    BY <1>1, <1>2, <1>4, <1>7, <2>2 DEF IInv, Spilling, Spilled, Running
<1>12. OutputOK'
  <2>1. PairsUpTo(left_pulled + 1, 0) = PairsUpTo(left_pulled, PairedRows)
    BY <1>2, <1>3, LeftRowDone, RowComplete DEF IInv
  <2>2. ReturnedPairs' = PairsUpTo(left_pulled + 1, 0)
    BY <1>1, <1>9 DEF ReturnedPairs, PairsUpTo, Product
  <2> QED
    BY <1>1, <1>2, <2>1, <2>2 DEF IInv, OutputOK, ReturnedPairs, Running
<1>13. SpillHoldsRightRows'
  BY <1>1 DEF IInv, SpillHoldsRightRows, SpilledBlocks
<1>14. BuffersMirrorDisk'
  <2>1. SpilledBlocks' = SpilledBlocks
    BY <1>1 DEF SpilledBlocks
  <2>2. RightBlock(disk, right_start_block, 0) = decode_block(SpilledBlocks[0 + 1])
    BY <1>6 DEF NextRows, SpilledBlocks
  <2> QED
    BY <1>1, <1>2, <1>6, <1>7, <1>8, <2>1, <2>2
       DEF IInv, BuffersMirrorDisk, Running, CacheRows
<1> QED
  BY <1>1, <1>10, <1>11, <1>12, <1>13, <1>14 DEF IInv

\* After the last left row the whole product has been returned.
LEMMA EndOfLeftIInv ==
    ASSUME RowsFit, IInv, EndOfLeft
    PROVE  IInv' /\ Stream!Next
<1>1. /\ left_input' = left_input /\ right_input' = right_input
      /\ left_pulled' = left_pulled /\ right_pulled' = right_pulled /\ disk' = disk
      /\ phase' = phase /\ current_block' = current_block /\ write_buf' = write_buf
      /\ total_blocks' = total_blocks /\ right_start_block' = right_start_block
      /\ right_cache' = right_cache /\ right_cache_idx' = right_cache_idx
      /\ right_buf' = right_buf /\ right_row_idx' = right_row_idx
      /\ emitted' = emitted /\ current_left' = NoRow /\ ended' = TRUE
      /\ right_block_idx' \in {right_block_idx, right_block_idx + 1}
  BY DEF EndOfLeft, inputVars, spillVars
<1>2. Running /\ NeedsLeft /\ left_pulled = Len(left_input)
  BY DEF EndOfLeft
<1>3. left_pulled \in Nat /\ left_pulled <= Len(left_input)
  BY <1>2, CurrentLeft
<1>4. PairsUpTo(left_pulled, PairedRows) = Product
  BY <1>2, <1>3, LeftRowDone, RowComplete DEF IInv
<1>5. ToSet(emitted) = Product
  BY <1>2, <1>4 DEF IInv, OutputOK, ReturnedPairs, Running
<1>6. Product' = Product
  BY <1>1 DEF Product
<1>7. TypeOK'
  <2>1. right_block_idx' \in Nat /\ NoRow \in [id : Nat, len : Nat]
    BY <1>1 DEF IInv, TypeOK, NoRow
  <2> QED
    BY <1>1, <2>1 DEF IInv, TypeOK
<1>8. Spilling' /\ Spilled'
  BY <1>1, <1>2 DEF IInv, Spilling, Spilled, Running
<1>9. OutputOK'
  BY <1>1, <1>5, <1>6 DEF OutputOK
<1>10. SpillHoldsRightRows'
  BY <1>1 DEF IInv, SpillHoldsRightRows, SpilledBlocks
<1>11. BuffersMirrorDisk'
  BY <1>1 DEF IInv, BuffersMirrorDisk, Running
<1>12. Stream!Next
  <2>1. Product \ ToSet(emitted) = {} /\ (Product \ ToSet(emitted))' = {}
    BY <1>1, <1>5, <1>6
  <2>2. Stream!Finish
    BY <1>1, <2>1 DEF Stream!Finish
  <2> QED
    BY <2>2 DEF Stream!Next
<1> QED
  BY <1>7, <1>8, <1>9, <1>10, <1>11, <1>12 DEF IInv
-----------------------------------------------------------------------------
\* A step of the loop that returns nothing is not seen by the caller.
LEMMA SilentStep ==
    ASSUME UNCHANGED <<left_input, right_input, emitted, ended>>
    PROVE  UNCHANGED Stream!vars
BY DEF Stream!vars, Product

\* Every step keeps the invariant, and is a step of the promise of next() or
\* none at all.
LEMMA CrossStep ==
    ASSUME RowsFit, IInv, [Next]_vars
    PROVE  IInv' /\ [Stream!Next]_Stream!vars
<1>1. CASE UNCHANGED vars
  <2>1. UNCHANGED <<left_input, right_input, emitted, ended>>
    BY <1>1 DEF vars, inputVars, outVars
  <2>2. /\ left_pulled' = left_pulled /\ right_pulled' = right_pulled /\ disk' = disk
        /\ phase' = phase /\ current_block' = current_block /\ write_buf' = write_buf
        /\ total_blocks' = total_blocks /\ right_start_block' = right_start_block
        /\ right_cache' = right_cache /\ right_cache_idx' = right_cache_idx
        /\ right_block_idx' = right_block_idx /\ right_buf' = right_buf
        /\ right_row_idx' = right_row_idx /\ current_left' = current_left
    BY <1>1 DEF vars, spillVars, cursorVars
  <2>3. TypeOK' /\ Spilling' /\ Spilled'
    BY <2>1, <2>2 DEF IInv, TypeOK, Spilling, Spilled
  <2>4. OutputOK'
    BY <2>1, <2>2 DEF IInv, OutputOK, ReturnedPairs, PairsUpTo, PairedRows, Product
  <2>5. SpillHoldsRightRows' /\ BuffersMirrorDisk'
    BY <2>1, <2>2
       DEF IInv, SpillHoldsRightRows, BuffersMirrorDisk, SpilledBlocks, Running, CacheRows
  <2> QED
    BY <2>1, <2>3, <2>4, <2>5, SilentStep DEF IInv
<1>2. CASE ChildSpill
  BY <1>2, ChildSpillIInv, SilentStep DEF ChildSpill, inputVars, outVars
<1>3. CASE SpillRow
  BY <1>3, SpillRowIInv, SilentStep DEF SpillRow, inputVars, outVars
<1>4. CASE FinishSpill
  BY <1>4, FinishSpillIInv, SilentStep DEF FinishSpill, inputVars, outVars
<1>5. CASE ReturnCached
  BY <1>5, ReturnCachedIInv
<1>6. CASE ReturnBuffered
  BY <1>6, ReturnBufferedIInv
<1>7. CASE NextBlock
  BY <1>7, NextBlockIInv, SilentStep
<1>8. CASE NextLeft
  BY <1>8, NextLeftIInv, SilentStep
<1>9. CASE EndOfLeft
  BY <1>9, EndOfLeftIInv
<1>10. CASE Stopped
  BY <1>1, <1>10 DEF Stopped
<1> QED
  BY <1>1, <1>2, <1>3, <1>4, <1>5, <1>6, <1>7, <1>8, <1>9, <1>10 DEF Next

\* The invariant is inductive.
LEMMA CrossInvariance ==
    ASSUME RowsFit
    PROVE  Spec => []IInv
<1>1. Init => IInv
  BY InitIInv
<1>2. IInv /\ [Next]_vars => IInv'
  BY CrossStep
<1> QED
  BY <1>1, <1>2, PTL DEF Spec

\* What is spilled of the right side, with what is still to be written, is what
\* has been read of it: no row is lost or reordered, whatever the batch size is
\* and whatever the children spill before and after.
THEOREM CrossSpillHoldsRightRows ==
    ASSUME RowsFit
    PROVE  Spec => []SpillHoldsRightRows
BY CrossInvariance, PTL DEF IInv

\* The cache and the buffered block are what is on the disk, no block is read
\* that was not written, and no cursor leaves what it indexes.
THEOREM CrossBuffersMirrorDisk ==
    ASSUME RowsFit
    PROVE  Spec => []BuffersMirrorDisk
BY CrossInvariance, PTL DEF IInv

\* The cross product keeps the promise of Operator::next: it returns the pairs
\* of the product of its children's streams, in order, each once, and then None.
THEOREM CrossImplementsStream ==
    ASSUME RowsFit
    PROVE  Spec => Stream!Spec
<1>1. Init => Stream!Init
  <2> SUFFICES ASSUME Init PROVE Stream!Init
    OBVIOUS
  <2>1. IInv
    BY InitIInv
  <2>2. Product \in SUBSET ((Nat \ {0}) \X (Nat \ {0}))
    <3>1. Product = (1 .. Len(left_input)) \X (1 .. Len(right_input))
      BY <2>1, InputRows DEF IInv, Product
    <3>2. Len(left_input) \in Nat /\ Len(right_input) \in Nat
      BY <2>1, InputRows DEF IInv
    <3> QED
      BY <3>1, <3>2
  <2> QED
    BY <2>2 DEF Init, Stream!Init
<1>2. IInv /\ [Next]_vars => [Stream!Next]_Stream!vars
  BY CrossStep
<1> QED
  BY <1>1, <1>2, CrossInvariance, PTL DEF Spec, Stream!Spec
=============================================================================
