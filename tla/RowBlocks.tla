------------------------------ MODULE RowBlocks ------------------------------
(* How rows are laid out in the blocks of the disk (database/src/row.rs).    *)
(* A row is a record: `id` says which row of its stream it is, `cols` holds  *)
(* its column values, `len` is encode_row(row).len() and `mem` the estimate  *)
(* estimate_row_bytes gives for it.  The bytes of a block are abstracted to  *)
(* the rows copied into it, in order, and the counter in its last two bytes. *)
EXTENDS Naturals, Sequences, SequencesExt

CONSTANT BlockSize      \* bytes of a disk block

ASSUME BlockSizeAssumption == BlockSize \in Nat /\ BlockSize > 2

CountBytes == 2         \* the u16 row counter that ends every block
CountLimit == 65536     \* the values a u16 can hold

usable == BlockSize - CountBytes

EmptyBlock == [rows |-> <<>>, row_count |-> 0]

\* The `offset` cursor of the packing loops: bytes already used in the block.
offset(block) == FoldLeft(LAMBDA used, row : used + row.len, 0, block.rows)

AddRow(block, row) ==
    [rows |-> Append(block.rows, row),
     row_count |-> (block.row_count + 1) % CountLimit]

\* One iteration of the packing loop.  The last block is the current one.
PackRow(blocks, row) ==
    IF offset(Last(blocks)) + row.len > usable
    THEN Append(blocks, AddRow(EmptyBlock, row))
    ELSE Append(Front(blocks), AddRow(Last(blocks), row))

\* A variant that refuses a row which fills its block exactly.
PackableStrict(rows) == \A i \in DOMAIN rows : rows[i].len < usable

\* The assertion rows_to_blocks makes of every row it is given.
Packable(rows) == \A i \in DOMAIN rows : rows[i].len <= usable

rows_to_blocks(rows) == FoldLeft(PackRow, <<EmptyBlock>>, rows)

\* A row whose bytes run into the counter loses its tail when the counter is
\* written over it.  What the decoder makes of the rest (other values, or a panic)
\* is not modelled: it stands for all of that, and is no row of the stream.
Garbled(row) == [row EXCEPT !.id = 0]

decode_block(block) ==
    [i \in 1 .. block.row_count |->
        IF offset(block) > usable /\ i = Len(block.rows)
        THEN Garbled(block.rows[i])
        ELSE block.rows[i]]

DecodeBlocks(blocks) ==
    FoldLeft(LAMBDA rows, block : rows \o decode_block(block), <<>>, blocks)

\* The estimates of estimate_row_bytes for some rows, added up.
MemoryOf(rows) == FoldLeft(LAMBDA sum, row : sum + row.mem, 0, rows)
=============================================================================
