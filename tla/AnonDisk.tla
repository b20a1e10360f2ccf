------------------------------ MODULE AnonDisk -------------------------------
(* The anonymous region of the disk as the operators of one query use it     *)
(* through their shared DiskManager (database/src/disk.rs): a bump allocator *)
(* on the client side, and block storage on the side of the simulator.       *)
(* A disk is a record: `pages` maps every block written so far to its        *)
(* contents, `next_anon_block` is the allocator's cursor.                    *)
EXTENDS Naturals, Sequences

CONSTANT AnonStart      \* what the disk answers to `get anon-start-block`

ASSUME AnonStartAssumption == AnonStart \in Nat

NewDisk == [pages |-> <<>>, next_anon_block |-> AnonStart]

\* A variant that reserves one block too few.
AllocOneLess(disk, count) ==
    [disk EXCEPT !.next_anon_block = @ + count - 1]

alloc_anon_blocks(disk, count) ==
    [disk EXCEPT !.next_anon_block = @ + count]

write_blocks(disk, start, blocks) ==
    LET written == start .. start + Len(blocks) - 1
    IN  [disk EXCEPT !.pages =
            [b \in DOMAIN @ \cup written |->
                IF b \in written THEN blocks[b - start + 1] ELSE @[b]]]

\* The pair of calls with which every operator spills: allocate as many blocks
\* as the data fills, then write the data at the start the allocator returned.
Spill(disk, blocks) ==
    write_blocks(alloc_anon_blocks(disk, Len(blocks)), disk.next_anon_block, blocks)

\* The simulator answers only for blocks that were written.
Readable(disk, start, count) == start .. start + count - 1 \subseteq DOMAIN disk.pages

read_blocks(disk, start, count) ==
    [i \in 1 .. count |-> disk.pages[start + i - 1]]
=============================================================================
