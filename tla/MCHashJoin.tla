----------------------------- MODULE MCHashJoin ------------------------------
(* Instances of HashJoin for TLC.                                            *)
EXTENDS HashJoin

CONSTANTS MaxLeft, MaxRight, Keys

\* The first row fills a block, and rows of the key 1 need less memory.
RowOf(i, key) == [id |-> i, key |-> key, len |-> IF i = 1 THEN 4 ELSE 2,
                  mem |-> IF key = 1 THEN 1 ELSE 2]

Streams(n) ==
    UNION {{[i \in 1 .. m |-> RowOf(i, keys[i])] : keys \in [1 .. m -> Keys]} : m \in 0 .. n}

MCRows == {RowOf(i, key) : i \in 1 .. Max({MaxLeft, MaxRight}), key \in Keys}

MCLeftInputs == Streams(MaxLeft)
MCRightInputs == Streams(MaxRight)
MCHashPartition(key) == key % NUM_PARTITIONS
=============================================================================
