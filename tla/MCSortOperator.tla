--------------------------- MODULE MCSortOperator ----------------------------
(* Instances of SortOperator for TLC.  A row is made of a key and a shape:   *)
(* the bytes it takes encoded (`len`) and decoded (`mem`).                   *)
EXTENDS SortOperator

CONSTANTS MaxRows, Keys, Shapes

MCRowLess(r, s) == r.cols < s.cols
MCSortKey(r) == r.cols
MCKeyLess(k, l) == k < l

RowOf(i, key, shape) == [id |-> i, cols |-> key, len |-> shape[1], mem |-> shape[2]]

MCRows == {RowOf(i, key, shape) : i \in 1 .. MaxRows, key \in Keys, shape \in Shapes}

MCInputs ==
    UNION {{[i \in 1 .. n |-> RowOf(i, kinds[i][1], kinds[i][2])] :
               kinds \in [1 .. n -> Keys \X Shapes]} : n \in 0 .. MaxRows}

\* usable is 4: rows of half a block and of a block, and one that never fits.
\* A full block takes exactly twice its size in memory.
MixedShapes == {<<2, 6>>, <<4, 12>>, <<5, 15>>}
=============================================================================
