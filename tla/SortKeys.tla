------------------------------- MODULE SortKeys ------------------------------
(* The two orders an external sort relies on (executor/sort.rs): runs are    *)
(* sorted in memory by compare_by_specs, and merged by the unsigned order of *)
(* the byte keys encode_sort_key builds.  A row is the sequence of its       *)
(* values.                                                                   *)
EXTENDS Values

\* partial_cmp(..).unwrap_or(Equal) of one column, in the spec's direction.
ColumnLess(x, y, spec) ==
    partial_cmp(x[spec.column], y[spec.column]) = IF spec.ascending THEN "Less" ELSE "Greater"

\* compare_by_specs(x, y) = Less: the first column that tells them apart decides.
compare_by_specs_less(x, y, specs) ==
    \E i \in DOMAIN specs :
        /\ ColumnLess(x, y, specs[i])
        /\ \A j \in 1 .. i - 1 : ~ColumnLess(x, y, specs[j]) /\ ~ColumnLess(y, x, specs[j])
-----------------------------------------------------------------------------
\* The bytes of a number of this type, the most significant first.
to_be_bytes(n, type) ==
    [i \in 1 .. NumberBytes[type] |->
        (n \div Power(ByteBase, NumberBytes[type] - i)) % ByteBase]

Complement(bytes) == [i \in DOMAIN bytes |-> ByteBase - 1 - bytes[i]]

FlipSign(bits, type) == (bits + SignBit(type)) % Width(type)

\* A variant without the terminator: a prefix no longer precedes its extensions
\* once another column follows.
UnterminatedKey(bytes) == bytes

StringKey(bytes) == Append(bytes, 0)

NumberKey(x) == IF x.type \in Floating /\ x.neg THEN Width(x.type) - 1 - to_bits(x)
                ELSE FlipSign(to_bits(x), x.type)

AscendingKey(x) == IF x.type = "String" THEN StringKey(x.bytes)
                   ELSE to_be_bytes(NumberKey(x), x.type)

encode_key_value(x, ascending) ==
    IF ascending THEN AscendingKey(x) ELSE Complement(AscendingKey(x))

encode_sort_key(x, specs) ==
    FoldLeft(LAMBDA key, spec : key \o encode_key_value(x[spec.column], spec.ascending),
             <<>>, specs)
=============================================================================
