----------------------------- MODULE MCGenerator ------------------------------
(* Instances of Generator for TLC.                                           *)
EXTENDS Generator

MCColumns == <<"Float32", "String">>
MCNumberBytes == [Int32 |-> 2, Int64 |-> 3, Float32 |-> 2, Float64 |-> 3]
MCMantissaBits == [Float32 |-> 1, Float64 |-> 2]

Float(neg, mag) == [type |-> "Float32", neg |-> neg, mag |-> mag]
String(bytes) == [type |-> "String", bytes |-> bytes]
NaN == Float(FALSE, 7)

\* The numbers 0, 1, 2, 3, 4, 6 of Float32 are 0 .. 4, 6 of Float64; the text of
\* the largest is read as the number above it.
MCReread ==
    [x \in Data("Float32") |->
        [type |-> "Float64", neg |-> x.neg, mag |-> IF x.mag = 5 THEN 7 ELSE x.mag]]

\* Lines of two fields: rows of 4 and 5 bytes.
Ordinary == {<<Float(TRUE, 2), String(<<1>>)>>, <<Float(FALSE, 0), String(<<2, 1>>)>>,
             <<Float(FALSE, 5), String(<<2>>)>>}

\* A NaN, a minus zero, a NUL and a quote in a string, a field too many, a last field
\* that is empty, a first one that is, a blank line, a row as long as a block, and a
\* longer one.
Special == {<<NaN, String(<<1>>)>>, <<Float(TRUE, 0), String(<<1>>)>>,
            <<Float(FALSE, 0), String(<<0, 1>>)>>, <<Float(FALSE, 0), String(<<3>>)>>,
            <<Float(FALSE, 5), String(<<2>>), String(<<1>>)>>, <<Float(FALSE, 5), EmptyText>>,
            <<EmptyText, String(<<1>>)>>, <<>>,
            <<Float(FALSE, 2), String(<<1, 1, 1, 1, 1, 1, 1, 1, 1, 1>>)>>,
            <<Float(FALSE, 2), String(<<1, 1, 1, 1, 1, 1, 1, 1, 1, 1, 1>>)>>}

MCFields == UNION {Range(line) : line \in Ordinary \cup Special}

MCTables ==
    {table \in BoundedSeq(Ordinary \cup Special, 4) :
        \A i, j \in DOMAIN table : table[i] \in Special /\ table[j] \in Special => i = j}
=============================================================================
