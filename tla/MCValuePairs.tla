---------------------------- MODULE MCValuePairs -----------------------------
(* Instances of ValuePairs for TLC: two-column rows over a few values of     *)
(* every type, with the limits of the integers, integers that a Float64      *)
(* rounds (9 is half-way between 8 and 10), zeros of both signs, infinities  *)
(* and NaNs.                                                                 *)
EXTENDS ValuePairs

MCNumberBytes == [Int32 |-> 2, Int64 |-> 3, Float32 |-> 2, Float64 |-> 3]
MCMantissaBits == [Float32 |-> 1, Float64 |-> 2]

ValuesOf(type) ==
    CASE type = "Int32"   -> [type : {type}, v : {-8, -7, -1, 0, 1, 7}]
      [] type = "Int64"   -> [type : {type}, v : {-32, -9, -1, 0, 1, 8, 9, 31}]
      [] type = "Float32" -> [type : {type}, neg : BOOLEAN, mag : {0, 1, 2, 5, 6, 7}]
      [] type = "Float64" -> [type : {type}, neg : BOOLEAN, mag : {0, 2, 7, 12, 28, 29}]
      [] type = "String"  -> [type : {type}, bytes : {<<>>, <<1>>, <<1, 0>>, <<1, 2>>, <<2>>}]

MCSchemas ==
    {<<"Int32", "String">>, <<"String", "Float64">>, <<"Int64", "Float64">>, <<"Float32", "Int64">>}

MCIntegerSchemas == {<<"Int32", "Int64">>}

MCIntegerRowsOf(types) ==
    {<<[type |-> types[1], v |-> m], [type |-> types[2], v |-> n]>> : m, n \in -8 .. 7}

MCRowsOf(types) == {<<x, y>> : x \in ValuesOf(types[1]), y \in ValuesOf(types[2])}

MCSortSpecs ==
    {<<[column |-> c, ascending |-> c = 2 \/ d], [column |-> 3 - c, ascending |-> ~d]>> :
        c \in 1 .. 2, d \in BOOLEAN}
=============================================================================
