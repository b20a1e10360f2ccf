-------------------------------- MODULE Values -------------------------------
(* The values of rows (common/src/lib.rs), how filters compare them          *)
(* (executor/filter.rs) and when a hash join takes them for equal (row.rs).  *)
(* Numbers are as in the code but narrower: digits of ByteBase values        *)
(* instead of bytes, and few of them.  A value is                            *)
(*    [type |-> "Int32" or "Int64", v |-> integer],                          *)
(*    [type |-> "Float32" or "Float64", neg |-> sign bit, mag |-> the other  *)
(*     bits], or [type |-> "String", bytes |-> the UTF-8 bytes].             *)
EXTENDS Integers, Sequences, SequencesExt

CONSTANTS ByteBase,         \* values of a byte
          NumberBytes,      \* by type: the bytes of a number
          MantissaBits,     \* by floating-point type
          One               \* the number 1, in units of the smallest float

Integral == {"Int32", "Int64"}
Floating == {"Float32", "Float64"}
DataTypes == Integral \cup Floating \cup {"String"}

\* base to the n; the provers know nothing of ^.
Power(base, n) ==
    LET power[k \in 0 .. n] == IF k = 0 THEN 1 ELSE base * power[k - 1]
    IN  power[n]

Width(type) == Power(ByteBase, NumberBytes[type])
SignBit(type) == Width(type) \div 2

\* The values of a type.
Data(type) ==
    CASE type \in Integral -> [type : {type}, v : 0 - SignBit(type) .. SignBit(type) - 1]
      [] type \in Floating -> [type : {type}, neg : BOOLEAN, mag : 0 .. SignBit(type) - 1]
      [] type = "String"   -> [type : {type}, bytes : Seq(0 .. ByteBase - 1)]

\* A magnitude with all exponent bits set is infinity, or a NaN above it.
Infinity(type) == SignBit(type) - Power(2, MantissaBits[type])
IsNaN(x) == x.type \in Floating /\ x.mag > Infinity(x.type)
MinusZero(x) == x.type \in Floating /\ x.neg /\ x.mag = 0
HasNul(x) == x.type = "String" /\ 0 \in ToSet(x.bytes)

\* What a finite magnitude stands for: subnormals, then mantissas with a hidden bit.
Magnitude(type, mag) ==
    LET hidden == Power(2, MantissaBits[type])
        exponent == mag \div hidden
    IN  IF exponent = 0 THEN mag ELSE (hidden + (mag % hidden)) * Power(2, exponent - 1)

\* Float64 has room for the other types, and there are exponents.
ASSUME ValuesAssumption ==
    /\ ByteBase \in Nat \ {0} /\ ByteBase % 2 = 0 /\ One \in Nat \ {0}
    /\ \A type \in Integral \cup Floating : NumberBytes[type] \in Nat \ {0}
    /\ \A type \in Floating : MantissaBits[type] \in Nat \ {0} /\ Infinity(type) > 0
    /\ \A type \in Integral : SignBit(type) * One < Magnitude("Float64", Infinity("Float64"))
    /\ Magnitude("Float32", Infinity("Float32")) <= Magnitude("Float64", Infinity("Float64"))

\* The exact value of a number that is not a NaN, in units; infinity is past the
\* largest of both types.
Exact(x) ==
    IF x.type \in Integral THEN x.v * One
    ELSE LET size == IF x.mag = Infinity(x.type)
                     THEN Magnitude("Float64", Infinity("Float64"))
                     ELSE Magnitude(x.type, x.mag)
         IN  IF x.neg THEN 0 - size ELSE size

\* Vec<u8> and String compare lexicographically.
BytesLess(s, t) ==
    \E i \in 1 .. Len(t) :
        /\ i <= Len(s) + 1
        /\ \A j \in 1 .. i - 1 : s[j] = t[j]
        /\ i <= Len(s) => s[i] < t[i]

Less(x, y) == IF x.type = "String" THEN BytesLess(x.bytes, y.bytes) ELSE Exact(x) < Exact(y)

\* Data::partial_cmp: only values of one type have an order, and NaNs have none.
partial_cmp(x, y) ==
    CASE x.type # y.type \/ IsNaN(x) \/ IsNaN(y) -> "None"
      [] OTHER -> IF Less(x, y) THEN "Less" ELSE IF Less(y, x) THEN "Greater" ELSE "Equal"

\* Data::eq: within one type, and never true of a NaN.
eq(x, y) == partial_cmp(x, y) = "Equal"
-----------------------------------------------------------------------------
\* The Float64 nearest to n units; of two, the one with an even mantissa.
Nearest(n) ==
    LET size == IF n < 0 THEN 0 - n ELSE n
        Value(mag) == Magnitude("Float64", mag)
        below == CHOOSE mag \in 0 .. Infinity("Float64") - 1 :
                     Value(mag) <= size /\ size < Value(mag + 1)
        up == Value(below + 1) - size < size - Value(below)
        tie == Value(below + 1) - size = size - Value(below)
    IN  [type |-> "Float64", neg |-> n < 0,
         mag |-> IF up \/ (tie /\ below % 2 = 1) THEN below + 1 ELSE below]

\* `as f64`: exact for Int32 and Float32.
to_f64(x) ==
    CASE x.type = "Float64" -> x
      [] x.type = "Float32" /\ x.mag >= Infinity("Float32") ->
             [type |-> "Float64", neg |-> x.neg,
              mag |-> Infinity("Float64") + x.mag - Infinity("Float32")]
      [] x.type = "Float32" /\ x.mag < Infinity("Float32") ->
             [Nearest(Exact(x)) EXCEPT !.neg = x.neg]
      [] x.type \in Integral -> Nearest(Exact(x))

Numeric(x) == x.type # "String"

\* A variant of data_cmp without the first attempt.
CoercedCmp(x, y) ==
    IF Numeric(x) /\ Numeric(y) THEN partial_cmp(to_f64(x), to_f64(y)) ELSE partial_cmp(x, y)

data_cmp(x, y) ==
    IF partial_cmp(x, y) # "None" THEN partial_cmp(x, y)
    ELSE IF Numeric(x) /\ Numeric(y) THEN partial_cmp(to_f64(x), to_f64(y)) ELSE "None"

data_eq(x, y) ==
    \/ eq(x, y)
    \/ Numeric(x) /\ Numeric(y) /\ eq(to_f64(x), to_f64(y))

Operators == {"EQ", "NE", "GT", "GTE", "LT", "LTE"}

evaluate_predicate(operator, lhs, rhs) ==
    CASE operator = "EQ"  -> data_eq(lhs, rhs)
      [] operator = "NE"  -> ~data_eq(lhs, rhs)
      [] operator = "GT"  -> data_cmp(lhs, rhs) = "Greater"
      [] operator = "GTE" -> data_cmp(lhs, rhs) \in {"Greater", "Equal"}
      [] operator = "LT"  -> data_cmp(lhs, rhs) = "Less"
      [] operator = "LTE" -> data_cmp(lhs, rhs) \in {"Less", "Equal"}
-----------------------------------------------------------------------------
to_bits(x) == IF x.type \in Integral THEN x.v % Width(x.type)
              ELSE (IF x.neg THEN SignBit(x.type) ELSE 0) + x.mag

\* A variant of DataKey that looks at the magnitude of a float only.
UnsignedKey(x) == IF x.type = "String" THEN <<x.type, x.bytes>>
                  ELSE <<x.type, IF x.type \in Floating THEN x.mag ELSE to_bits(x)>>

\* DataKey: equal if the types and the bits are.
DataKey(x) == IF x.type = "String" THEN <<x.type, x.bytes>> ELSE <<x.type, to_bits(x)>>

make_join_key(row, indices) == [i \in DOMAIN indices |-> DataKey(row[indices[i]])]
=============================================================================
