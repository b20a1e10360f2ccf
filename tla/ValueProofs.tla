----------------------------- MODULE ValueProofs -----------------------------
(* What holds of the values of rows, for every width of the numbers and      *)
(* every table.                                                              *)
EXTENDS ValuePairs, Generator, RowBlocksProofs, FiniteSetTheorems

-----------------------------------------------------------------------------
(* The numbers.                                                              *)

IsPower(g, base, n) == g = [k \in 0 .. n |-> IF k = 0 THEN 1 ELSE base * g[k - 1]]

\* The recursive function that Power is defined by exists.
LEMMA PowerExists ==
    ASSUME NEW base, NEW n \in Nat
    PROVE  \E g : IsPower(g, base, n) /\ Power(base, n) = g[n]
<1> DEFINE T == {m \in Nat : \E g : IsPower(g, base, m)}
<1>1. 0 \in T
  <2>1. [k \in 0 .. 0 |-> 1]
            = [k \in 0 .. 0 |-> IF k = 0 THEN 1 ELSE base * [j \in 0 .. 0 |-> 1][k - 1]]
    OBVIOUS
  <2> QED
    BY <2>1 DEF IsPower
<1>2. ASSUME NEW m \in Nat, m \in T PROVE m + 1 \in T
  <2>1. PICK g : IsPower(g, base, m)
    BY <1>2
  <2> DEFINE h == [k \in 0 .. m + 1 |-> IF k \in 0 .. m THEN g[k] ELSE base * g[m]]
  <2>2. /\ \A k \in 0 .. m : h[k] = g[k]
        /\ h[m + 1] = base * g[m]
        /\ h = [k \in 0 .. m + 1 |-> h[k]]
    OBVIOUS
  <2> HIDE DEF h
  <2>3. ASSUME NEW k \in 0 .. m + 1
        PROVE  h[k] = IF k = 0 THEN 1 ELSE base * h[k - 1]
    <3>1. CASE k \in 0 .. m
      <4>1. g[k] = IF k = 0 THEN 1 ELSE base * g[k - 1]
        BY <2>1, <3>1 DEF IsPower
      <4>2. k # 0 => k - 1 \in 0 .. m
        BY <3>1
      <4> QED
        BY <2>2, <3>1, <4>1, <4>2
    <3>2. CASE k = m + 1
      <4>1. k - 1 = m /\ m \in 0 .. m /\ k # 0
        BY <3>2
      <4> QED
        BY <2>2, <3>2, <4>1
    <3> QED
      BY <3>1, <3>2
  <2>4. h = [k \in 0 .. m + 1 |-> IF k = 0 THEN 1 ELSE base * h[k - 1]]
    BY <2>2, <2>3
  <2>5. m + 1 \in Nat
    OBVIOUS
  <2> QED
    BY <2>4, <2>5 DEF IsPower
<1> HIDE DEF T
<1>3. n \in T
  BY <1>1, <1>2, SetInduction
<1> DEFINE power == CHOOSE g : g = [k \in 0 .. n |-> IF k = 0 THEN 1 ELSE base * g[k - 1]]
<1>4. \E g : g = [k \in 0 .. n |-> IF k = 0 THEN 1 ELSE base * g[k - 1]]
  BY <1>3 DEF T, IsPower
<1>5. power = [k \in 0 .. n |-> IF k = 0 THEN 1 ELSE base * power[k - 1]]
  BY <1>4, Zenon
<1>6. Power(base, n) = power[n]
  BY Zenon DEF Power
<1> QED
  BY <1>5, <1>6 DEF IsPower

\* There is only one.
LEMMA PowerUnique ==
    ASSUME NEW base, NEW m \in Nat, NEW n \in Nat, m <= n,
           NEW f, IsPower(f, base, m), NEW g, IsPower(g, base, n)
    PROVE  f[m] = g[m]
<1> DEFINE T == {k \in Nat : k <= m => f[k] = g[k]}
<1>1. 0 \in T
  BY DEF IsPower
<1>2. ASSUME NEW k \in Nat, k \in T PROVE k + 1 \in T
  <2> SUFFICES ASSUME k + 1 <= m PROVE f[k + 1] = g[k + 1]
    OBVIOUS
  <2>1. f[k] = g[k] /\ k + 1 \in 0 .. m /\ k + 1 \in 0 .. n /\ (k + 1) - 1 = k /\ k + 1 # 0
    BY <1>2
  <2>2. f[k + 1] = base * f[k] /\ g[k + 1] = base * g[k]
    BY <2>1 DEF IsPower
  <2> QED
    BY <2>1, <2>2
<1> HIDE DEF T
<1>3. m \in T
  BY <1>1, <1>2, SetInduction
<1> QED
  BY <1>3 DEF T

\* The powers of a base, one from the other.
LEMMA PowerNext ==
    ASSUME NEW base, NEW n \in Nat
    PROVE  Power(base, 0) = 1 /\ Power(base, n + 1) = base * Power(base, n)
<1>1. PICK f : IsPower(f, base, 0) /\ Power(base, 0) = f[0]
  BY PowerExists
<1>2. PICK g : IsPower(g, base, n) /\ Power(base, n) = g[n]
  BY PowerExists
<1>3. PICK h : IsPower(h, base, n + 1) /\ Power(base, n + 1) = h[n + 1]
  BY PowerExists
<1>4. f[0] = 1
  BY <1>1 DEF IsPower
<1>5. g[n] = h[n]
  BY <1>2, <1>3, PowerUnique
<1>6. h[n + 1] = base * h[n]
  BY <1>3 DEF IsPower
<1> QED
  BY <1>1, <1>2, <1>3, <1>4, <1>5, <1>6

\* A power of a number that is not zero is not zero.
LEMMA PowerType ==
    ASSUME NEW base \in Nat \ {0}, NEW n \in Nat
    PROVE  Power(base, n) \in Nat \ {0}
<1> DEFINE T == {k \in Nat : Power(base, k) \in Nat \ {0}}
<1>1. 0 \in T
  BY PowerNext
<1>2. ASSUME NEW k \in Nat, k \in T PROVE k + 1 \in T
  <2>1. PICK p \in Nat \ {0} : p = Power(base, k)
    BY <1>2
  <2>2. Power(base, k + 1) = base * p
    BY <2>1, PowerNext
  <2>3. base * p \in Nat \ {0}
    OBVIOUS
  <2> QED
    BY <2>2, <2>3
<1> HIDE DEF T
<1>3. n \in T
  BY <1>1, <1>2, SetInduction
<1> QED
  BY <1>3 DEF T

\* Quotient and remainder.
LEMMA Division ==
    ASSUME NEW n \in Nat, NEW d \in Nat \ {0}
    PROVE  /\ n \div d \in Nat /\ n % d \in 0 .. d - 1
           /\ n = d * (n \div d) + (n % d)
  OBVIOUS

\* The quotient and the remainder are the numbers that add up like them.
LEMMA DivisionIs ==
    ASSUME NEW q \in Nat, NEW r \in Nat, NEW d \in Nat \ {0}, r < d
    PROVE  (d * q + r) \div d = q /\ (d * q + r) % d = r
<1> DEFINE n == d * q + r
<1>1. n \in Nat
  OBVIOUS
<1> HIDE DEF n
<1>2. n \div d \in Nat /\ n % d \in 0 .. d - 1 /\ n = d * (n \div d) + (n % d)
  BY <1>1, Division
<1> DEFINE p == n \div d
           s == n % d
<1>3. p \in Nat /\ s \in 0 .. d - 1 /\ d * p + s = d * q + r
  BY <1>2 DEF n
<1> HIDE DEF p, s
<1>4. ~(p < q)
  <2> SUFFICES ASSUME p < q PROVE FALSE
    OBVIOUS
  <2>1. p + 1 <= q
    BY <1>3
  <2>2. d * (p + 1) <= d * q
    BY <1>3, <2>1
  <2>3. d * (p + 1) = d * p + d
    BY <1>3
  <2> QED
    BY <1>3, <2>2, <2>3
<1>5. ~(q < p)
  <2> SUFFICES ASSUME q < p PROVE FALSE
    OBVIOUS
  <2>1. q + 1 <= p
    BY <1>3
  <2>2. d * (q + 1) <= d * p
    BY <1>3, <2>1
  <2>3. d * (q + 1) = d * q + d
    OBVIOUS
  <2> QED
    BY <1>3, <2>2, <2>3
<1>6. p = q
  BY <1>3, <1>4, <1>5
<1>7. s = r
  BY <1>3, <1>6
<1> QED
  BY <1>6, <1>7 DEF p, s, n
-----------------------------------------------------------------------------
(* The widths and magnitudes of the numbers.                                 *)

Numbers == Integral \cup Floating

\* Half of the bit patterns of a number have the sign bit.
LEMMA WidthFacts ==
    ASSUME NEW type \in Numbers
    PROVE  /\ SignBit(type) \in Nat \ {0}
           /\ Width(type) = 2 * SignBit(type)
<1>1. ByteBase \in Nat \ {0} /\ ByteBase % 2 = 0 /\ NumberBytes[type] \in Nat \ {0}
  BY ValuesAssumption DEF Numbers
<1>2. PICK n \in Nat : NumberBytes[type] = n + 1
  <2>1. NumberBytes[type] = (NumberBytes[type] - 1) + 1 /\ NumberBytes[type] - 1 \in Nat
    BY <1>1
  <2> QED
    BY <2>1
<1>3. PICK half \in Nat \ {0} : ByteBase = 2 * half
  <2> DEFINE half == ByteBase \div 2
  <2>1. half \in Nat /\ ByteBase = 2 * half /\ half # 0
    BY <1>1
  <2> QED
    BY <2>1
<1>4. PICK p \in Nat \ {0} : p = Power(ByteBase, n)
  BY <1>1, PowerType
<1>5. Width(type) = 2 * (half * p)
  <2>1. Width(type) = ByteBase * p
    BY <1>1, <1>2, <1>4, PowerNext DEF Width
  <2>2. (2 * half) * p = 2 * (half * p)
    OBVIOUS
  <2> QED
    BY <1>3, <2>1, <2>2
<1>6. half * p \in Nat \ {0}
  OBVIOUS
<1>7. PICK s \in Nat \ {0} : Width(type) = 2 * s
  BY <1>5, <1>6
<1>8. (2 * s) \div 2 = s
  OBVIOUS
<1>9. SignBit(type) = s
  BY <1>7, <1>8 DEF SignBit
<1> QED
  BY <1>7, <1>9

\* The smallest magnitude with a hidden bit.
Hidden(type) == Power(2, MantissaBits[type])

\* The magnitudes of a type: infinity is below the bit of the sign.
LEMMA HiddenType ==
    ASSUME NEW type \in Floating
    PROVE  /\ Hidden(type) \in Nat \ {0}
           /\ Infinity(type) \in Nat \ {0}
           /\ Infinity(type) < SignBit(type)
<1>1. MantissaBits[type] \in Nat /\ Infinity(type) > 0 /\ type \in Numbers
  BY ValuesAssumption DEF Numbers
<1>2. Hidden(type) \in Nat \ {0}
  BY <1>1, PowerType DEF Hidden
<1>3. SignBit(type) \in Nat
  BY <1>1, WidthFacts
<1>4. Infinity(type) = SignBit(type) - Hidden(type)
  BY DEF Infinity, Hidden
<1> QED
  BY <1>1, <1>2, <1>3, <1>4

\* A magnitude by its exponent and mantissa.
LEMMA MagnitudeAt ==
    ASSUME NEW type \in Floating, NEW q \in Nat, NEW r \in Nat, r < Hidden(type)
    PROVE  Magnitude(type, Hidden(type) * q + r) =
               IF q = 0 THEN r ELSE (Hidden(type) + r) * Power(2, q - 1)
<1>1. PICK d \in Nat \ {0} : d = Hidden(type)
  BY HiddenType
<1>2. (d * q + r) \div d = q /\ (d * q + r) % d = r
  BY <1>1, DivisionIs
<1>3. Magnitude(type, d * q + r) =
          IF q = 0 THEN d * q + r ELSE (d + r) * Power(2, q - 1)
  BY <1>1, <1>2, Zenon DEF Magnitude, Hidden
<1>4. q = 0 => d * q + r = r
  OBVIOUS
<1> QED
  BY <1>1, <1>3, <1>4

\* Magnitudes are numbers, and the next one is more.
LEMMA MagnitudeStep ==
    ASSUME NEW type \in Floating, NEW n \in Nat
    PROVE  /\ Magnitude(type, n) \in Nat
           /\ Magnitude(type, n) < Magnitude(type, n + 1)
           /\ Magnitude(type, 0) = 0
<1>1. PICK d \in Nat \ {0} : d = Hidden(type)
  BY HiddenType
<1>2. PICK q \in Nat, r \in Nat : n = d * q + r /\ r < d
  <2>1. n \div d \in Nat /\ n % d \in 0 .. d - 1 /\ n = d * (n \div d) + (n % d)
    BY Division
  <2>2. n % d \in Nat /\ n % d < d
    BY <2>1
  <2> QED
    BY <2>1, <2>2
<1>3. PICK p \in Nat \ {0} : p = Power(2, q)
  BY PowerType
<1>4. ASSUME q # 0
      PROVE  \E half \in Nat \ {0} : Power(2, q - 1) = half /\ p = 2 * half
  <2>1. q - 1 \in Nat /\ (q - 1) + 1 = q
    BY <1>4
  <2>2. PICK half \in Nat \ {0} : Power(2, q - 1) = half
    BY <2>1, PowerType
  <2>3. p = 2 * half
    BY <1>3, <2>1, <2>2, PowerNext
  <2> QED
    BY <2>2, <2>3
<1>5. Magnitude(type, n) = IF q = 0 THEN r ELSE (d + r) * Power(2, q - 1)
  BY <1>1, <1>2, MagnitudeAt
<1>6. Magnitude(type, n) \in Nat
  <2>1. CASE q = 0
    BY <1>2, <1>5, <2>1
  <2>2. CASE q # 0
    <3>1. PICK half \in Nat \ {0} : Power(2, q - 1) = half
      BY <1>4, <2>2
    <3>2. Magnitude(type, n) = (d + r) * half
      BY <1>5, <2>2, <3>1
    <3>3. (d + r) * half \in Nat
      OBVIOUS
    <3> QED
      BY <3>2, <3>3
  <2> QED
    BY <2>1, <2>2
<1>7. ASSUME r + 1 < d PROVE Magnitude(type, n) < Magnitude(type, n + 1)
  <2>1. n + 1 = d * q + (r + 1)
    BY <1>2
  <2>2. Magnitude(type, n + 1) = IF q = 0 THEN r + 1 ELSE (d + (r + 1)) * Power(2, q - 1)
    BY <1>1, <1>7, <2>1, MagnitudeAt
  <2>3. CASE q = 0
    BY <1>5, <2>2, <2>3
  <2>4. CASE q # 0
    <3>1. PICK half \in Nat \ {0} : Power(2, q - 1) = half
      BY <1>4, <2>4
    <3>2. (d + (r + 1)) * half = (d + r) * half + half
      OBVIOUS
    <3>3. (d + r) * half \in Nat
      OBVIOUS
    <3> QED
      BY <1>5, <2>2, <2>4, <3>1, <3>2, <3>3
  <2> QED
    BY <2>3, <2>4
<1>8. ASSUME r + 1 = d PROVE Magnitude(type, n) < Magnitude(type, n + 1)
  <2>1. n + 1 = d * (q + 1) + 0
    BY <1>2, <1>8
  <2>2. Magnitude(type, n + 1) = (d + 0) * Power(2, (q + 1) - 1)
    BY <1>1, <2>1, MagnitudeAt
  <2>3. Magnitude(type, n + 1) = d * p
    BY <1>3, <2>2
  <2>4. CASE q = 0
    <3>1. p = 1
      BY <1>3, <2>4, PowerNext
    <3> QED
      BY <1>5, <1>8, <2>3, <2>4, <3>1
  <2>5. CASE q # 0
    <3>1. PICK half \in Nat \ {0} : Power(2, q - 1) = half /\ p = 2 * half
      BY <1>4, <2>5
    <3>2. d * (2 * half) = (d + r) * half + half
      <4>1. d + r = (2 * d) - 1
        BY <1>8
      <4>2. ((2 * d) - 1) * half = (2 * d) * half - half
        OBVIOUS
      <4>3. (2 * d) * half = d * (2 * half)
        OBVIOUS
      <4>4. (2 * d) * half \in Int
        OBVIOUS
      <4> QED
        BY <4>1, <4>2, <4>3, <4>4
    <3>3. (d + r) * half \in Nat
      OBVIOUS
    <3> QED
      BY <1>5, <2>3, <2>5, <3>1, <3>2, <3>3
  <2> QED
    BY <2>4, <2>5
<1>9. Magnitude(type, 0) = 0
  <2>1. Magnitude(type, d * 0 + 0) = 0
    BY <1>1, MagnitudeAt
  <2>2. d * 0 + 0 = 0
    OBVIOUS
  <2> QED
    BY <2>1, <2>2
<1> QED
  BY <1>2, <1>6, <1>7, <1>8, <1>9

\* A function of the numbers that grows at every step grows.
LEMMA Increasing ==
    ASSUME NEW f, \A n \in Nat : f[n] \in Nat /\ f[n] < f[n + 1],
           NEW m \in Nat, NEW n \in Nat
    PROVE  f[m] < f[n] <=> m < n
<1> DEFINE T == {k \in Nat : \A i \in Nat : i < k => f[i] < f[k]}
<1>1. 0 \in T
  OBVIOUS
<1>2. ASSUME NEW k \in Nat, k \in T PROVE k + 1 \in T
  <2>1. ASSUME NEW i \in Nat, i < k + 1 PROVE f[i] < f[k + 1]
    <3>1. i = k \/ i < k
      BY <2>1
    <3>2. f[i] \in Nat /\ f[k] \in Nat /\ f[k + 1] \in Nat /\ f[k] < f[k + 1]
      OBVIOUS
    <3>3. i < k => f[i] < f[k]
      BY <1>2
    <3> QED
      BY <3>1, <3>2, <3>3
  <2> QED
    BY <2>1
<1> HIDE DEF T
<1>3. m \in T /\ n \in T
  BY <1>1, <1>2, SetInduction
<1>4. (m < n => f[m] < f[n]) /\ (n < m => f[n] < f[m]) /\ f[m] \in Nat /\ f[n] \in Nat
  BY <1>3 DEF T
<1> QED
  BY <1>4

\* What a float stands for grows with its bits, and different bits stand for
\* different numbers.
LEMMA MagnitudeGrows ==
    ASSUME NEW type \in Floating, NEW m \in Nat, NEW n \in Nat
    PROVE  /\ Magnitude(type, m) \in Nat
           /\ Magnitude(type, m) < Magnitude(type, n) <=> m < n
           /\ Magnitude(type, m) = Magnitude(type, n) <=> m = n
           /\ Magnitude(type, 0) = 0
<1> DEFINE f == [k \in Nat |-> Magnitude(type, k)]
<1>1. \A k \in Nat : f[k] \in Nat /\ f[k] < f[k + 1]
  BY MagnitudeStep
<1>2. f[m] = Magnitude(type, m) /\ f[n] = Magnitude(type, n)
  OBVIOUS
<1> HIDE DEF f
<1>3. (f[m] < f[n] <=> m < n) /\ (f[n] < f[m] <=> n < m)
  BY <1>1, Increasing
<1>4. Magnitude(type, 0) = 0 /\ f[m] \in Nat /\ f[n] \in Nat
  BY <1>1, MagnitudeStep
<1> QED
  BY <1>2, <1>3, <1>4
-----------------------------------------------------------------------------
(* Exact values.                                                             *)

Top == Magnitude("Float64", Infinity("Float64"))

Size(type, mag) == IF mag = Infinity(type) THEN Top ELSE Magnitude(type, mag)

\* A larger magnitude that is not a NaN stands for a larger number.
LEMMA SizeGrows ==
    ASSUME NEW type \in Floating, NEW m \in 0 .. Infinity(type), NEW n \in 0 .. Infinity(type)
    PROVE  /\ Size(type, m) \in Nat /\ Size(type, m) <= Top /\ Top \in Nat
           /\ m # Infinity(type) => Size(type, m) < Top
           /\ Size(type, m) < Size(type, n) <=> m < n
           /\ Size(type, m) = Size(type, n) <=> m = n
           /\ Size(type, m) = 0 <=> m = 0
<1>1. PICK i \in Nat \ {0} : i = Infinity(type)
  BY HiddenType
<1>2. m \in Nat /\ n \in Nat /\ m <= i /\ n <= i
  BY <1>1
<1>3. Top \in Nat
  <2>1. "Float64" \in Floating
    BY DEF Floating
  <2> QED
    BY <2>1, HiddenType, MagnitudeGrows DEF Top
<1>4. Magnitude(type, i) \in Nat /\ Magnitude(type, i) <= Top
  <2>1. Magnitude(type, i) \in Nat
    BY MagnitudeGrows
  <2>2. type = "Float32" \/ type = "Float64"
    BY DEF Floating
  <2>3. Magnitude("Float32", Infinity("Float32")) <= Top
    BY ValuesAssumption DEF Top
  <2> QED
    BY <1>1, <1>3, <2>1, <2>2, <2>3 DEF Top
<1>5. \A k \in Nat : k < i => Magnitude(type, k) \in Nat /\ Magnitude(type, k) < Top
  <2> TAKE k \in Nat
  <2>1. Magnitude(type, k) \in Nat /\ (k < i => Magnitude(type, k) < Magnitude(type, i))
    BY MagnitudeGrows
  <2> QED
    BY <1>3, <1>4, <2>1
<1>6. (Magnitude(type, m) < Magnitude(type, n) <=> m < n)
      /\ (Magnitude(type, m) = Magnitude(type, n) <=> m = n)
  BY <1>2, MagnitudeGrows
<1>7. /\ Size(type, m) = IF m = i THEN Top ELSE Magnitude(type, m)
      /\ Size(type, n) = IF n = i THEN Top ELSE Magnitude(type, n)
  BY <1>1 DEF Size
<1>8. /\ Magnitude(type, 0) = 0
      /\ Magnitude(type, 0) < Magnitude(type, m) <=> 0 < m
      /\ Magnitude(type, m) \in Nat
  BY <1>2, MagnitudeGrows
<1>9. 0 < Top
  BY <1>1, <1>3, <1>5, MagnitudeGrows
<1>10. /\ m < i => Magnitude(type, m) \in Nat /\ Magnitude(type, m) < Top
       /\ n < i => Magnitude(type, n) \in Nat /\ Magnitude(type, n) < Top
  BY <1>2, <1>5
<1> QED
  BY <1>1, <1>2, <1>3, <1>6, <1>7, <1>8, <1>9, <1>10

\* What is known of a value from its type.
LEMMA IntegerFacts ==
    ASSUME NEW type \in Integral, NEW x \in Data(type)
    PROVE  /\ x.type = type /\ x.v \in 0 - SignBit(type) .. SignBit(type) - 1
           /\ x.v \in Int
           /\ ~IsNaN(x) /\ ~MinusZero(x) /\ Numeric(x)
           /\ Exact(x) = x.v * One /\ Exact(x) \in Int
           /\ 0 - Top < Exact(x) /\ Exact(x) < Top
<1>1. type \in {"Int32", "Int64"} /\ type \in Numbers
  BY DEF Integral, Numbers
<1>2. x.type = type /\ x.v \in 0 - SignBit(type) .. SignBit(type) - 1
  <2>1. Data(type) = [type : {type}, v : 0 - SignBit(type) .. SignBit(type) - 1]
    BY <1>1 DEF Data, Integral, Floating
  <2> QED
    BY <2>1
<1>3. PICK s \in Nat \ {0} : s = SignBit(type)
  BY <1>1, WidthFacts
<1>4. x.v \in Int /\ 0 - s <= x.v /\ x.v <= s - 1
  BY <1>2, <1>3
<1>5. One \in Nat \ {0} /\ s * One < Top
  BY <1>3, ValuesAssumption DEF Top
<1>6. Top \in Nat
  <2>1. "Float64" \in Floating
    BY DEF Floating
  <2> QED
    BY <2>1, HiddenType, MagnitudeGrows DEF Top
<1>7. Exact(x) = x.v * One
  BY <1>2 DEF Exact
<1>8. x.v * One \in Int /\ 0 - (s * One) <= x.v * One /\ x.v * One <= s * One
  <2>1. PICK v \in Int, u \in Nat \ {0} : v = x.v /\ u = One
    BY <1>4, <1>5
  <2>2. 0 <= (s - v) * u /\ (s - v) * u = s * u - v * u
    <3>1. s - v \in Nat
      BY <1>4, <2>1
    <3> QED
      BY <3>1
  <2>3. 0 <= (s + v) * u /\ (s + v) * u = s * u + v * u
    <3>1. s + v \in Nat
      BY <1>4, <2>1
    <3> QED
      BY <3>1
  <2>4. s * u \in Int /\ v * u \in Int
    OBVIOUS
  <2> QED
    BY <2>1, <2>2, <2>3, <2>4
<1>9. s * One \in Int
  BY <1>5
<1>10. ~IsNaN(x) /\ ~MinusZero(x) /\ Numeric(x)
  BY <1>1, <1>2 DEF IsNaN, MinusZero, Numeric, Floating
<1> QED
  BY <1>2, <1>4, <1>5, <1>6, <1>7, <1>8, <1>9, <1>10

\* The parts of a float, and which floats are NaNs and which is minus zero.
LEMMA FloatFacts ==
    ASSUME NEW type \in Floating, NEW x \in Data(type)
    PROVE  /\ x.type = type /\ x.neg \in BOOLEAN /\ x.mag \in 0 .. SignBit(type) - 1
           /\ x.mag \in Nat /\ Numeric(x)
           /\ IsNaN(x) <=> x.mag > Infinity(type)
           /\ MinusZero(x) <=> x.neg /\ x.mag = 0
           /\ ~IsNaN(x) => x.mag \in 0 .. Infinity(type)
           /\ Exact(x) = IF x.neg THEN 0 - Size(type, x.mag) ELSE Size(type, x.mag)
<1>1. type \in {"Float32", "Float64"} /\ type \in Numbers
  BY DEF Floating, Numbers
<1>2. x.type = type /\ x.neg \in BOOLEAN /\ x.mag \in 0 .. SignBit(type) - 1
  <2>1. Data(type) = [type : {type}, neg : BOOLEAN, mag : 0 .. SignBit(type) - 1]
    BY <1>1 DEF Data, Integral, Floating
  <2> QED
    BY <2>1
<1>3. SignBit(type) \in Nat /\ Infinity(type) \in Nat
  BY <1>1, WidthFacts, HiddenType
<1>4. IsNaN(x) <=> x.mag > Infinity(type)
  BY <1>2 DEF IsNaN
<1>5. x.mag \in Nat /\ (~IsNaN(x) => x.mag \in 0 .. Infinity(type))
  BY <1>2, <1>3, <1>4
<1>6. MinusZero(x) <=> x.neg /\ x.mag = 0
  BY <1>2 DEF MinusZero
<1>7. Exact(x) = IF x.neg THEN 0 - Size(type, x.mag) ELSE Size(type, x.mag)
  <2>1. x.type \notin Integral
    BY <1>1, <1>2 DEF Integral
  <2> QED
    BY <1>2, <2>1, Zenon DEF Exact, Size, Top
<1>8. Numeric(x)
  BY <1>1, <1>2 DEF Numeric
<1> QED
  BY <1>2, <1>4, <1>5, <1>6, <1>7, <1>8

\* Every number that is not a NaN has an exact value, between the infinities.
LEMMA ExactType ==
    ASSUME NEW type \in Numbers, NEW x \in Data(type), ~IsNaN(x)
    PROVE  Exact(x) \in Int /\ 0 - Top <= Exact(x) /\ Exact(x) <= Top /\ Top \in Nat
<1>0. Top \in Nat
  <2>1. "Float64" \in Floating
    BY DEF Floating
  <2> QED
    BY <2>1, HiddenType, MagnitudeGrows DEF Top
<1>1. CASE type \in Integral
  BY <1>0, <1>1, IntegerFacts
<1>2. CASE type \in Floating
  <2>1. x.mag \in 0 .. Infinity(type) /\ x.neg \in BOOLEAN
    BY <1>2, FloatFacts
  <2>2. PICK n \in Nat : n = Size(type, x.mag) /\ n <= Top
    BY <1>2, <2>1, SizeGrows
  <2>3. Exact(x) = IF x.neg THEN 0 - n ELSE n
    BY <1>2, <2>2, FloatFacts
  <2> QED
    BY <1>0, <2>2, <2>3
<1> QED
  BY <1>1, <1>2 DEF Numbers
-----------------------------------------------------------------------------
(* Strings of bytes.                                                         *)

Bytes == Seq(0 .. ByteBase - 1)

\* The strings differ first at a position both have.
Below(s, t) ==
    \E i \in 1 .. Len(s) :
        /\ i \in 1 .. Len(t)
        /\ \A j \in 1 .. i - 1 : s[j] = t[j]
        /\ s[i] < t[i]

\* There is a byte.
LEMMA ByteBaseType == ByteBase \in Nat \ {0}
  BY ValuesAssumption

\* The bytes of a string are numbers.
LEMMA BytesType ==
    ASSUME NEW s \in Bytes
    PROVE  /\ Len(s) \in Nat /\ DOMAIN s = 1 .. Len(s)
           /\ \A i \in 1 .. Len(s) : s[i] \in 0 .. ByteBase - 1 /\ s[i] \in Nat
<1>1. s \in Seq(0 .. ByteBase - 1)
  BY DEF Bytes
<1>2. Len(s) \in Nat /\ DOMAIN s = 1 .. Len(s) /\ s \in [1 .. Len(s) -> 0 .. ByteBase - 1]
  BY <1>1, LenProperties
<1>3. \A i \in 1 .. Len(s) : s[i] \in 0 .. ByteBase - 1
  BY <1>2
<1> QED
  BY <1>2, <1>3, ByteBaseType

\* Two strings: equal, or one is less than the other, but never both.
LEMMA BytesTotal ==
    ASSUME NEW s \in Bytes, NEW t \in Bytes
    PROVE  s = t \/ BytesLess(s, t) \/ BytesLess(t, s)
<1> SUFFICES ASSUME s # t PROVE BytesLess(s, t) \/ BytesLess(t, s)
  OBVIOUS
<1>1. /\ Len(s) \in Nat /\ DOMAIN s = 1 .. Len(s) /\ \A i \in 1 .. Len(s) : s[i] \in Nat
      /\ Len(t) \in Nat /\ DOMAIN t = 1 .. Len(t) /\ \A i \in 1 .. Len(t) : t[i] \in Nat
  BY BytesType
<1> DEFINE Differ == {i \in Nat : /\ 1 <= i /\ (i <= Len(s) \/ i <= Len(t))
                                  /\ (i <= Len(s) /\ i <= Len(t) => s[i] # t[i])}
<1>2. Differ # {}
  <2> SUFFICES ASSUME Differ = {} PROVE FALSE
    OBVIOUS
  <2>1. \A i \in Nat : 1 <= i /\ (i <= Len(s) \/ i <= Len(t)) =>
                           i <= Len(s) /\ i <= Len(t) /\ s[i] = t[i]
    OBVIOUS
  <2>2. Len(s) = Len(t)
    <3>1. Len(t) >= 1 => Len(t) <= Len(s)
      BY <1>1, <2>1
    <3>2. Len(s) >= 1 => Len(s) <= Len(t)
      BY <1>1, <2>1
    <3>3. Len(s) \in Nat /\ Len(t) \in Nat
      BY <1>1
    <3> HIDE DEF Differ
    <3> QED
      BY <3>1, <3>2, <3>3
  <2>3. \A i \in 1 .. Len(s) : s[i] = t[i]
    BY <1>1, <2>1
  <2>4. s = t
    <3>1. s \in Seq(0 .. ByteBase - 1) /\ t \in Seq(0 .. ByteBase - 1)
      BY DEF Bytes
    <3> QED
      BY <2>2, <2>3, <3>1, SeqEqual
  <2> QED
    BY <2>4
<1>3. Differ \subseteq Nat
  OBVIOUS
<1>4. PICK i \in Differ : \A j \in Differ : i <= j
  <2> HIDE DEF Differ
  <2> QED
    BY <1>2, <1>3, LeastNumber
<1>5. /\ i \in Nat /\ 1 <= i /\ (i <= Len(s) \/ i <= Len(t))
      /\ (i <= Len(s) /\ i <= Len(t) => s[i] # t[i])
  BY <1>4
<1>6. ASSUME NEW j \in 1 .. i - 1 PROVE j <= Len(s) /\ j <= Len(t) /\ s[j] = t[j]
  <2>1. j \in Nat /\ 1 <= j /\ j < i
    BY <1>5
  <2>2. j \notin Differ
    BY <1>4, <1>5, <2>1
  <2>3. j <= Len(s) \/ j <= Len(t)
    BY <1>1, <1>5, <2>1
  <2> QED
    BY <2>1, <2>2, <2>3
<1>7. i <= Len(s) + 1 /\ i <= Len(t) + 1
  <2>1. CASE i = 1
    BY <1>1, <2>1
  <2>2. CASE i # 1
    <3>1. i - 1 \in 1 .. i - 1
      BY <1>5, <2>2
    <3>2. i - 1 <= Len(s) /\ i - 1 <= Len(t)
      BY <1>6, <3>1
    <3> QED
      BY <1>1, <1>5, <3>2
  <2> QED
    BY <2>1, <2>2
<1> HIDE DEF Differ
<1>8. CASE i <= Len(t) /\ (i <= Len(s) => s[i] < t[i])
  <2>1. i \in 1 .. Len(t)
    BY <1>1, <1>5, <1>8
  <2> QED
    BY <1>6, <1>7, <1>8, <2>1 DEF BytesLess
<1>9. CASE i <= Len(s) /\ (i <= Len(t) => t[i] < s[i])
  <2>1. i \in 1 .. Len(s)
    BY <1>1, <1>5, <1>9
  <2>2. \A j \in 1 .. i - 1 : t[j] = s[j]
    BY <1>6
  <2> QED
    BY <1>7, <1>9, <2>1, <2>2 DEF BytesLess
<1>10. i <= Len(s) /\ i <= Len(t) => s[i] \in Nat /\ t[i] \in Nat
  BY <1>1, <1>5
<1> QED
  BY <1>5, <1>8, <1>9, <1>10

\* Of two byte strings not both are less than the other, and neither is if they
\* are the same.
LEMMA BytesAsymmetric ==
    ASSUME NEW s \in Bytes, NEW t \in Bytes, BytesLess(s, t)
    PROVE  ~BytesLess(t, s) /\ s # t
<1>1. /\ Len(s) \in Nat /\ \A i \in 1 .. Len(s) : s[i] \in Nat
      /\ Len(t) \in Nat /\ \A i \in 1 .. Len(t) : t[i] \in Nat
  BY BytesType
<1>2. PICK i \in 1 .. Len(t) : /\ i <= Len(s) + 1
                               /\ \A j \in 1 .. i - 1 : s[j] = t[j]
                               /\ i <= Len(s) => s[i] < t[i]
  BY DEF BytesLess
<1>3. ASSUME BytesLess(t, s) PROVE FALSE
  <2>1. PICK k \in 1 .. Len(s) : /\ k <= Len(t) + 1
                                 /\ \A j \in 1 .. k - 1 : t[j] = s[j]
                                 /\ k <= Len(t) => t[k] < s[k]
    BY <1>3 DEF BytesLess
  <2>2. i \in Nat /\ k \in Nat /\ 1 <= i /\ 1 <= k /\ i <= Len(t) /\ k <= Len(s)
    BY <1>1
  <2>3. CASE i < k
    <3>1. i \in 1 .. k - 1 /\ i \in 1 .. Len(s)
      BY <1>1, <2>2, <2>3
    <3>2. t[i] = s[i] /\ s[i] < t[i] /\ s[i] \in Nat /\ t[i] \in Nat
      BY <1>1, <1>2, <2>1, <2>2, <3>1
    <3> QED
      BY <3>2
  <2>4. CASE k < i
    <3>1. k \in 1 .. i - 1 /\ k \in 1 .. Len(t)
      BY <1>1, <2>2, <2>4
    <3>2. t[k] = s[k] /\ t[k] < s[k] /\ s[k] \in Nat /\ t[k] \in Nat
      BY <1>1, <1>2, <2>1, <2>2, <3>1
    <3> QED
      BY <3>2
  <2>5. CASE i = k
    <3>1. s[i] < t[i] /\ t[i] < s[i] /\ s[i] \in Nat /\ t[i] \in Nat
      BY <1>1, <1>2, <2>1, <2>2, <2>5
    <3> QED
      BY <3>1
  <2> QED
    BY <2>2, <2>3, <2>4, <2>5
<1>4. ASSUME s = t PROVE FALSE
  <2>1. i <= Len(s) /\ s[i] < t[i] /\ s[i] = t[i] /\ s[i] \in Nat
    BY <1>1, <1>2, <1>4
  <2> QED
    BY <2>1
<1> QED
  BY <1>3, <1>4

\* A string that differs downward within both strings is less.
LEMMA BelowIsLess ==
    ASSUME NEW s \in Bytes, NEW t \in Bytes, Below(s, t)
    PROVE  BytesLess(s, t)
<1>1. PICK i \in 1 .. Len(s) : i \in 1 .. Len(t) /\ (\A j \in 1 .. i - 1 : s[j] = t[j])
                               /\ s[i] < t[i]
  BY DEF Below
<1>2. i <= Len(s) + 1
  BY BytesType
<1> QED
  BY <1>1, <1>2 DEF BytesLess
-----------------------------------------------------------------------------
(* The order of two values of one type.                                      *)

\* The parts of a string.
LEMMA StringFacts ==
    ASSUME NEW x \in Data("String")
    PROVE  /\ x.type = "String" /\ x.bytes \in Bytes
           /\ ~IsNaN(x) /\ ~MinusZero(x) /\ ~Numeric(x)
<1>1. Data("String") = [type : {"String"}, bytes : Bytes]
  BY DEF Data, Integral, Floating, Bytes
<1>2. x.type = "String" /\ x.bytes \in Bytes
  <2>1. x \in [type : {"String"}, bytes : Bytes]
    BY <1>1
  <2>2. \A u : u \in [type : {"String"}, bytes : Bytes] =>
                   u.type \in {"String"} /\ u.bytes \in Bytes
    BY Zenon
  <2> QED
    BY <2>1, <2>2
<1> QED
  BY <1>2 DEF IsNaN, MinusZero, Numeric, Floating

\* A value is of its type, which is a number or a string.
LEMMA DataFacts ==
    ASSUME NEW type \in DataTypes, NEW x \in Data(type)
    PROVE  /\ x.type = type
           /\ type \in Numbers <=> Numeric(x)
           /\ type \in Numbers \/ type = "String"
<1>1. CASE type \in Integral
  BY <1>1, IntegerFacts DEF Numbers
<1>2. CASE type \in Floating
  BY <1>2, FloatFacts DEF Numbers
<1>3. CASE type = "String"
  <2>1. "String" \notin Numbers
    BY DEF Numbers, Integral, Floating
  <2> QED
    BY <1>3, <2>1, StringFacts
<1> QED
  BY <1>1, <1>2, <1>3 DEF DataTypes

\* Less is the order of what values of a type stand for, numbers or bytes.
LEMMA LessTotal ==
    ASSUME NEW type \in DataTypes, NEW x \in Data(type), NEW y \in Data(type),
           ~IsNaN(x), ~IsNaN(y)
    PROVE  /\ ~(Less(x, y) /\ Less(y, x))
           /\ type \in Numbers => /\ Less(x, y) <=> Exact(x) < Exact(y)
                                  /\ Exact(x) = Exact(y) <=> ~Less(x, y) /\ ~Less(y, x)
           /\ type = "String" => /\ Less(x, y) <=> BytesLess(x.bytes, y.bytes)
                                 /\ x.bytes = y.bytes <=> ~Less(x, y) /\ ~Less(y, x)
<1>1. CASE type \in Numbers
  <2>1. Exact(x) \in Int /\ Exact(y) \in Int
    BY <1>1, ExactType
  <2>2. type # "String" /\ x.type = type /\ y.type = type
    BY <1>1, DataFacts DEF Numbers, Integral, Floating
  <2>3. (Less(x, y) <=> Exact(x) < Exact(y)) /\ (Less(y, x) <=> Exact(y) < Exact(x))
    BY <2>2 DEF Less
  <2> QED
    BY <2>1, <2>2, <2>3
<1>2. CASE type = "String"
  <2>1. x.type = "String" /\ y.type = "String" /\ x.bytes \in Bytes /\ y.bytes \in Bytes
    BY <1>2, StringFacts
  <2>2. (Less(x, y) <=> BytesLess(x.bytes, y.bytes))
        /\ (Less(y, x) <=> BytesLess(y.bytes, x.bytes))
    BY <2>1 DEF Less
  <2>3. type \notin Numbers
    BY <1>2 DEF Numbers, Integral, Floating
  <2> QED
    BY <2>1, <2>2, <2>3, BytesTotal, BytesAsymmetric
<1> QED
  BY <1>1, <1>2, DataFacts

\* partial_cmp of one type is the order of the values.
LEMMA PartialCmp ==
    ASSUME NEW type \in DataTypes, NEW x \in Data(type), NEW y \in Data(type)
    PROVE  /\ IsNaN(x) \/ IsNaN(y) <=> partial_cmp(x, y) = "None"
           /\ ~IsNaN(x) /\ ~IsNaN(y) =>
                  /\ partial_cmp(x, y) = "Less" <=> Less(x, y)
                  /\ partial_cmp(x, y) = "Greater" <=> Less(y, x)
                  /\ partial_cmp(x, y) = "Equal" <=> ~Less(x, y) /\ ~Less(y, x)
<1>1. x.type = y.type
  BY DataFacts
<1>2. CASE IsNaN(x) \/ IsNaN(y)
  <2>1. partial_cmp(x, y) = "None"
    BY <1>2 DEF partial_cmp
  <2> QED
    BY <1>2, <2>1
<1>3. CASE ~IsNaN(x) /\ ~IsNaN(y)
  <2>1. partial_cmp(x, y) = IF Less(x, y) THEN "Less" ELSE IF Less(y, x) THEN "Greater"
                            ELSE "Equal"
    BY <1>1, <1>3 DEF partial_cmp
  <2>2. ~(Less(x, y) /\ Less(y, x))
    BY <1>3, LessTotal
  <2> QED
    BY <1>3, <2>1, <2>2
<1> QED
  BY <1>2, <1>3
-----------------------------------------------------------------------------
(* The bits of a number.                                                     *)

\* A number modulo a width, in the two ranges that occur.
LEMMA Modulo ==
    ASSUME NEW w \in Nat \ {0}, NEW n \in Int, 0 - w <= n, n < 2 * w
    PROVE  n % w = IF n < 0 THEN n + w ELSE IF n < w THEN n ELSE n - w
  OBVIOUS

\* The key of an integer is the integer moved up by half the width.
LEMMA IntegerBits ==
    ASSUME NEW type \in Integral, NEW x \in Data(type)
    PROVE  /\ to_bits(x) = IF x.v < 0 THEN x.v + Width(type) ELSE x.v
           /\ NumberKey(x) = x.v + SignBit(type)
<1>1. PICK s \in Nat \ {0} : s = SignBit(type) /\ Width(type) = 2 * s
  <2>1. type \in Numbers
    BY DEF Numbers
  <2> QED
    BY <2>1, WidthFacts
<1>2. x.type = type /\ x.type \in Integral /\ x.type \notin Floating
  <2>1. type \notin Floating
    BY DEF Integral, Floating
  <2> QED
    BY <2>1, IntegerFacts
<1>3. PICK v \in Int : v = x.v /\ 0 - s <= v /\ v <= s - 1
  BY <1>1, IntegerFacts
<1>4. PICK w \in Nat \ {0} : w = 2 * s
  OBVIOUS
<1>5. v % w = IF v < 0 THEN v + w ELSE v
  <2>1. 0 - w <= v /\ v < 2 * w /\ v < w
    BY <1>3, <1>4
  <2>2. v % w = IF v < 0 THEN v + w ELSE IF v < w THEN v ELSE v - w
    BY <2>1, Modulo
  <2> QED
    BY <2>1, <2>2
<1>6. to_bits(x) = v % w
  BY <1>1, <1>2, <1>3, <1>4 DEF to_bits
<1>7. NumberKey(x) = (to_bits(x) + s) % w
  BY <1>1, <1>2, <1>4 DEF NumberKey, FlipSign
<1>8. PICK n \in Int : n = to_bits(x) + s
  BY <1>5, <1>6
<1>9. n % w = IF n < 0 THEN n + w ELSE IF n < w THEN n ELSE n - w
  <2>1. 0 - w <= n /\ n < 2 * w
    BY <1>3, <1>4, <1>5, <1>6, <1>8
  <2> QED
    BY <2>1, Modulo
<1>10. n % w = v + s
  BY <1>3, <1>4, <1>5, <1>6, <1>8, <1>9
<1> QED
  BY <1>1, <1>3, <1>4, <1>5, <1>6, <1>7, <1>8, <1>10

\* The key of a float counts up from the bit of the sign, and down if it is
\* negative.
LEMMA FloatBits ==
    ASSUME NEW type \in Floating, NEW x \in Data(type)
    PROVE  /\ to_bits(x) = IF x.neg THEN SignBit(type) + x.mag ELSE x.mag
           /\ NumberKey(x) = IF x.neg THEN SignBit(type) - 1 - x.mag ELSE x.mag + SignBit(type)
<1>1. PICK s \in Nat \ {0} : s = SignBit(type) /\ Width(type) = 2 * s
  <2>1. type \in Numbers
    BY DEF Numbers
  <2> QED
    BY <2>1, WidthFacts
<1>2. x.type = type /\ x.type \notin Integral /\ x.type \in Floating /\ x.neg \in BOOLEAN
  <2>1. type \notin Integral
    BY DEF Integral, Floating
  <2> QED
    BY <2>1, FloatFacts
<1>3. PICK mag \in Nat : mag = x.mag /\ mag <= s - 1
  BY <1>1, FloatFacts
<1>4. PICK w \in Nat \ {0} : w = 2 * s
  OBVIOUS
<1>5. to_bits(x) = IF x.neg THEN s + mag ELSE mag
  <2>1. to_bits(x) = (IF x.neg THEN s ELSE 0) + mag
    BY <1>1, <1>2, <1>3 DEF to_bits
  <2> QED
    BY <2>1
<1>6. CASE x.neg
  <2>1. NumberKey(x) = w - 1 - to_bits(x)
    BY <1>1, <1>2, <1>4, <1>6 DEF NumberKey
  <2> QED
    BY <1>1, <1>3, <1>4, <1>5, <1>6, <2>1
<1>7. CASE ~x.neg
  <2>1. NumberKey(x) = (to_bits(x) + s) % w
    BY <1>1, <1>2, <1>4, <1>7 DEF NumberKey, FlipSign
  <2>2. (mag + s) % w = mag + s
    BY <1>3, <1>4, Modulo
  <2> QED
    BY <1>1, <1>3, <1>5, <1>7, <2>1, <2>2
<1> QED
  BY <1>6, <1>7

\* The keys of numbers of one type are in the order of their values.
LEMMA NumberKeyOrder ==
    ASSUME NEW type \in Numbers, NEW x \in Data(type), NEW y \in Data(type),
           ~IsNaN(x), ~IsNaN(y), ~MinusZero(x), ~MinusZero(y)
    PROVE  /\ NumberKey(x) \in Nat /\ NumberKey(x) < Width(type)
           /\ NumberKey(x) < NumberKey(y) <=> Exact(x) < Exact(y)
<1>1. PICK s \in Nat \ {0} : s = SignBit(type) /\ Width(type) = 2 * s
  BY WidthFacts
<1>2. CASE type \in Integral
  <2>1. PICK v \in Int, u \in Int : /\ v = x.v /\ 0 - s <= v /\ v <= s - 1
                                    /\ u = y.v /\ 0 - s <= u /\ u <= s - 1
    BY <1>1, <1>2, IntegerFacts
  <2>2. NumberKey(x) = v + s /\ NumberKey(y) = u + s
    BY <1>1, <1>2, <2>1, IntegerBits
  <2>3. Exact(x) = v * One /\ Exact(y) = u * One
    BY <1>2, <2>1, IntegerFacts
  <2>4. v * One < u * One <=> v < u
    <3>1. PICK one \in Nat \ {0} : one = One
      BY ValuesAssumption
    <3>2. (u - v) * one = u * one - v * one /\ u * one \in Int /\ v * one \in Int
      OBVIOUS
    <3>3. u - v > 0 <=> (u - v) * one > 0
      OBVIOUS
    <3> QED
      BY <3>1, <3>2, <3>3
  <2> QED
    BY <1>1, <2>1, <2>2, <2>3, <2>4
<1>3. CASE type \in Floating
  <2>1. /\ x.neg \in BOOLEAN /\ x.mag \in 0 .. Infinity(type)
        /\ y.neg \in BOOLEAN /\ y.mag \in 0 .. Infinity(type)
        /\ ~(x.neg /\ x.mag = 0) /\ ~(y.neg /\ y.mag = 0)
    BY <1>3, FloatFacts
  <2>2. PICK m \in Nat, n \in Nat : m = x.mag /\ n = y.mag /\ m < s /\ n < s
    BY <1>1, <1>3, FloatFacts
  <2>3. PICK i \in Nat, k \in Nat : i = Size(type, m) /\ k = Size(type, n)
    BY <1>3, <2>1, <2>2, SizeGrows
  <2>4. (i < k <=> m < n) /\ (k < i <=> n < m) /\ (i = 0 <=> m = 0) /\ (k = 0 <=> n = 0)
    BY <1>3, <2>1, <2>2, <2>3, SizeGrows
  <2>5. /\ Exact(x) = IF x.neg THEN 0 - i ELSE i
        /\ Exact(y) = IF y.neg THEN 0 - k ELSE k
    BY <1>3, <2>2, <2>3, FloatFacts
  <2>6. /\ NumberKey(x) = IF x.neg THEN s - 1 - m ELSE m + s
        /\ NumberKey(y) = IF y.neg THEN s - 1 - n ELSE n + s
    BY <1>1, <1>3, <2>2, FloatBits
  <2> QED
    BY <1>1, <2>1, <2>2, <2>4, <2>5, <2>6
<1> QED
  BY <1>2, <1>3 DEF Numbers
-----------------------------------------------------------------------------
(* The bytes of a number, the most significant first.                        *)

\* A quotient of a quotient.
LEMMA DivisionTwice ==
    ASSUME NEW n \in Nat, NEW k \in Nat \ {0}, NEW d \in Nat \ {0}
    PROVE  (n \div k) \div d = n \div (k * d)
<1>1. PICK q \in Nat, r \in Nat : n = k * q + r /\ r < k /\ q = n \div k
  <2>1. n \div k \in Nat /\ n % k \in 0 .. k - 1 /\ n = k * (n \div k) + (n % k)
    BY Division
  <2>2. n % k \in Nat /\ n % k < k
    BY <2>1
  <2> QED
    BY <2>1, <2>2
<1>2. PICK p \in Nat, t \in Nat : q = d * p + t /\ t < d /\ p = q \div d
  <2>1. q \div d \in Nat /\ q % d \in 0 .. d - 1 /\ q = d * (q \div d) + (q % d)
    BY Division
  <2>2. q % d \in Nat /\ q % d < d
    BY <2>1
  <2> QED
    BY <2>1, <2>2
<1>3. n = (k * d) * p + (k * t + r)
  <2>1. k * (d * p + t) = (k * d) * p + k * t
    OBVIOUS
  <2>2. (k * d) * p \in Nat /\ k * t \in Nat
    OBVIOUS
  <2> QED
    BY <1>1, <1>2, <2>1, <2>2
<1>4. k * t + r < k * d /\ k * t + r \in Nat /\ k * d \in Nat \ {0}
  <2>1. k * (t + 1) <= k * d
    <3>1. 0 <= k * (d - (t + 1)) /\ k * (d - (t + 1)) = k * d - k * (t + 1)
      <4>1. d - (t + 1) \in Nat
        BY <1>2
      <4> QED
        BY <4>1
    <3>2. k * d \in Int /\ k * (t + 1) \in Int
      OBVIOUS
    <3> QED
      BY <3>1, <3>2
  <2>2. k * (t + 1) = k * t + k /\ k * t \in Nat /\ k * d \in Nat \ {0}
    OBVIOUS
  <2> QED
    BY <1>1, <2>1, <2>2
<1>5. PICK e \in Nat \ {0}, c \in Nat : e = k * d /\ c = k * t + r /\ c < e
  BY <1>4
<1>6. n = e * p + c
  BY <1>3, <1>5
<1>7. n \div e = p
  BY <1>5, <1>6, DivisionIs
<1> QED
  BY <1>1, <1>2, <1>5, <1>7

\* Quotients are in the order of the numbers, or equal.
LEMMA DivisionOrder ==
    ASSUME NEW m \in Nat, NEW n \in Nat, m <= n, NEW d \in Nat \ {0}
    PROVE  m \div d <= n \div d
<1>1. PICK p \in Nat, c \in Nat : p = m \div d /\ m = d * p + c /\ c < d
  <2>1. m \div d \in Nat /\ m % d \in 0 .. d - 1 /\ m = d * (m \div d) + (m % d)
    BY Division
  <2>2. m % d \in Nat /\ m % d < d
    BY <2>1
  <2> QED
    BY <2>1, <2>2
<1>2. PICK q \in Nat, e \in Nat : q = n \div d /\ n = d * q + e /\ e < d
  <2>1. n \div d \in Nat /\ n % d \in 0 .. d - 1 /\ n = d * (n \div d) + (n % d)
    BY Division
  <2>2. n % d \in Nat /\ n % d < d
    BY <2>1
  <2> QED
    BY <2>1, <2>2
<1>3. ASSUME q < p PROVE FALSE
  <2>1. PICK k \in Nat : p = q + 1 + k
    <3>1. p = q + 1 + (p - q - 1) /\ p - q - 1 \in Nat
      BY <1>3
    <3> QED
      BY <3>1
  <2>2. d * (q + 1 + k) = d * q + d + d * k /\ d * k \in Nat /\ d * q \in Nat
    OBVIOUS
  <2> QED
    BY <1>1, <1>2, <2>1, <2>2
<1> QED
  BY <1>1, <1>2, <1>3

\* Numbers that fit the width are in the order of their bytes.
LEMMA BigEndian ==
    ASSUME NEW type \in Numbers, NEW m \in Nat, NEW n \in Nat,
           m < Width(type), n < Width(type)
    PROVE  /\ to_be_bytes(m, type) \in Bytes
           /\ m < n => Below(to_be_bytes(m, type), to_be_bytes(n, type))
<1> DEFINE Digit(k, i) == (k \div Power(ByteBase, NumberBytes[type] - i)) % ByteBase
<1>1. PICK base \in Nat \ {0}, len \in Nat \ {0} : base = ByteBase /\ len = NumberBytes[type]
  BY ValuesAssumption DEF Numbers
<1>2. PICK s, t : s = to_be_bytes(m, type) /\ t = to_be_bytes(n, type)
  OBVIOUS
<1> DEFINE Prefix(k, i) == k \div Power(base, len - i)
<1>3. \A i \in 0 .. len : Power(base, len - i) \in Nat \ {0}
  <2>1. \A i \in 0 .. len : len - i \in Nat
    OBVIOUS
  <2> QED
    BY <2>1, PowerType
<1>4. /\ s = [i \in 1 .. len |-> Prefix(m, i) % base]
      /\ t = [i \in 1 .. len |-> Prefix(n, i) % base]
  BY <1>1, <1>2, Zenon DEF to_be_bytes
<1>5. ASSUME NEW k \in Nat, NEW i \in 0 .. len PROVE Prefix(k, i) \in Nat
  BY <1>3, Division
<1>6. ASSUME NEW k \in Nat, NEW i \in 1 .. len
      PROVE  Prefix(k, i) \div base = Prefix(k, i - 1)
  <2>1. len - i \in Nat /\ len - (i - 1) = (len - i) + 1
    OBVIOUS
  <2>2. PICK p \in Nat \ {0} : p = Power(base, len - i)
    BY <2>1, PowerType
  <2>3. Power(base, len - (i - 1)) = p * base
    <3>1. Power(base, (len - i) + 1) = base * p
      BY <2>1, <2>2, PowerNext
    <3>2. base * p = p * base
      OBVIOUS
    <3> QED
      BY <2>1, <3>1, <3>2
  <2> QED
    BY <2>2, <2>3, DivisionTwice
<1>7. ASSUME NEW k \in Nat, k < Width(type) PROVE Prefix(k, 0) = 0 /\ Prefix(k, len) = k
  <2>1. PICK w \in Nat \ {0} : w = Power(base, len) /\ k < w
    BY <1>1, <1>7, PowerType DEF Width
  <2>2. (w * 0 + k) \div w = 0 /\ w * 0 + k = k
    <3>1. (w * 0 + k) \div w = 0
      BY <2>1, DivisionIs
    <3> QED
      BY <3>1
  <2>3. len - 0 = len /\ len - len = 0 /\ Power(base, 0) = 1 /\ k \div 1 = k
    BY PowerNext
  <2> QED
    BY <2>1, <2>2, <2>3
<1> HIDE DEF Prefix
<1>8. ASSUME NEW k \in Nat, NEW i \in 1 .. len
      PROVE  /\ Prefix(k, i) % base \in 0 .. base - 1
             /\ Prefix(k, i) = base * Prefix(k, i - 1) + (Prefix(k, i) % base)
             /\ Prefix(k, i - 1) \in Nat /\ Prefix(k, i) \in Nat
  <2>1. i \in 0 .. len /\ i - 1 \in 0 .. len
    OBVIOUS
  <2>2. PICK p \in Nat : p = Prefix(k, i)
    BY <1>5, <2>1
  <2>3. p % base \in 0 .. base - 1 /\ p = base * (p \div base) + (p % base)
    BY Division
  <2> QED
    BY <1>5, <1>6, <2>1, <2>2, <2>3
<1>9. s \in Bytes
  <2>1. \A i \in 1 .. len : s[i] \in 0 .. base - 1
    BY <1>4, <1>8
  <2>2. s \in [1 .. len -> 0 .. base - 1]
    BY <1>4, <2>1
  <2> QED
    BY <1>1, <2>2, SeqDef DEF Bytes
<1>10. ASSUME m < n PROVE Below(s, t)
  <2> DEFINE Differ == {i \in Nat : i <= len /\ Prefix(m, i) # Prefix(n, i)}
  <2>1. len \in Differ /\ Differ \subseteq Nat
    <3>1. Prefix(m, len) = m /\ Prefix(n, len) = n
      BY <1>7
    <3> QED
      BY <1>10, <3>1
  <2>2. PICK i \in Differ : \A j \in Differ : i <= j
    <3> HIDE DEF Differ
    <3> QED
      BY <2>1, LeastNumber
  <2>3. i \in Nat /\ i <= len /\ Prefix(m, i) # Prefix(n, i)
    OBVIOUS
  <2>4. \A j \in Nat : j < i => Prefix(m, j) = Prefix(n, j)
    BY <2>2, <2>3
  <2> HIDE DEF Differ
  <2>5. i # 0
    BY <1>7, <2>3
  <2>6. i \in 1 .. len /\ i - 1 \in Nat /\ i - 1 < i
    BY <2>3, <2>5
  <2>7. PICK q \in Nat : q = Prefix(m, i - 1) /\ q = Prefix(n, i - 1)
    BY <1>8, <2>4, <2>6
  <2>8. PICK c \in Nat, e \in Nat : /\ c = s[i] /\ Prefix(m, i) = base * q + c
                                    /\ e = t[i] /\ Prefix(n, i) = base * q + e
    <3>1. PICK c \in Nat : c = Prefix(m, i) % base
      BY <1>8, <2>6
    <3>2. PICK e \in Nat : e = Prefix(n, i) % base
      BY <1>8, <2>6
    <3>3. Prefix(m, i) = base * q + c /\ Prefix(n, i) = base * q + e
      BY <1>8, <2>6, <2>7, <3>1, <3>2
    <3>4. s[i] = c /\ t[i] = e
      BY <1>4, <2>6, <3>1, <3>2
    <3> QED
      BY <3>3, <3>4
  <2>9. Prefix(m, i) <= Prefix(n, i)
    <3>1. i \in 0 .. len
      BY <2>3
    <3>2. PICK p \in Nat \ {0} : p = Power(base, len - i)
      BY <1>3, <3>1
    <3>3. m \div p <= n \div p
      BY <1>10, DivisionOrder
    <3> QED
      BY <3>2, <3>3 DEF Prefix
  <2>10. c < e
    <3>1. PICK k \in Nat : k = base * q
      OBVIOUS
    <3> QED
      BY <2>3, <2>8, <2>9, <3>1
  <2>11. ASSUME NEW j \in 1 .. i - 1 PROVE s[j] = t[j]
    <3>1. j \in 1 .. len /\ j \in Nat /\ j < i
      BY <2>6
    <3> QED
      BY <1>4, <2>4, <3>1
  <2>12. Len(s) = len /\ Len(t) = len
    BY <1>4
  <2> QED
    BY <2>6, <2>8, <2>10, <2>11, <2>12 DEF Below
<1> QED
  BY <1>2, <1>9, <1>10
-----------------------------------------------------------------------------
(* Sort keys.                                                                *)

\* The values whose keys are in their order.
Plain(x) == ~IsNaN(x) /\ ~MinusZero(x) /\ ~HasNul(x)

\* With the terminator, text without NULs is told apart within both keys.
LEMMA StringKeyOrder ==
    ASSUME NEW x \in Data("String"), NEW y \in Data("String"), ~HasNul(x), ~HasNul(y)
    PROVE  /\ StringKey(x.bytes) \in Bytes
           /\ BytesLess(x.bytes, y.bytes) => Below(StringKey(x.bytes), StringKey(y.bytes))
<1>1. PICK s \in Bytes, t \in Bytes : s = x.bytes /\ t = y.bytes
  BY StringFacts
<1>2. /\ Len(s) \in Nat /\ DOMAIN s = 1 .. Len(s) /\ \A i \in 1 .. Len(s) : s[i] \in Nat
      /\ Len(t) \in Nat /\ DOMAIN t = 1 .. Len(t) /\ \A i \in 1 .. Len(t) : t[i] \in Nat
  BY BytesType
<1>3. \A i \in 1 .. Len(t) : t[i] # 0
  <2>1. 0 \notin ToSet(t)
    BY <1>1, StringFacts DEF HasNul
  <2> QED
    BY <1>2, <2>1 DEF ToSet
<1>4. 0 \in 0 .. ByteBase - 1
  BY ByteBaseType
<1>5. Append(s, 0) \in Bytes
  <2>1. s \in Seq(0 .. ByteBase - 1)
    BY DEF Bytes
  <2>2. Append(s, 0) \in Seq(0 .. ByteBase - 1)
    BY <1>4, <2>1, AppendProperties
  <2> QED
    BY <2>2 DEF Bytes
<1>6. ASSUME NEW c \in Bytes
      PROVE  /\ Len(Append(c, 0)) = Len(c) + 1
             /\ \A i \in 1 .. Len(c) : Append(c, 0)[i] = c[i]
             /\ Append(c, 0)[Len(c) + 1] = 0
  <2>1. c \in Seq(0 .. ByteBase - 1)
    BY DEF Bytes
  <2> QED
    BY <1>4, <2>1, AppendProperties
<1>7. ASSUME BytesLess(s, t) PROVE Below(Append(s, 0), Append(t, 0))
  <2>1. PICK i \in 1 .. Len(t) : /\ i <= Len(s) + 1
                                 /\ \A j \in 1 .. i - 1 : s[j] = t[j]
                                 /\ i <= Len(s) => s[i] < t[i]
    BY <1>7 DEF BytesLess
  <2>2. PICK u, v : u = Append(s, 0) /\ v = Append(t, 0)
    OBVIOUS
  <2>3. /\ Len(u) = Len(s) + 1 /\ (\A j \in 1 .. Len(s) : u[j] = s[j]) /\ u[Len(s) + 1] = 0
        /\ Len(v) = Len(t) + 1 /\ \A j \in 1 .. Len(t) : v[j] = t[j]
    BY <1>6, <2>2
  <2>4. i \in 1 .. Len(u) /\ i \in 1 .. Len(v)
    BY <1>2, <2>1, <2>3
  <2>5. \A j \in 1 .. i - 1 : u[j] = v[j]
    <3>1. \A j \in 1 .. i - 1 : j \in 1 .. Len(s) /\ j \in 1 .. Len(t)
      BY <1>2, <2>1
    <3> QED
      BY <2>1, <2>3, <3>1
  <2>6. u[i] < v[i]
    <3>1. v[i] = t[i] /\ t[i] \in Nat /\ t[i] # 0
      BY <1>2, <1>3, <2>3
    <3>2. CASE i <= Len(s)
      <4>1. i \in 1 .. Len(s)
        BY <1>2, <3>2
      <4> QED
        BY <2>1, <2>3, <3>1, <3>2, <4>1
    <3>3. CASE i = Len(s) + 1
      BY <2>3, <3>1, <3>3
    <3> QED
      BY <1>2, <2>1, <3>2, <3>3
  <2> QED
    BY <2>2, <2>4, <2>5, <2>6 DEF Below
<1> QED
  BY <1>1, <1>5, <1>7 DEF StringKey

\* The ascending keys of two values are in the order of the values, and the same
\* if they are equal.
LEMMA AscendingKeyOrder ==
    ASSUME NEW type \in DataTypes, NEW x \in Data(type), NEW y \in Data(type),
           Plain(x), Plain(y)
    PROVE  /\ AscendingKey(x) \in Bytes
           /\ Less(x, y) => Below(AscendingKey(x), AscendingKey(y))
           /\ ~Less(x, y) /\ ~Less(y, x) => AscendingKey(x) = AscendingKey(y)
<1>0. ~IsNaN(x) /\ ~IsNaN(y) /\ ~MinusZero(x) /\ ~MinusZero(y) /\ ~HasNul(x) /\ ~HasNul(y)
  BY DEF Plain
<1>1. CASE type \in Numbers
  <2>1. PICK m \in Nat, n \in Nat : /\ m = NumberKey(x) /\ m < Width(type)
                                    /\ n = NumberKey(y) /\ n < Width(type)
    BY <1>0, <1>1, NumberKeyOrder
  <2>2. (m < n <=> Exact(x) < Exact(y)) /\ (n < m <=> Exact(y) < Exact(x))
    BY <1>0, <1>1, <2>1, NumberKeyOrder
  <2>3. (Less(x, y) <=> Exact(x) < Exact(y)) /\ (Less(y, x) <=> Exact(y) < Exact(x))
    BY <1>0, <1>1, LessTotal
  <2>4. AscendingKey(x) = to_be_bytes(m, type) /\ AscendingKey(y) = to_be_bytes(n, type)
    <3>1. x.type = type /\ y.type = type /\ type # "String"
      BY <1>1, DataFacts DEF Numbers, Integral, Floating
    <3> QED
      BY <2>1, <3>1 DEF AscendingKey
  <2>5. /\ to_be_bytes(m, type) \in Bytes
        /\ m < n => Below(to_be_bytes(m, type), to_be_bytes(n, type))
    BY <1>1, <2>1, BigEndian
  <2>6. ~(m < n) /\ ~(n < m) => m = n
    OBVIOUS
  <2> QED
    BY <2>2, <2>3, <2>4, <2>5, <2>6
<1>2. CASE type = "String"
  <2>1. x \in Data("String") /\ y \in Data("String")
    BY <1>2
  <2>2. AscendingKey(x) = StringKey(x.bytes) /\ AscendingKey(y) = StringKey(y.bytes)
    BY <2>1, StringFacts DEF AscendingKey
  <2>3. (Less(x, y) <=> BytesLess(x.bytes, y.bytes))
        /\ (x.bytes = y.bytes <=> ~Less(x, y) /\ ~Less(y, x))
    BY <1>0, <1>2, LessTotal
  <2> QED
    BY <1>0, <2>1, <2>2, <2>3, StringKeyOrder
<1> QED
  BY <1>1, <1>2, DataFacts

\* The complement of the bytes turns the order around.
LEMMA ComplementOrder ==
    ASSUME NEW s \in Bytes, NEW t \in Bytes
    PROVE  Complement(s) \in Bytes /\ (Below(s, t) => Below(Complement(t), Complement(s)))
<1>1. /\ Len(s) \in Nat /\ DOMAIN s = 1 .. Len(s)
      /\ \A i \in 1 .. Len(s) : s[i] \in 0 .. ByteBase - 1 /\ s[i] \in Nat
      /\ Len(t) \in Nat /\ DOMAIN t = 1 .. Len(t)
      /\ \A i \in 1 .. Len(t) : t[i] \in 0 .. ByteBase - 1 /\ t[i] \in Nat
  BY BytesType
<1>2. PICK u, v : u = Complement(s) /\ v = Complement(t)
  OBVIOUS
<1>3. u = [i \in 1 .. Len(s) |-> ByteBase - 1 - s[i]]
      /\ v = [i \in 1 .. Len(t) |-> ByteBase - 1 - t[i]]
  BY <1>1, <1>2, Zenon DEF Complement
<1>4. u \in Bytes
  <2>1. \A i \in 1 .. Len(s) : ByteBase - 1 - s[i] \in 0 .. ByteBase - 1
    BY <1>1, ByteBaseType
  <2>2. u \in [1 .. Len(s) -> 0 .. ByteBase - 1]
    BY <1>3, <2>1
  <2> QED
    BY <1>1, <2>2, SeqDef DEF Bytes
<1>5. Len(u) = Len(s) /\ Len(v) = Len(t)
  BY <1>1, <1>3
<1>6. ASSUME Below(s, t) PROVE Below(v, u)
  <2>1. PICK i \in 1 .. Len(s) : i \in 1 .. Len(t) /\ (\A j \in 1 .. i - 1 : s[j] = t[j])
                                 /\ s[i] < t[i]
    BY <1>6 DEF Below
  <2>2. \A j \in 1 .. i - 1 : j \in 1 .. Len(s) /\ j \in 1 .. Len(t)
    BY <1>1, <2>1
  <2>3. \A j \in 1 .. i - 1 : v[j] = u[j]
    BY <1>3, <2>1, <2>2
  <2>4. v[i] < u[i]
    <3>1. v[i] = ByteBase - 1 - t[i] /\ u[i] = ByteBase - 1 - s[i]
      BY <1>3, <2>1
    <3>2. s[i] \in Nat /\ t[i] \in Nat /\ s[i] < t[i]
      BY <1>1, <2>1
    <3> QED
      BY <3>1, <3>2, ByteBaseType
  <2> QED
    BY <1>5, <2>1, <2>3, <2>4 DEF Below
<1> QED
  BY <1>2, <1>4, <1>6

\* Whether a value precedes another in the direction of a column.
ValuePrecedes(x, y, ascending) == IF ascending THEN Less(x, y) ELSE Less(y, x)

\* The keys of a column are in its order, whichever direction it has.
LEMMA ColumnKeyOrder ==
    ASSUME NEW type \in DataTypes, NEW x \in Data(type), NEW y \in Data(type),
           Plain(x), Plain(y), NEW ascending \in BOOLEAN
    PROVE  /\ encode_key_value(x, ascending) \in Bytes
           /\ ValuePrecedes(x, y, ascending) =>
                  Below(encode_key_value(x, ascending), encode_key_value(y, ascending))
           /\ ~ValuePrecedes(x, y, ascending) /\ ~ValuePrecedes(y, x, ascending) =>
                  encode_key_value(x, ascending) = encode_key_value(y, ascending)
<1>1. PICK s, t : s = AscendingKey(x) /\ t = AscendingKey(y)
  OBVIOUS
<1>2. /\ s \in Bytes /\ t \in Bytes
      /\ Less(x, y) => Below(s, t)
      /\ Less(y, x) => Below(t, s)
      /\ ~Less(x, y) /\ ~Less(y, x) => s = t
  BY <1>1, AscendingKeyOrder
<1>3. CASE ascending
  BY <1>1, <1>2, <1>3 DEF encode_key_value, ValuePrecedes
<1>4. CASE ~ascending
  <2>1. /\ encode_key_value(x, ascending) = Complement(s)
        /\ encode_key_value(y, ascending) = Complement(t)
    BY <1>1, <1>4 DEF encode_key_value
  <2>2. Complement(s) \in Bytes /\ (Less(y, x) => Below(Complement(s), Complement(t)))
    BY <1>2, ComplementOrder
  <2> QED
    BY <1>2, <1>4, <2>1, <2>2 DEF ValuePrecedes
<1> QED
  BY <1>3, <1>4

\* Strings that differ within both do so whatever follows, and whatever precedes.
LEMMA BelowConcat ==
    ASSUME NEW s \in Bytes, NEW t \in Bytes, NEW u \in Bytes, NEW v \in Bytes
    PROVE  /\ s \o u \in Bytes
           /\ Below(s, t) => Below(s \o u, t \o v)
           /\ Below(u, v) => Below(s \o u, s \o v)
<1>1. /\ s \in Seq(0 .. ByteBase - 1) /\ t \in Seq(0 .. ByteBase - 1)
      /\ u \in Seq(0 .. ByteBase - 1) /\ v \in Seq(0 .. ByteBase - 1)
  BY DEF Bytes
<1>2. /\ Len(s) \in Nat /\ Len(t) \in Nat /\ Len(u) \in Nat /\ Len(v) \in Nat
  BY <1>1, LenProperties
<1>3. PICK c, d, e : c = s \o u /\ d = t \o v /\ e = s \o v
  OBVIOUS
<1>4. /\ c \in Seq(0 .. ByteBase - 1) /\ Len(c) = Len(s) + Len(u)
      /\ \A i \in 1 .. Len(s) + Len(u) : c[i] = IF i <= Len(s) THEN s[i] ELSE u[i - Len(s)]
  BY <1>1, <1>3, ConcatProperties
<1>5. /\ Len(d) = Len(t) + Len(v)
      /\ \A i \in 1 .. Len(t) + Len(v) : d[i] = IF i <= Len(t) THEN t[i] ELSE v[i - Len(t)]
  BY <1>1, <1>3, ConcatProperties
<1>6. /\ Len(e) = Len(s) + Len(v)
      /\ \A i \in 1 .. Len(s) + Len(v) : e[i] = IF i <= Len(s) THEN s[i] ELSE v[i - Len(s)]
  BY <1>1, <1>3, ConcatProperties
<1>7. ASSUME Below(s, t) PROVE Below(c, d)
  <2>1. PICK i \in 1 .. Len(s) : i \in 1 .. Len(t) /\ (\A j \in 1 .. i - 1 : s[j] = t[j])
                                 /\ s[i] < t[i]
    BY <1>7 DEF Below
  <2>2. ASSUME NEW j \in 1 .. i PROVE c[j] = s[j] /\ d[j] = t[j]
    <3>1. /\ j \in 1 .. Len(s) + Len(u) /\ j <= Len(s)
          /\ j \in 1 .. Len(t) + Len(v) /\ j <= Len(t)
      BY <1>2, <2>1
    <3> QED
      BY <1>4, <1>5, <3>1
  <2>3. i \in 1 .. Len(c) /\ i \in 1 .. Len(d) /\ i \in 1 .. i
    BY <1>2, <1>4, <1>5, <2>1
  <2>4. \A j \in 1 .. i - 1 : j \in 1 .. i
    OBVIOUS
  <2>5. c[i] < d[i] /\ \A j \in 1 .. i - 1 : c[j] = d[j]
    BY <2>1, <2>2, <2>3, <2>4
  <2> QED
    BY <2>3, <2>5 DEF Below
<1>8. ASSUME Below(u, v) PROVE Below(c, e)
  <2>1. PICK i \in 1 .. Len(u) : i \in 1 .. Len(v) /\ (\A j \in 1 .. i - 1 : u[j] = v[j])
                                 /\ u[i] < v[i]
    BY <1>8 DEF Below
  <2>2. PICK k \in Nat : k = Len(s) + i
    BY <1>2
  <2>3. k \in 1 .. Len(c) /\ k \in 1 .. Len(e) /\ k - Len(s) = i /\ ~(k <= Len(s))
    BY <1>2, <1>4, <1>6, <2>1, <2>2
  <2>4. c[k] = u[i] /\ e[k] = v[i]
    BY <1>4, <1>6, <2>3
  <2>5. ASSUME NEW j \in 1 .. k - 1 PROVE c[j] = e[j]
    <3>1. j \in 1 .. Len(s) + Len(u) /\ j \in 1 .. Len(s) + Len(v)
      BY <1>2, <2>1, <2>2
    <3>2. CASE j <= Len(s)
      BY <1>4, <1>6, <3>1, <3>2
    <3>3. CASE ~(j <= Len(s))
      <4>1. j - Len(s) \in 1 .. i - 1
        BY <1>2, <2>2, <3>3
      <4>2. u[j - Len(s)] = v[j - Len(s)]
        BY <2>1, <4>1
      <4> QED
        BY <1>4, <1>6, <3>1, <3>3, <4>2
    <3> QED
      BY <3>2, <3>3
  <2> QED
    BY <2>1, <2>3, <2>4, <2>5 DEF Below
<1> QED
  BY <1>3, <1>4, <1>7, <1>8 DEF Bytes
-----------------------------------------------------------------------------
(* The keys of rows.                                                         *)

SpecsOf(types) == [column : DOMAIN types, ascending : BOOLEAN]

\* A row of these types whose values have keys in their order.
PlainRow(x, types) ==
    \A i \in DOMAIN types : x[i] \in Data(types[i]) /\ Plain(x[i])

ColumnKey(x, spec) == encode_key_value(x[spec.column], spec.ascending)

KeyStep(x, types) == [p \in Bytes \X SpecsOf(types) |-> p[1] \o ColumnKey(x, p[2])]

\* A sort key names a column that there is.
LEMMA SpecFacts ==
    ASSUME NEW types \in Seq(DataTypes), NEW spec \in SpecsOf(types)
    PROVE  /\ spec.column \in DOMAIN types /\ spec.ascending \in BOOLEAN
           /\ types[spec.column] \in DataTypes
<1>1. spec.column \in DOMAIN types /\ spec.ascending \in BOOLEAN
  BY DEF SpecsOf
<1>2. \A i \in DOMAIN types : types[i] \in DataTypes
  OBVIOUS
<1> QED
  BY <1>1, <1>2

\* The key of a column is a byte string.
LEMMA ColumnKeyType ==
    ASSUME NEW types \in Seq(DataTypes), NEW spec \in SpecsOf(types),
           NEW x, PlainRow(x, types)
    PROVE  ColumnKey(x, spec) \in Bytes
<1>1. /\ spec.column \in DOMAIN types /\ spec.ascending \in BOOLEAN
      /\ types[spec.column] \in DataTypes
  BY SpecFacts
<1>2. x[spec.column] \in Data(types[spec.column]) /\ Plain(x[spec.column])
  BY <1>1 DEF PlainRow
<1> QED
  BY <1>1, <1>2, ColumnKeyOrder DEF ColumnKey

\* The key is the fold of its columns' keys.
LEMMA KeyIsFold ==
    ASSUME NEW types \in Seq(DataTypes), NEW specs \in Seq(SpecsOf(types)),
           NEW x, PlainRow(x, types)
    PROVE  /\ FoldTypes(Bytes, SpecsOf(types), KeyStep(x, types), <<>>, specs)
           /\ encode_sort_key(x, specs) = Fold(KeyStep(x, types), <<>>, specs)
<1> DEFINE Body(g) == [t \in SUBSET (DOMAIN specs) |->
                          IF t = {} THEN <<>>
                          ELSE g[t \ {Max(t)}]
                               \o encode_key_value(x[specs[Max(t)].column],
                                                   specs[Max(t)].ascending)]
           key == CHOOSE g : g = Body(g)
           E == SpecsOf(types)
           step == KeyStep(x, types)
<1>1. encode_sort_key(x, specs) = key[DOMAIN specs]
  BY Zenon DEF encode_sort_key, FoldLeft, MapThenFoldSet
<1>2. FoldTypes(Bytes, E, step, <<>>, specs)
  <2>1. <<>> \in Bytes
    BY DEF Bytes
  <2>2. \A s \in Bytes, spec \in E : s \o ColumnKey(x, spec) \in Bytes
    BY ColumnKeyType, BelowConcat
  <2>3. step \in [Bytes \X E -> Bytes]
    <3>1. \A p \in Bytes \X E : p[1] \in Bytes /\ p[2] \in E
      OBVIOUS
    <3>2. \A p \in Bytes \X E : p[1] \o ColumnKey(x, p[2]) \in Bytes
      BY <2>2, <3>1
    <3> QED
      BY <3>2, Zenon DEF KeyStep
  <2> QED
    BY <2>1, <2>3 DEF FoldTypes
<1>3. PICK it \in [SUBSET (DOMAIN specs) -> Bytes] : IsIteration(it, step, <<>>, specs)
  BY <1>2, IterationExists, Zenon
<1>4. \A t \in SUBSET (DOMAIN specs) : t # {} => Max(t) \in t /\ specs[Max(t)] \in E
  <2>1. DOMAIN specs = 1 .. Len(specs) /\ Len(specs) \in Nat
    BY LenProperties
  <2> QED
    BY <2>1, MaxOfPositions, ElementOfSeq
<1>5. \A s \in Bytes, spec \in E : step[<<s, spec>>] = s \o ColumnKey(x, spec)
  BY DEF KeyStep
<1>6. it = Body(it)
  <2>1. ASSUME NEW t \in SUBSET (DOMAIN specs)
        PROVE  it[t] = IF t = {} THEN <<>>
                       ELSE it[t \ {Max(t)}] \o ColumnKey(x, specs[Max(t)])
    <3>1. CASE t = {}
      BY <1>3, <3>1 DEF IsIteration
    <3>2. CASE t # {}
      <4>1. it[t] = step[<<it[t \ {Max(t)}], specs[Max(t)]>>]
        BY <1>3, <3>2 DEF IsIteration
      <4>2. it[t \ {Max(t)}] \in Bytes /\ specs[Max(t)] \in E
        BY <1>3, <1>4, <3>2
      <4> HIDE DEF step, E
      <4> QED
        BY <1>5, <3>2, <4>1, <4>2
    <3> QED
      BY <3>1, <3>2
  <2>2. it = [t \in SUBSET (DOMAIN specs) |-> it[t]]
    BY <1>3
  <2> QED
    BY <2>1, <2>2, Zenon DEF ColumnKey
<1>7. key = Body(key)
  BY <1>6, Zenon
<1> HIDE DEF key
<1>8. key[{}] = <<>>
  BY <1>7
<1>9. ASSUME NEW k \in 1 .. Len(specs), key[1 .. k - 1] \in Bytes
      PROVE  key[1 .. k] = step[<<key[1 .. k - 1], specs[k]>>]
  <2>1. /\ 1 .. k \in SUBSET (DOMAIN specs) /\ specs[k] \in E
        /\ k \in Nat \ {0} /\ 1 .. k # {}
    <3>1. DOMAIN specs = 1 .. Len(specs) /\ Len(specs) \in Nat
      BY LenProperties
    <3>2. specs[k] \in E
      BY ElementOfSeq
    <3>3. 1 .. k \in SUBSET (1 .. Len(specs))
      BY <3>1
    <3>4. k \in Nat \ {0} /\ 1 \in 1 .. k
      BY <3>1
    <3> QED
      BY <3>1, <3>2, <3>3, <3>4, Zenon
  <2>2. Max(1 .. k) = k /\ (1 .. k) \ {k} = 1 .. k - 1
    BY <2>1, MaxOfInterval
  <2>3. key[1 .. k] = key[1 .. k - 1] \o ColumnKey(x, specs[k])
    BY <1>7, <2>1, <2>2 DEF ColumnKey
  <2> HIDE DEF step, E
  <2> QED
    BY <1>5, <1>9, <2>1, <2>3
<1>10. IteratesPrefixes(key, Bytes, E, step, <<>>, specs)
  BY <1>2, <1>8, <1>9 DEF IteratesPrefixes
<1>11. key[DOMAIN specs] = Fold(step, <<>>, specs)
  BY <1>10, IterationIsFold
<1> QED
  BY <1>1, <1>2, <1>11, Zenon

ColumnPrecedes(x, y, spec) ==
    ValuePrecedes(x[spec.column], y[spec.column], spec.ascending)

\* compare_by_specs looks at each column in its direction.
LEMMA ColumnLessIs ==
    ASSUME NEW types \in Seq(DataTypes), NEW spec \in SpecsOf(types),
           NEW x, PlainRow(x, types), NEW y, PlainRow(y, types)
    PROVE  /\ ColumnLess(x, y, spec) <=> ColumnPrecedes(x, y, spec)
           /\ ~(ColumnPrecedes(x, y, spec) /\ ColumnPrecedes(y, x, spec))
<1>1. /\ spec.column \in DOMAIN types /\ spec.ascending \in BOOLEAN
      /\ types[spec.column] \in DataTypes
  BY SpecFacts
<1>2. PICK u, v : u = x[spec.column] /\ v = y[spec.column]
  OBVIOUS
<1>3. /\ u \in Data(types[spec.column]) /\ Plain(u)
      /\ v \in Data(types[spec.column]) /\ Plain(v)
  BY <1>1, <1>2 DEF PlainRow
<1>4. ~IsNaN(u) /\ ~IsNaN(v)
  BY <1>3 DEF Plain
<1>5. /\ partial_cmp(u, v) = "Less" <=> Less(u, v)
      /\ partial_cmp(u, v) = "Greater" <=> Less(v, u)
      /\ ~(Less(u, v) /\ Less(v, u))
  BY <1>1, <1>3, <1>4, PartialCmp, LessTotal
<1>6. ColumnLess(x, y, spec) <=> partial_cmp(u, v) = IF spec.ascending THEN "Less" ELSE "Greater"
  BY <1>2 DEF ColumnLess
<1>7. /\ ColumnPrecedes(x, y, spec) <=> IF spec.ascending THEN Less(u, v) ELSE Less(v, u)
      /\ ColumnPrecedes(y, x, spec) <=> IF spec.ascending THEN Less(v, u) ELSE Less(u, v)
  BY <1>2 DEF ColumnPrecedes, ValuePrecedes
<1> QED
  BY <1>1, <1>5, <1>6, <1>7

\* The i-th column decides that x comes first.
Decides(x, y, specs, i) ==
    /\ ColumnPrecedes(x, y, specs[i])
    /\ \A j \in 1 .. i - 1 : ~ColumnPrecedes(x, y, specs[j]) /\ ~ColumnPrecedes(y, x, specs[j])

Equals(x, y, specs, n) ==
    \A j \in 1 .. n : ~ColumnPrecedes(x, y, specs[j]) /\ ~ColumnPrecedes(y, x, specs[j])

\* The keys f and g of x and y over n columns are in the order those decide.
KeysFollow(x, y, specs, n, f, g) ==
    /\ f \in Bytes /\ g \in Bytes
    /\ \A i \in 1 .. n : Decides(x, y, specs, i) => Below(f, g)
    /\ \A i \in 1 .. n : Decides(y, x, specs, i) => Below(g, f)
    /\ Equals(x, y, specs, n) => f = g

\* If the keys of two rows follow their first n columns, so do those with one
\* column more.
LEMMA KeysFollowNext ==
    ASSUME NEW types \in Seq(DataTypes), NEW specs \in Seq(SpecsOf(types)),
           NEW x, PlainRow(x, types), NEW y, PlainRow(y, types),
           NEW n \in Nat, n + 1 <= Len(specs),
           NEW f, NEW g, KeysFollow(x, y, specs, n, f, g)
    PROVE  KeysFollow(x, y, specs, n + 1, f \o ColumnKey(x, specs[n + 1]),
                      g \o ColumnKey(y, specs[n + 1]))
<1>1. PICK spec \in SpecsOf(types) : spec = specs[n + 1]
  <2>1. n + 1 \in 1 .. Len(specs)
    BY LenProperties
  <2> QED
    BY <2>1, ElementOfSeq
<1>2. PICK k \in Bytes, l \in Bytes : k = ColumnKey(x, spec) /\ l = ColumnKey(y, spec)
  BY ColumnKeyType
<1>3. /\ ColumnPrecedes(x, y, spec) => Below(k, l)
      /\ ColumnPrecedes(y, x, spec) => Below(l, k)
      /\ ~ColumnPrecedes(x, y, spec) /\ ~ColumnPrecedes(y, x, spec) => k = l
  <2>1. /\ spec.column \in DOMAIN types /\ spec.ascending \in BOOLEAN
        /\ types[spec.column] \in DataTypes
    BY SpecFacts
  <2>2. PICK u, v : u = x[spec.column] /\ v = y[spec.column]
    OBVIOUS
  <2>3. /\ u \in Data(types[spec.column]) /\ Plain(u)
        /\ v \in Data(types[spec.column]) /\ Plain(v)
    BY <2>1, <2>2 DEF PlainRow
  <2>4. k = encode_key_value(u, spec.ascending) /\ l = encode_key_value(v, spec.ascending)
    BY <1>2, <2>2 DEF ColumnKey
  <2>5. /\ ColumnPrecedes(x, y, spec) <=> ValuePrecedes(u, v, spec.ascending)
        /\ ColumnPrecedes(y, x, spec) <=> ValuePrecedes(v, u, spec.ascending)
    BY <2>2 DEF ColumnPrecedes
  <2>6. /\ ValuePrecedes(u, v, spec.ascending) => Below(k, l)
        /\ ~ValuePrecedes(u, v, spec.ascending) /\ ~ValuePrecedes(v, u, spec.ascending) => k = l
    BY <2>1, <2>3, <2>4, ColumnKeyOrder
  <2>7. ValuePrecedes(v, u, spec.ascending) => Below(l, k)
    BY <2>1, <2>3, <2>4, ColumnKeyOrder
  <2> QED
    BY <2>5, <2>6, <2>7
<1>4. /\ f \in Bytes /\ g \in Bytes
      /\ \A i \in 1 .. n : Decides(x, y, specs, i) => Below(f, g)
      /\ \A i \in 1 .. n : Decides(y, x, specs, i) => Below(g, f)
      /\ Equals(x, y, specs, n) => f = g
  BY DEF KeysFollow
<1>5. /\ f \o k \in Bytes /\ g \o l \in Bytes
      /\ Below(f, g) => Below(f \o k, g \o l)
      /\ Below(g, f) => Below(g \o l, f \o k)
      /\ f = g /\ Below(k, l) => Below(f \o k, g \o l)
      /\ f = g /\ Below(l, k) => Below(g \o l, f \o k)
  BY <1>2, <1>4, BelowConcat
<1>6. /\ Decides(x, y, specs, n + 1) <=> ColumnPrecedes(x, y, spec) /\ Equals(x, y, specs, n)
      /\ Decides(y, x, specs, n + 1) <=> ColumnPrecedes(y, x, spec) /\ Equals(x, y, specs, n)
  <2>1. (n + 1) - 1 = n
    OBVIOUS
  <2> QED
    BY <1>1, <2>1 DEF Decides, Equals
<1>7. Equals(x, y, specs, n + 1) =>
          Equals(x, y, specs, n) /\ ~ColumnPrecedes(x, y, spec) /\ ~ColumnPrecedes(y, x, spec)
  <2>1. n + 1 \in 1 .. n + 1 /\ \A j \in 1 .. n : j \in 1 .. n + 1
    OBVIOUS
  <2> QED
    BY <1>1, <2>1 DEF Equals
<1>8. \A i \in 1 .. n + 1 : i \in 1 .. n \/ i = n + 1
  OBVIOUS
<1>9. \A i \in 1 .. n + 1 : Decides(x, y, specs, i) => Below(f \o k, g \o l)
  BY <1>3, <1>4, <1>5, <1>6, <1>8
<1>10. \A i \in 1 .. n + 1 : Decides(y, x, specs, i) => Below(g \o l, f \o k)
  BY <1>3, <1>4, <1>5, <1>6, <1>8
<1>11. Equals(x, y, specs, n + 1) => f \o k = g \o l
  BY <1>3, <1>4, <1>7
<1> QED
  BY <1>1, <1>2, <1>5, <1>9, <1>10, <1>11 DEF KeysFollow

\* So the keys of two rows follow all columns of the order.
LEMMA RowKeysFollow ==
    ASSUME NEW types \in Seq(DataTypes), NEW specs \in Seq(SpecsOf(types)),
           NEW x, PlainRow(x, types), NEW y, PlainRow(y, types)
    PROVE  KeysFollow(x, y, specs, Len(specs), encode_sort_key(x, specs),
                      encode_sort_key(y, specs))
<1>1. /\ FoldTypes(Bytes, SpecsOf(types), KeyStep(x, types), <<>>, specs)
      /\ encode_sort_key(x, specs) = Fold(KeyStep(x, types), <<>>, specs)
      /\ encode_sort_key(y, specs) = Fold(KeyStep(y, types), <<>>, specs)
  BY KeyIsFold
<1>2. PICK f : IsFoldOf(f, KeyStep(x, types), <<>>, specs)
               /\ encode_sort_key(x, specs) = f[Len(specs)]
  BY <1>1, FoldExists
<1>3. PICK g : IsFoldOf(g, KeyStep(y, types), <<>>, specs)
               /\ encode_sort_key(y, specs) = g[Len(specs)]
  BY <1>1, FoldExists
<1> DEFINE T == {n \in Nat : n <= Len(specs) => KeysFollow(x, y, specs, n, f[n], g[n])}
<1>4. 0 \in T
  <2>1. f[0] = <<>> /\ g[0] = <<>>
    BY <1>2, <1>3 DEF IsFoldOf
  <2>2. <<>> \in Bytes
    BY DEF Bytes
  <2>3. \A i \in 1 .. 0 : FALSE
    OBVIOUS
  <2>4. KeysFollow(x, y, specs, 0, f[0], g[0])
    BY <2>1, <2>2, <2>3, Zenon DEF KeysFollow
  <2> QED
    BY <2>4
<1>5. ASSUME NEW n \in Nat, n \in T PROVE n + 1 \in T
  <2> SUFFICES ASSUME n + 1 <= Len(specs)
               PROVE  KeysFollow(x, y, specs, n + 1, f[n + 1], g[n + 1])
    OBVIOUS
  <2>1. n <= Len(specs) /\ n + 1 \in 1 .. Len(specs) /\ (n + 1) - 1 = n
    BY LenProperties
  <2>2. KeysFollow(x, y, specs, n, f[n], g[n])
    BY <1>5, <2>1
  <2>3. f[n] \in Bytes /\ g[n] \in Bytes /\ specs[n + 1] \in SpecsOf(types)
    BY <2>1, <2>2, ElementOfSeq DEF KeysFollow
  <2>4. /\ f[n + 1] = KeyStep(x, types)[<<f[n], specs[n + 1]>>]
        /\ g[n + 1] = KeyStep(y, types)[<<g[n], specs[n + 1]>>]
    BY <1>2, <1>3, <2>1 DEF IsFoldOf
  <2>5. /\ f[n + 1] = f[n] \o ColumnKey(x, specs[n + 1])
        /\ g[n + 1] = g[n] \o ColumnKey(y, specs[n + 1])
    BY <2>3, <2>4 DEF KeyStep
  <2> QED
    BY <2>2, <2>5, KeysFollowNext
<1> HIDE DEF T
<1>6. Len(specs) \in T
  BY <1>4, <1>5, SetInduction, LenProperties
<1>7. KeysFollow(x, y, specs, Len(specs), f[Len(specs)], g[Len(specs)])
  BY <1>6, LenProperties DEF T
<1> QED
  BY <1>2, <1>3, <1>7

\* The two orders of two plain rows are one.
LEMMA RowKeyOrder ==
    ASSUME NEW types \in Seq(DataTypes), NEW specs \in Seq(SpecsOf(types)),
           NEW x, PlainRow(x, types), NEW y, PlainRow(y, types)
    PROVE  BytesLess(encode_sort_key(x, specs), encode_sort_key(y, specs))
               <=> compare_by_specs_less(x, y, specs)
<1>1. PICK f, g : f = encode_sort_key(x, specs) /\ g = encode_sort_key(y, specs)
  OBVIOUS
<1>2. PICK n \in Nat : n = Len(specs) /\ DOMAIN specs = 1 .. n
  BY LenProperties
<1>3. /\ f \in Bytes /\ g \in Bytes
      /\ \A i \in 1 .. n : Decides(x, y, specs, i) => Below(f, g)
      /\ \A i \in 1 .. n : Decides(y, x, specs, i) => Below(g, f)
      /\ Equals(x, y, specs, n) => f = g
  BY <1>1, <1>2, RowKeysFollow DEF KeysFollow
<1>4. ASSUME NEW i \in 1 .. n
      PROVE  /\ ColumnLess(x, y, specs[i]) <=> ColumnPrecedes(x, y, specs[i])
             /\ ColumnLess(y, x, specs[i]) <=> ColumnPrecedes(y, x, specs[i])
             /\ ~(ColumnPrecedes(x, y, specs[i]) /\ ColumnPrecedes(y, x, specs[i]))
  <2>1. specs[i] \in SpecsOf(types)
    BY <1>2, ElementOfSeq
  <2> QED
    BY <2>1, ColumnLessIs
<1>5. ASSUME NEW i \in 1 .. n
      PROVE  (ColumnLess(x, y, specs[i])
                 /\ \A j \in 1 .. i - 1 :
                        ~ColumnLess(x, y, specs[j]) /\ ~ColumnLess(y, x, specs[j]))
             <=> Decides(x, y, specs, i)
  <2>1. \A j \in 1 .. i - 1 : j \in 1 .. n
    OBVIOUS
  <2> QED
    BY <1>4, <2>1 DEF Decides
<1>6. compare_by_specs_less(x, y, specs) <=> \E i \in 1 .. n : Decides(x, y, specs, i)
  BY <1>2, <1>5, Zenon DEF compare_by_specs_less
<1>7. CASE \E i \in 1 .. n : Decides(x, y, specs, i)
  <2>1. BytesLess(f, g)
    BY <1>3, <1>7, BelowIsLess
  <2> QED
    BY <1>1, <1>6, <1>7, <2>1
<1>8. CASE ~\E i \in 1 .. n : Decides(x, y, specs, i)
  <2>1. ~BytesLess(f, g)
    <3>1. CASE \E i \in 1 .. n : Decides(y, x, specs, i)
      <4>1. BytesLess(g, f)
        BY <1>3, <3>1, BelowIsLess
      <4> QED
        BY <1>3, <4>1, BytesAsymmetric
    <3>2. CASE ~\E i \in 1 .. n : Decides(y, x, specs, i)
      <4>1. Equals(x, y, specs, n)
        <5> DEFINE Differ == {i \in 1 .. n : ColumnPrecedes(x, y, specs[i])
                                             \/ ColumnPrecedes(y, x, specs[i])}
        <5>1. ASSUME Differ # {} PROVE FALSE
          <6>1. Differ \subseteq Nat
            OBVIOUS
          <6>2. PICK i \in Differ : \A j \in Differ : i <= j
            <7> HIDE DEF Differ
            <7> QED
              BY <5>1, <6>1, LeastNumber
          <6>3. ASSUME NEW j \in 1 .. i - 1 PROVE j \notin Differ
            BY <6>2
          <6>4. i \in 1 .. n /\ \A j \in 1 .. i - 1 : j \in 1 .. n
            OBVIOUS
          <6>5. \A j \in 1 .. i - 1 : ~ColumnPrecedes(x, y, specs[j])
                                      /\ ~ColumnPrecedes(y, x, specs[j])
            BY <6>3, <6>4
          <6>6. ColumnPrecedes(x, y, specs[i]) \/ ColumnPrecedes(y, x, specs[i])
            BY <6>2
          <6> HIDE DEF Differ
          <6>7. Decides(x, y, specs, i) \/ Decides(y, x, specs, i)
            BY <6>5, <6>6, Zenon DEF Decides
          <6> QED
            BY <1>8, <3>2, <6>4, <6>7
        <5> QED
          BY <5>1, Zenon DEF Equals
      <4>2. f = g
        BY <1>3, <4>1
      <4>3. ~BytesLess(f, f)
        BY <1>3, BytesAsymmetric
      <4> QED
        BY <4>2, <4>3
    <3> QED
      BY <3>1, <3>2
  <2> QED
    BY <1>1, <1>6, <1>8, <2>1
<1> QED
  BY <1>7, <1>8

-----------------------------------------------------------------------------
(* Rows that meet.                                                           *)

\* The rows are of the schema, and so is the order.
RowsMeet ==
    /\ schema \in Schemas /\ sort_specs \in SortSpecs
    /\ a \in RowsOf(schema) /\ b \in RowsOf(schema)

\* Every pair that meets is of rows of the schema, with an order that the schema
\* has.
THEOREM RowsAlwaysMeet == PairSpec => []RowsMeet
<1>1. PairInit => RowsMeet
  BY DEF PairInit, RowsMeet
<1>2. RowsMeet /\ [Meet]_pair_vars => RowsMeet'
  BY DEF RowsMeet, Meet, pair_vars
<1> QED
  BY <1>1, <1>2, PTL DEF PairSpec

\* What the schema says of two rows that meet.
LEMMA MeetFacts ==
    ASSUME RowsMeet
    PROVE  /\ schema \in Seq(DataTypes)
           /\ sort_specs \in Seq(SpecsOf(schema))
           /\ DOMAIN a = DOMAIN schema /\ DOMAIN b = DOMAIN schema
           /\ \A i \in DOMAIN schema : /\ a[i] \in Data(schema[i])
                                       /\ b[i] \in Data(schema[i])
                                       /\ schema[i] \in DataTypes
<1>1. schema \in Schemas /\ sort_specs \in SortSpecs
      /\ a \in RowsOf(schema) /\ b \in RowsOf(schema)
  BY DEF RowsMeet
<1>2. schema \in Seq(DataTypes)
  BY <1>1, RowsAssumption
<1>3. sort_specs \in Seq(SpecsOf(schema))
  BY <1>1, SortSpecsAssumption DEF SpecsOf
<1>4. ASSUME NEW row \in RowsOf(schema)
      PROVE  DOMAIN row = DOMAIN schema /\ \A i \in DOMAIN schema : row[i] \in Data(schema[i])
  <2>1. row = [i \in DOMAIN schema |-> row[i]]
    BY <1>1, RowsAssumption
  <2>2. DOMAIN [i \in DOMAIN schema |-> row[i]] = DOMAIN schema
    OBVIOUS
  <2> QED
    BY <1>1, <2>1, <2>2, RowsAssumption
<1>5. \A i \in DOMAIN schema : schema[i] \in DataTypes
  BY <1>2
<1> QED
  BY <1>1, <1>2, <1>3, <1>4, <1>5

\* The values of the two rows are those at their positions.
LEMMA ValuesOfRows ==
    ASSUME RowsMeet, NEW i \in DOMAIN schema
    PROVE  a[i] \in ToSet(a \o b) /\ b[i] \in ToSet(a \o b)
<1>1. PICK n \in Nat : n = Len(schema) /\ DOMAIN schema = 1 .. n
  BY MeetFacts, LenProperties
<1>2. PICK V : V = UNION {Data(type) : type \in DataTypes}
  OBVIOUS
<1>3. ASSUME NEW row \in RowsOf(schema)
      PROVE  row \in Seq(V) /\ Len(row) = n
  <2>1. schema \in Schemas /\ \A k \in DOMAIN schema : schema[k] \in DataTypes
    BY MeetFacts DEF RowsMeet
  <2>2. row = [k \in 1 .. n |-> row[k]]
    BY <1>1, <2>1, RowsAssumption
  <2>3. \A k \in 1 .. n : row[k] \in V
    BY <1>1, <1>2, <2>1, RowsAssumption
  <2>4. row \in [1 .. n -> V]
    BY <2>2, <2>3
  <2> QED
    BY <2>4, SeqDef, LenProperties
<1>4. a \in Seq(V) /\ Len(a) = n /\ b \in Seq(V) /\ Len(b) = n
  BY <1>3 DEF RowsMeet
<1>5. /\ a \o b \in Seq(V) /\ Len(a \o b) = n + n
      /\ \A k \in 1 .. n + n : (a \o b)[k] = IF k <= n THEN a[k] ELSE b[k - n]
  BY <1>4, ConcatProperties
<1>6. DOMAIN (a \o b) = 1 .. n + n
  BY <1>5, LenProperties
<1>7. i \in 1 .. n + n /\ i + n \in 1 .. n + n /\ i <= n /\ ~(i + n <= n) /\ (i + n) - n = i
  BY <1>1
<1>8. (a \o b)[i] = a[i] /\ (a \o b)[i + n] = b[i]
  BY <1>5, <1>7
<1>9. \A k \in 1 .. n + n : (a \o b)[k] \in ToSet(a \o b)
  BY <1>6, Zenon DEF ToSet
<1> QED
  BY <1>7, <1>8, <1>9

\* The order in which a merge pops the heads of the runs, that of the byte keys, is
\* the order compare_by_specs sorted each run by, for every schema, ORDER BY list
\* and pair of rows without a NaN, a minus zero or a NUL.
THEOREM KeyOrderAlwaysAgrees == PairSpec => []KeyOrderAgrees
<1>1. RowsMeet => KeyOrderAgrees
  <2> SUFFICES ASSUME RowsMeet,
                      \A x \in ToSet(a \o b) : ~IsNaN(x) /\ ~MinusZero(x) /\ ~HasNul(x)
               PROVE  BytesLess(encode_sort_key(a, sort_specs), encode_sort_key(b, sort_specs))
                          <=> compare_by_specs_less(a, b, sort_specs)
    BY Zenon DEF KeyOrderAgrees
  <2>1. /\ schema \in Seq(DataTypes)
        /\ sort_specs \in Seq(SpecsOf(schema))
        /\ \A i \in DOMAIN schema : a[i] \in Data(schema[i]) /\ b[i] \in Data(schema[i])
    BY MeetFacts
  <2>2. \A i \in DOMAIN schema : Plain(a[i]) /\ Plain(b[i])
    BY ValuesOfRows DEF Plain
  <2>3. PlainRow(a, schema) /\ PlainRow(b, schema)
    BY <2>1, <2>2 DEF PlainRow
  <2> QED
    BY <2>1, <2>3, RowKeyOrder
<1> QED
  BY <1>1, RowsAlwaysMeet, PTL
-----------------------------------------------------------------------------
(* Rounding to a Float64.                                                    *)

Value64(mag) == Magnitude("Float64", mag)

BelowOf(size) ==
    CHOOSE mag \in 0 .. Infinity("Float64") - 1 : Value64(mag) <= size /\ size < Value64(mag + 1)

\* The magnitude of the nearest Float64.
NearestMag(size) ==
    LET below == BelowOf(size)
        up == Value64(below + 1) - size < size - Value64(below)
        tie == Value64(below + 1) - size = size - Value64(below)
    IN  IF up \/ (tie /\ below % 2 = 1) THEN below + 1 ELSE below

\* The nearest float has the sign of the number and the nearest magnitude.
LEMMA NearestIs ==
    ASSUME NEW n
    PROVE  Nearest(n) = [type |-> "Float64", neg |-> n < 0,
                         mag |-> NearestMag(IF n < 0 THEN 0 - n ELSE n)]
  BY Zenon DEF Nearest, NearestMag, BelowOf, Value64

\* What a Float64 stands for grows with its bits, up to infinity.
LEMMA Value64Grows ==
    ASSUME NEW m \in Nat, NEW n \in Nat
    PROVE  /\ Value64(m) \in Nat /\ (Value64(m) < Value64(n) <=> m < n)
           /\ (Value64(m) = Value64(n) <=> m = n) /\ Value64(0) = 0
           /\ Infinity("Float64") \in Nat \ {0} /\ Value64(Infinity("Float64")) = Top
           /\ Top \in Nat
<1>1. "Float64" \in Floating
  BY DEF Floating
<1>2. Infinity("Float64") \in Nat \ {0}
  BY <1>1, HiddenType
<1> QED
  BY <1>1, <1>2, MagnitudeGrows DEF Value64, Top

\* There is a largest float that is not more, and one after it.
LEMMA BelowOfFacts ==
    ASSUME NEW s \in Nat, s < Top
    PROVE  /\ BelowOf(s) \in Nat /\ BelowOf(s) < Infinity("Float64")
           /\ Value64(BelowOf(s)) <= s /\ s < Value64(BelowOf(s) + 1)
<1>1. PICK i \in Nat \ {0} : i = Infinity("Float64") /\ Value64(i) = Top
  BY Value64Grows
<1> DEFINE More == {m \in Nat : m <= i /\ s < Value64(m)}
<1>2. More \subseteq Nat /\ i \in More
  BY <1>1
<1>3. PICK m \in More : \A n \in More : m <= n
  <2> HIDE DEF More
  <2> QED
    BY <1>2, LeastNumber
<1>4. m \in Nat /\ m <= i /\ s < Value64(m)
  OBVIOUS
<1>5. m # 0
  BY <1>4, Value64Grows
<1>6. PICK k \in Nat : k + 1 = m
  <2>1. m - 1 \in Nat /\ (m - 1) + 1 = m
    BY <1>4, <1>5
  <2> QED
    BY <2>1
<1>7. k \notin More
  BY <1>3, <1>4, <1>6
<1>8. Value64(k) <= s
  <2>1. k <= i /\ Value64(k) \in Nat
    BY <1>4, <1>6, Value64Grows
  <2> QED
    BY <1>7, <2>1
<1>9. k \in 0 .. i - 1
  BY <1>4, <1>6
<1>10. \E mag \in 0 .. Infinity("Float64") - 1 : Value64(mag) <= s /\ s < Value64(mag + 1)
  BY <1>1, <1>4, <1>6, <1>8, <1>9
<1>11. /\ BelowOf(s) \in 0 .. Infinity("Float64") - 1
       /\ Value64(BelowOf(s)) <= s /\ s < Value64(BelowOf(s) + 1)
  BY <1>10, Zenon DEF BelowOf
<1> QED
  BY <1>1, <1>11

\* The nearest float is one of the two around the number, and the lower one if the
\* number is that.
LEMMA NearestMagFacts ==
    ASSUME NEW s \in Nat, s < Top
    PROVE  /\ NearestMag(s) \in 0 .. Infinity("Float64")
           /\ NearestMag(s) = BelowOf(s) \/ NearestMag(s) = BelowOf(s) + 1
           /\ s = Value64(BelowOf(s)) => NearestMag(s) = BelowOf(s)
<1>1. PICK m \in Nat : /\ m = BelowOf(s) /\ m < Infinity("Float64")
                       /\ Value64(m) <= s /\ s < Value64(m + 1)
  BY BelowOfFacts
<1>2. PICK p \in Nat, q \in Nat, i \in Nat :
          p = Value64(m) /\ q = Value64(m + 1) /\ i = Infinity("Float64")
  BY Value64Grows
<1>3. NearestMag(s) = IF q - s < s - p \/ (q - s = s - p /\ m % 2 = 1) THEN m + 1 ELSE m
  BY <1>1, <1>2, Zenon DEF NearestMag
<1>4. NearestMag(s) = m \/ NearestMag(s) = m + 1
  BY <1>3
<1>5. s = p => NearestMag(s) = m
  BY <1>1, <1>2, <1>3
<1> QED
  BY <1>1, <1>2, <1>4, <1>5

\* Floats are nearest to themselves.
LEMMA NearestExact ==
    ASSUME NEW m \in Nat, m < Infinity("Float64")
    PROVE  Value64(m) < Top /\ Value64(m) \in Nat /\ NearestMag(Value64(m)) = m
<1>1. Value64(m) \in Nat /\ Value64(m) < Top
  <2>1. Infinity("Float64") \in Nat /\ Value64(Infinity("Float64")) = Top
    BY Value64Grows
  <2> QED
    BY <2>1, Value64Grows
<1>2. PICK s \in Nat : s = Value64(m) /\ s < Top
  BY <1>1
<1>3. PICK k \in Nat : k = BelowOf(s) /\ Value64(k) <= s /\ s < Value64(k + 1)
  BY <1>2, BelowOfFacts
<1>4. k = m
  <2>1. m < k + 1
    BY <1>2, <1>3, Value64Grows
  <2>2. ~(m < k)
    <3>1. Value64(m) \in Nat /\ Value64(k) \in Nat /\ (m < k => Value64(m) < Value64(k))
      BY Value64Grows
    <3> QED
      BY <1>2, <1>3, <3>1
  <2> QED
    BY <2>1, <2>2
<1>5. NearestMag(s) = k
  BY <1>2, <1>3, <1>4, NearestMagFacts
<1> QED
  BY <1>1, <1>2, <1>4, <1>5

\* Rounding keeps the order, though it may make numbers equal.
LEMMA NearestMonotone ==
    ASSUME NEW s \in Nat, NEW t \in Nat, s <= t, t < Top
    PROVE  NearestMag(s) <= NearestMag(t)
<1>0. s < Top
  BY Value64Grows
<1>1. PICK m \in Nat : m = BelowOf(s) /\ Value64(m) <= s /\ s < Value64(m + 1)
  BY <1>0, BelowOfFacts
<1>2. PICK n \in Nat : n = BelowOf(t) /\ Value64(n) <= t /\ t < Value64(n + 1)
  BY BelowOfFacts
<1>3. m <= n
  <2>1. Value64(m) \in Nat /\ Value64(n + 1) \in Nat
    BY Value64Grows
  <2>2. Value64(m) < Value64(n + 1)
    BY <1>1, <1>2, <2>1
  <2>3. m < n + 1
    BY <2>2, Value64Grows
  <2> QED
    BY <2>3
<1>4. /\ NearestMag(s) = m \/ NearestMag(s) = m + 1
      /\ NearestMag(t) = n \/ NearestMag(t) = n + 1
  BY <1>0, <1>1, <1>2, NearestMagFacts
<1>5. CASE m < n
  BY <1>4, <1>5
<1>6. CASE m = n
  <2>1. PICK p \in Nat, q \in Nat : p = Value64(m) /\ q = Value64(m + 1)
    BY Value64Grows
  <2>2. /\ NearestMag(s) = IF q - s < s - p \/ (q - s = s - p /\ m % 2 = 1) THEN m + 1 ELSE m
        /\ NearestMag(t) = IF q - t < t - p \/ (q - t = t - p /\ m % 2 = 1) THEN m + 1 ELSE m
    BY <1>1, <1>2, <1>6, <2>1, Zenon DEF NearestMag
  <2>3. CASE q - s < s - p
    <3>1. q - t < t - p
      BY <2>3
    <3> QED
      BY <2>2, <3>1
  <2>4. CASE q - s = s - p /\ m % 2 = 1
    <3>1. q - t < t - p \/ (q - t = t - p /\ m % 2 = 1)
      BY <2>4
    <3> QED
      BY <2>2, <3>1
  <2>5. CASE ~(q - s < s - p) /\ ~(q - s = s - p /\ m % 2 = 1)
    <3>1. NearestMag(s) = m
      BY <2>2, <2>5
    <3> QED
      BY <1>4, <1>6, <3>1
  <2> QED
    BY <2>3, <2>4, <2>5
<1> QED
  BY <1>3, <1>5, <1>6

\* The exact value of the Float64 nearest to a number, with infinities.
RoundSize(s) == IF s = Top THEN Top ELSE Value64(NearestMag(s))
Round(n) == IF n < 0 THEN 0 - RoundSize(0 - n) ELSE RoundSize(n)

\* Of two sizes up to infinity the larger is not rounded to less.
LEMMA RoundSizeFacts ==
    ASSUME NEW s \in Nat, NEW t \in Nat, s <= t, t <= Top
    PROVE  RoundSize(s) \in Nat /\ RoundSize(t) \in Nat /\ RoundSize(s) <= RoundSize(t)
<1>1. Top \in Nat
  BY Value64Grows
<1>2. ASSUME NEW c \in Nat, c < Top
      PROVE  /\ NearestMag(c) \in Nat /\ Value64(NearestMag(c)) \in Nat
             /\ Value64(NearestMag(c)) <= Top
  <2>1. PICK i \in Nat : i = Infinity("Float64") /\ Value64(i) = Top
    BY Value64Grows
  <2>2. PICK m \in Nat : m = NearestMag(c) /\ m <= i
    BY <1>2, <2>1, NearestMagFacts
  <2>3. /\ Value64(m) \in Nat /\ (m < i => Value64(m) < Value64(i))
    BY Value64Grows
  <2> QED
    BY <2>1, <2>2, <2>3, <1>1
<1>3. CASE t = Top
  <2>1. RoundSize(t) = Top
    BY <1>3 DEF RoundSize
  <2>2. RoundSize(s) \in Nat /\ RoundSize(s) <= Top
    <3>1. CASE s = Top
      BY <1>1, <3>1 DEF RoundSize
    <3>2. CASE s < Top
      BY <1>1, <1>2, <3>2 DEF RoundSize
    <3> QED
      BY <1>1, <1>3, <3>1, <3>2
  <2> QED
    BY <1>1, <2>1, <2>2
<1>4. CASE t < Top
  <2>1. s < Top /\ s # Top /\ t # Top
    BY <1>1, <1>4
  <2>2. PICK m \in Nat, n \in Nat : m = NearestMag(s) /\ n = NearestMag(t)
    BY <1>2, <1>4, <2>1
  <2>3. m <= n
    BY <1>4, <2>2, NearestMonotone
  <2>4. Value64(m) \in Nat /\ Value64(n) \in Nat /\ (m < n => Value64(m) < Value64(n))
    BY Value64Grows
  <2>5. Value64(m) <= Value64(n)
    BY <2>3, <2>4
  <2> QED
    BY <2>1, <2>2, <2>4, <2>5 DEF RoundSize
<1> QED
  BY <1>1, <1>3, <1>4

\* Nor is the larger of two numbers, whatever their signs are.
LEMMA RoundMonotone ==
    ASSUME NEW m \in Int, NEW n \in Int, 0 - Top <= m, m <= n, n <= Top
    PROVE  Round(m) \in Int /\ Round(n) \in Int /\ Round(m) <= Round(n)
<1>1. Top \in Nat
  BY Value64Grows
<1>2. CASE 0 <= m
  <2>1. m \in Nat /\ n \in Nat /\ ~(m < 0) /\ ~(n < 0)
    BY <1>2
  <2>2. RoundSize(m) \in Nat /\ RoundSize(n) \in Nat /\ RoundSize(m) <= RoundSize(n)
    BY <2>1, RoundSizeFacts
  <2> QED
    BY <2>1, <2>2 DEF Round
<1>3. CASE n < 0
  <2>1. 0 - m \in Nat /\ 0 - n \in Nat /\ 0 - n <= 0 - m /\ 0 - m <= Top /\ m < 0
    BY <1>1, <1>3
  <2>2. /\ RoundSize(0 - m) \in Nat /\ RoundSize(0 - n) \in Nat
        /\ RoundSize(0 - n) <= RoundSize(0 - m)
    BY <2>1, RoundSizeFacts
  <2>3. Round(m) = 0 - RoundSize(0 - m) /\ Round(n) = 0 - RoundSize(0 - n)
    BY <1>3, <2>1 DEF Round
  <2> QED
    BY <2>2, <2>3
<1>4. CASE m < 0 /\ 0 <= n
  <2>1. 0 - m \in Nat /\ 0 - m <= Top /\ n \in Nat
    BY <1>1, <1>4
  <2>2. RoundSize(0 - m) \in Nat /\ RoundSize(n) \in Nat
    BY <2>1, RoundSizeFacts
  <2>3. Round(m) = 0 - RoundSize(0 - m) /\ Round(n) = RoundSize(n)
    BY <1>4 DEF Round
  <2> QED
    BY <2>2, <2>3
<1> QED
  BY <1>2, <1>3, <1>4

\* What a Float64 stands for.
LEMMA Float64Exact ==
    ASSUME NEW neg \in BOOLEAN, NEW m \in Nat,
           NEW x, x = [type |-> "Float64", neg |-> neg, mag |-> m]
    PROVE  /\ x.type = "Float64" /\ Numeric(x)
           /\ IsNaN(x) <=> m > Infinity("Float64")
           /\ ~IsNaN(x) => Exact(x) = IF neg THEN 0 - Value64(m) ELSE Value64(m)
<1>1. x.type = "Float64" /\ x.neg = neg /\ x.mag = m
  OBVIOUS
<1>2. x.type \in Floating /\ x.type \notin Integral /\ Numeric(x)
  BY <1>1 DEF Floating, Integral, Numeric
<1>3. IsNaN(x) <=> m > Infinity("Float64")
  BY <1>1, <1>2 DEF IsNaN
<1>4. Exact(x) = IF neg THEN 0 - Value64(m) ELSE Value64(m)
  <2>1. (IF m = Infinity("Float64") THEN Magnitude("Float64", Infinity("Float64"))
         ELSE Magnitude("Float64", m)) = Value64(m)
    BY DEF Value64
  <2>2. Exact(x) = LET size == IF m = Infinity("Float64")
                              THEN Magnitude("Float64", Infinity("Float64"))
                              ELSE Magnitude("Float64", m)
                   IN  IF neg THEN 0 - size ELSE size
    BY <1>1, <1>2, Zenon DEF Exact
  <2> QED
    BY <2>1, <2>2
<1> QED
  BY <1>1, <1>2, <1>3, <1>4

\* A Float64 is nearest to itself.
LEMMA RoundExact ==
    ASSUME NEW m \in Nat, m <= Infinity("Float64")
    PROVE  /\ Value64(m) \in Nat /\ Round(Value64(m)) = Value64(m)
           /\ Round(0 - Value64(m)) = 0 - Value64(m)
<1>1. PICK v \in Nat : v = Value64(m)
  BY Value64Grows
<1>2. RoundSize(v) = v
  <2>1. Infinity("Float64") \in Nat /\ Value64(Infinity("Float64")) = Top
    BY Value64Grows
  <2>2. CASE m = Infinity("Float64")
    BY <1>1, <2>1, <2>2 DEF RoundSize
  <2>3. CASE m < Infinity("Float64")
    <3>1. v # Top /\ NearestMag(v) = m
      BY <1>1, <2>3, NearestExact, Value64Grows
    <3> QED
      BY <1>1, <3>1 DEF RoundSize
  <2> QED
    BY <2>1, <2>2, <2>3
<1>3. Round(v) = v
  BY <1>2 DEF Round
<1>4. Round(0 - v) = 0 - v
  <2>1. CASE v = 0
    <3>1. 0 - v = v
      BY <2>1
    <3> QED
      BY <1>3, <3>1
  <2>2. CASE v # 0
    <3>1. 0 - v < 0 /\ 0 - (0 - v) = v
      BY <2>2
    <3> QED
      BY <1>2, <3>1 DEF Round
  <2> QED
    BY <2>1, <2>2
<1> QED
  BY <1>1, <1>3, <1>4

\* A number that is rounded by its size, with a sign of its own.
LEMMA RoundSigned ==
    ASSUME NEW n \in Int, 0 - Top < n, n < Top, NEW neg \in BOOLEAN,
           n < 0 => neg, n > 0 => ~neg
    PROVE  /\ Nearest(n).mag \in 0 .. Infinity("Float64")
           /\ Round(n) = IF neg THEN 0 - Value64(Nearest(n).mag) ELSE Value64(Nearest(n).mag)
<1>1. Top \in Nat
  BY Value64Grows
<1>2. PICK s \in Nat : s = (IF n < 0 THEN 0 - n ELSE n) /\ s < Top
  BY <1>1
<1>3. Nearest(n).mag = NearestMag(s)
  <2>1. Nearest(n) = [type |-> "Float64", neg |-> n < 0,
                      mag |-> NearestMag(IF n < 0 THEN 0 - n ELSE n)]
    BY NearestIs
  <2>2. Nearest(n).mag = NearestMag(IF n < 0 THEN 0 - n ELSE n)
    BY <2>1
  <2> QED
    BY <1>2, <2>2
<1>4. NearestMag(s) \in 0 .. Infinity("Float64")
  BY <1>2, NearestMagFacts
<1>5. RoundSize(s) = Value64(NearestMag(s))
  BY <1>1, <1>2 DEF RoundSize
<1>6. CASE n # 0
  <2>1. Round(n) = IF neg THEN 0 - RoundSize(s) ELSE RoundSize(s)
    BY <1>2, <1>6 DEF Round
  <2> QED
    BY <1>3, <1>4, <1>5, <2>1
<1>7. CASE n = 0
  <2>1. Value64(0) = 0 /\ 0 < Infinity("Float64")
    BY Value64Grows
  <2>2. NearestMag(0) = 0
    BY <2>1, NearestExact
  <2>3. s = 0 /\ Round(n) = RoundSize(0)
    BY <1>2, <1>7 DEF Round
  <2>4. 0 - Value64(0) = 0
    BY <2>1
  <2> QED
    BY <1>3, <1>4, <1>5, <2>1, <2>2, <2>3, <2>4
<1> QED
  BY <1>6, <1>7

\* Every number becomes the Float64 nearest to it, and a NaN a NaN.
LEMMA Converted ==
    ASSUME NEW type \in Numbers, NEW x \in Data(type)
    PROVE  /\ to_f64(x).type = "Float64" /\ Numeric(to_f64(x))
           /\ IsNaN(to_f64(x)) <=> IsNaN(x)
           /\ ~IsNaN(x) => Exact(to_f64(x)) = Round(Exact(x))
<1>0. Top \in Nat /\ Infinity("Float64") \in Nat \ {0}
  BY Value64Grows
<1>1. CASE type = "Float64"
  <2>1. type \in Floating
    BY <1>1 DEF Floating
  <2>2. x.type = "Float64" /\ Numeric(x)
    BY <1>1, <2>1, FloatFacts
  <2>3. to_f64(x) = x
    BY <2>2 DEF to_f64, Integral
  <2>4. ASSUME ~IsNaN(x) PROVE Exact(x) = Round(Exact(x))
    <3>1. PICK m \in Nat : m = x.mag /\ m <= Infinity("Float64")
      BY <1>0, <1>1, <2>1, <2>4, FloatFacts
    <3>2. Size("Float64", m) = Value64(m)
      BY Value64Grows DEF Size, Value64
    <3>3. Exact(x) = IF x.neg THEN 0 - Value64(m) ELSE Value64(m)
      BY <1>1, <2>1, <3>1, <3>2, FloatFacts
    <3> QED
      BY <3>1, <3>3, RoundExact
  <2> QED
    BY <2>2, <2>3, <2>4
<1>2. CASE type = "Float32"
  <2>1. type \in Floating
    BY <1>2 DEF Floating
  <2>2. x.type = "Float32" /\ x.neg \in BOOLEAN /\ (IsNaN(x) <=> x.mag > Infinity("Float32"))
    BY <1>2, <2>1, FloatFacts
  <2>3. PICK m \in Nat, i \in Nat : m = x.mag /\ i = Infinity("Float32")
    BY <1>2, <2>1, FloatFacts, HiddenType
  <2>4. Exact(x) = IF x.neg THEN 0 - Size("Float32", m) ELSE Size("Float32", m)
    BY <1>2, <2>1, <2>3, FloatFacts
  <2>5. CASE m >= i
    <3>1. to_f64(x) = [type |-> "Float64", neg |-> x.neg,
                       mag |-> Infinity("Float64") + x.mag - Infinity("Float32")]
      BY <2>2, <2>3, <2>5 DEF to_f64, Integral
    <3>2. PICK n \in Nat : n = Infinity("Float64") + x.mag - Infinity("Float32")
      BY <1>0, <2>3, <2>5
    <3>3. to_f64(x) = [type |-> "Float64", neg |-> x.neg, mag |-> n]
      BY <3>1, <3>2
    <3>4. /\ to_f64(x).type = "Float64" /\ Numeric(to_f64(x))
          /\ IsNaN(to_f64(x)) <=> n > Infinity("Float64")
          /\ ~IsNaN(to_f64(x)) =>
                 Exact(to_f64(x)) = IF x.neg THEN 0 - Value64(n) ELSE Value64(n)
      BY <2>2, <3>3, Float64Exact
    <3>5. n > Infinity("Float64") <=> m > i
      BY <1>0, <2>3, <3>2
    <3>6. ASSUME ~IsNaN(x) PROVE Exact(to_f64(x)) = Round(Exact(x))
      <4>1. m = i /\ n = Infinity("Float64")
        BY <1>0, <2>2, <2>3, <2>5, <3>2, <3>6
      <4>2. Size("Float32", m) = Top /\ Value64(n) = Top
        BY <2>3, <4>1, Value64Grows DEF Size
      <4>3. Round(Top) = Top /\ Round(0 - Top) = 0 - Top
        BY <1>0, <4>1, <4>2, RoundExact
      <4> QED
        BY <2>2, <2>3, <2>4, <3>4, <3>5, <3>6, <4>2, <4>3
    <3> QED
      BY <2>2, <2>3, <3>4, <3>5, <3>6
  <2>6. CASE m < i
    <3>1. m # i /\ m \in 0 .. i /\ ~(m >= i) /\ ~(m > i)
      BY <2>6
    <3>2. PICK s \in Nat : s = Size("Float32", m) /\ s < Top
      BY <1>2, <2>1, <2>3, <3>1, SizeGrows
    <3>3. PICK e \in Int : e = Exact(x) /\ e = IF x.neg THEN 0 - s ELSE s
      BY <2>4, <3>2
    <3>4. /\ 0 - Top < e /\ e < Top /\ (e < 0 => x.neg) /\ (e > 0 => ~x.neg)
      BY <1>0, <3>2, <3>3
    <3>5. PICK n \in Nat : n = Nearest(e).mag /\ n <= Infinity("Float64")
      BY <1>0, <2>2, <3>4, RoundSigned
    <3>6. Round(e) = IF x.neg THEN 0 - Value64(n) ELSE Value64(n)
      BY <2>2, <3>4, <3>5, RoundSigned
    <3>7. to_f64(x) = [type |-> "Float64", neg |-> x.neg, mag |-> n]
      <4>1. to_f64(x) = [Nearest(Exact(x)) EXCEPT !.neg = x.neg]
        BY <2>2, <2>3, <3>1 DEF to_f64, Integral
      <4>2. Nearest(e) = [type |-> "Float64", neg |-> e < 0,
                          mag |-> NearestMag(IF e < 0 THEN 0 - e ELSE e)]
        BY NearestIs
      <4>3. n = NearestMag(IF e < 0 THEN 0 - e ELSE e)
        BY <3>5, <4>2
      <4>4. Nearest(e) = [type |-> "Float64", neg |-> e < 0, mag |-> n]
        BY <4>2, <4>3
      <4>5. PICK c, d : c = x.neg /\ d = (e < 0)
        OBVIOUS
      <4>6. [[type |-> "Float64", neg |-> d, mag |-> n] EXCEPT !.neg = c]
                = [type |-> "Float64", neg |-> c, mag |-> n]
        OBVIOUS
      <4>7. [Nearest(e) EXCEPT !.neg = c]
                = [[type |-> "Float64", neg |-> d, mag |-> n] EXCEPT !.neg = c]
        BY <4>4, <4>5, Zenon
      <4> QED
        BY <3>3, <4>1, <4>5, <4>6, <4>7, Zenon
    <3>8. /\ to_f64(x).type = "Float64" /\ Numeric(to_f64(x))
          /\ IsNaN(to_f64(x)) <=> n > Infinity("Float64")
          /\ ~IsNaN(to_f64(x)) =>
                 Exact(to_f64(x)) = IF x.neg THEN 0 - Value64(n) ELSE Value64(n)
      BY <2>2, <3>7, Float64Exact
    <3>9. ~IsNaN(to_f64(x)) /\ ~IsNaN(x)
      BY <1>0, <2>2, <2>3, <3>1, <3>5, <3>8
    <3> QED
      BY <3>3, <3>6, <3>8, <3>9
  <2> QED
    BY <2>5, <2>6
<1>3. CASE type \in Integral
  <2>1. /\ x.type = type /\ ~IsNaN(x)
        /\ Exact(x) \in Int /\ 0 - Top < Exact(x) /\ Exact(x) < Top
    BY <1>3, IntegerFacts
  <2>2. PICK e \in Int : e = Exact(x)
    BY <2>1
  <2>3. to_f64(x) = Nearest(e)
    <3>1. type # "Float32" /\ type # "Float64"
      BY <1>3 DEF Integral
    <3> QED
      BY <1>3, <2>1, <2>2, <3>1 DEF to_f64
  <2>4. PICK neg \in BOOLEAN : neg <=> e < 0
    <3>1. (e < 0) \in BOOLEAN
      OBVIOUS
    <3> QED
      BY <3>1
  <2>5. PICK n \in Nat : n = Nearest(e).mag /\ n <= Infinity("Float64")
    BY <1>0, <2>1, <2>2, <2>4, RoundSigned
  <2>6. Round(e) = IF neg THEN 0 - Value64(n) ELSE Value64(n)
    <3>1. (e < 0 => neg) /\ (e > 0 => ~neg) /\ 0 - Top < e /\ e < Top
      BY <2>1, <2>2, <2>4
    <3> QED
      BY <2>5, <3>1, RoundSigned
  <2>7. Nearest(e) = [type |-> "Float64", neg |-> neg, mag |-> n]
    <3>1. Nearest(e) = [type |-> "Float64", neg |-> e < 0,
                        mag |-> NearestMag(IF e < 0 THEN 0 - e ELSE e)]
      BY NearestIs
    <3>2. n = NearestMag(IF e < 0 THEN 0 - e ELSE e)
      BY <2>5, <3>1
    <3>3. neg = (e < 0)
      BY <2>4
    <3> QED
      BY <3>1, <3>2, <3>3
  <2>8. /\ to_f64(x).type = "Float64" /\ Numeric(to_f64(x))
        /\ IsNaN(to_f64(x)) <=> n > Infinity("Float64")
        /\ ~IsNaN(to_f64(x)) =>
               Exact(to_f64(x)) = IF neg THEN 0 - Value64(n) ELSE Value64(n)
    BY <2>3, <2>7, Float64Exact
  <2>9. ~IsNaN(to_f64(x))
    BY <1>0, <2>5, <2>8
  <2> QED
    BY <2>1, <2>2, <2>6, <2>8, <2>9
<1> QED
  BY <1>1, <1>2, <1>3 DEF Numbers, Floating
-----------------------------------------------------------------------------
(* Predicates.                                                               *)

\* What a comparison as Float64s says.
LEMMA CoercedOrder ==
    ASSUME NEW type \in Numbers, NEW x \in Data(type), NEW kind \in Numbers, NEW y \in Data(kind)
    PROVE  /\ IsNaN(x) \/ IsNaN(y) => partial_cmp(to_f64(x), to_f64(y)) = "None"
           /\ ~IsNaN(x) /\ ~IsNaN(y) =>
                  /\ partial_cmp(to_f64(x), to_f64(y)) = "Less"
                         <=> Round(Exact(x)) < Round(Exact(y))
                  /\ partial_cmp(to_f64(x), to_f64(y)) = "Greater"
                         <=> Round(Exact(y)) < Round(Exact(x))
                  /\ partial_cmp(to_f64(x), to_f64(y)) = "Equal"
                         <=> Round(Exact(x)) = Round(Exact(y))
                  /\ partial_cmp(to_f64(x), to_f64(y)) # "None"
<1>1. PICK u, v : u = to_f64(x) /\ v = to_f64(y)
  OBVIOUS
<1>2. /\ u.type = "Float64" /\ v.type = "Float64"
      /\ (IsNaN(u) <=> IsNaN(x)) /\ (IsNaN(v) <=> IsNaN(y))
      /\ ~IsNaN(x) => Exact(u) = Round(Exact(x))
      /\ ~IsNaN(y) => Exact(v) = Round(Exact(y))
  BY <1>1, Converted
<1>3. CASE IsNaN(x) \/ IsNaN(y)
  <2>1. partial_cmp(u, v) = "None"
    BY <1>2, <1>3 DEF partial_cmp
  <2> QED
    BY <1>1, <1>3, <2>1
<1>4. CASE ~IsNaN(x) /\ ~IsNaN(y)
  <2>1. partial_cmp(u, v) = IF Less(u, v) THEN "Less" ELSE IF Less(v, u) THEN "Greater"
                            ELSE "Equal"
    BY <1>2, <1>4 DEF partial_cmp
  <2>2. (Less(u, v) <=> Exact(u) < Exact(v)) /\ (Less(v, u) <=> Exact(v) < Exact(u))
    BY <1>2 DEF Less
  <2>3. Round(Exact(x)) \in Int /\ Round(Exact(y)) \in Int
    <3>1. /\ Exact(x) \in Int /\ 0 - Top <= Exact(x) /\ Exact(x) <= Top
          /\ Exact(y) \in Int /\ 0 - Top <= Exact(y) /\ Exact(y) <= Top
      BY <1>4, ExactType
    <3>2. Exact(x) <= Exact(x) /\ Exact(y) <= Exact(y)
      BY <3>1
    <3> QED
      BY <3>1, <3>2, RoundMonotone
  <2>4. PICK m \in Int, n \in Int : m = Exact(u) /\ n = Exact(v)
    BY <1>2, <1>4, <2>3
  <2>5. m = Round(Exact(x)) /\ n = Round(Exact(y))
    BY <1>2, <1>4, <2>4
  <2> QED
    BY <1>1, <1>4, <2>1, <2>2, <2>4, <2>5
<1> QED
  BY <1>3, <1>4

\* Rounding keeps the order of two numbers, or makes them equal.
LEMMA RoundedOrder ==
    ASSUME NEW type \in Numbers, NEW x \in Data(type), NEW kind \in Numbers, NEW y \in Data(kind),
           ~IsNaN(x), ~IsNaN(y)
    PROVE  /\ Exact(x) \in Int /\ Exact(y) \in Int
           /\ Round(Exact(x)) \in Int /\ Round(Exact(y)) \in Int
           /\ Round(Exact(x)) < Round(Exact(y)) => Exact(x) < Exact(y)
<1>1. /\ Exact(x) \in Int /\ 0 - Top <= Exact(x) /\ Exact(x) <= Top
      /\ Exact(y) \in Int /\ 0 - Top <= Exact(y) /\ Exact(y) <= Top
  BY ExactType
<1>2. CASE Exact(x) <= Exact(y)
  <2>1. /\ Round(Exact(x)) \in Int /\ Round(Exact(y)) \in Int
        /\ Round(Exact(x)) <= Round(Exact(y))
    BY <1>1, <1>2, RoundMonotone
  <2>2. CASE Exact(x) = Exact(y)
    <3>1. Round(Exact(x)) = Round(Exact(y))
      BY <2>2
    <3> QED
      BY <1>1, <2>1, <3>1
  <2>3. CASE Exact(x) < Exact(y)
    BY <1>1, <2>1, <2>3
  <2> QED
    BY <1>1, <1>2, <2>2, <2>3
<1>3. CASE Exact(y) <= Exact(x)
  <2>1. /\ Round(Exact(x)) \in Int /\ Round(Exact(y)) \in Int
        /\ Round(Exact(y)) <= Round(Exact(x))
    BY <1>1, <1>3, RoundMonotone
  <2> QED
    BY <1>1, <2>1
<1> QED
  BY <1>1, <1>2, <1>3

\* Whether two values have an order, and which.
Ordered(x, y) == Numeric(x) = Numeric(y) /\ ~IsNaN(x) /\ ~IsNaN(y)

\* Values that have no order are neither less, nor greater, nor equal.
LEMMA Unordered ==
    ASSUME NEW type \in DataTypes, NEW x \in Data(type),
           NEW kind \in DataTypes, NEW y \in Data(kind),
           ~Ordered(x, y)
    PROVE  data_cmp(x, y) = "None" /\ ~data_eq(x, y)
<1>1. /\ x.type = type /\ (type \in Numbers <=> Numeric(x)) /\ (type \in Numbers \/ type = "String")
      /\ y.type = kind /\ (kind \in Numbers <=> Numeric(y)) /\ (kind \in Numbers \/ kind = "String")
  BY DataFacts
<1>2. CASE Numeric(x) /\ Numeric(y)
  <2>1. IsNaN(x) \/ IsNaN(y)
    BY <1>2 DEF Ordered
  <2>2. partial_cmp(x, y) = "None"
    BY <2>1 DEF partial_cmp
  <2>3. partial_cmp(to_f64(x), to_f64(y)) = "None"
    BY <1>1, <1>2, <2>1, CoercedOrder
  <2> QED
    BY <2>2, <2>3 DEF data_cmp, data_eq, eq
<1>3. CASE ~(Numeric(x) /\ Numeric(y))
  <2>1. x.type # y.type
    <3>1. CASE type = "String" /\ kind = "String"
      <4>1. x.type = "String" /\ y.type = "String" /\ ~IsNaN(x) /\ ~IsNaN(y)
        BY <3>1, StringFacts
      <4>2. Numeric(x) = Numeric(y)
        BY <4>1 DEF Numeric
      <4> QED
        BY <4>1, <4>2 DEF Ordered
    <3> QED
      BY <1>1, <1>3, <3>1
  <2>2. partial_cmp(x, y) = "None"
    BY <2>1 DEF partial_cmp
  <2> QED
    BY <1>3, <2>2 DEF data_cmp, data_eq, eq
<1> QED
  BY <1>2, <1>3

\* Within one type a comparison is exact.
LEMMA ComparedInType ==
    ASSUME NEW type \in DataTypes, NEW x \in Data(type), NEW y \in Data(type), Ordered(x, y)
    PROVE  /\ data_cmp(x, y) = partial_cmp(x, y)
           /\ data_cmp(x, y) = "Less" <=> Less(x, y)
           /\ data_cmp(x, y) = "Greater" <=> Less(y, x)
           /\ data_cmp(x, y) = "Equal" <=> ~Less(x, y) /\ ~Less(y, x)
<1>1. ~IsNaN(x) /\ ~IsNaN(y)
  BY DEF Ordered
<1>2. /\ partial_cmp(x, y) # "None"
      /\ partial_cmp(x, y) = "Less" <=> Less(x, y)
      /\ partial_cmp(x, y) = "Greater" <=> Less(y, x)
      /\ partial_cmp(x, y) = "Equal" <=> ~Less(x, y) /\ ~Less(y, x)
  BY <1>1, PartialCmp
<1>3. data_cmp(x, y) = partial_cmp(x, y)
  BY <1>2 DEF data_cmp
<1> QED
  BY <1>2, <1>3

\* Across types it is one of Float64s.
LEMMA ComparedAcross ==
    ASSUME NEW type \in DataTypes, NEW x \in Data(type),
           NEW kind \in DataTypes, NEW y \in Data(kind),
           Ordered(x, y), type # kind
    PROVE  /\ type \in Numbers /\ kind \in Numbers
           /\ data_cmp(x, y) = partial_cmp(to_f64(x), to_f64(y))
           /\ data_eq(x, y) <=> data_cmp(x, y) = "Equal"
           /\ Less(x, y) <=> Exact(x) < Exact(y)
           /\ Less(y, x) <=> Exact(y) < Exact(x)
<1>1. /\ x.type = type /\ (type \in Numbers <=> Numeric(x)) /\ (type \in Numbers \/ type = "String")
      /\ y.type = kind /\ (kind \in Numbers <=> Numeric(y)) /\ (kind \in Numbers \/ kind = "String")
  BY DataFacts
<1>2. type \in Numbers /\ kind \in Numbers /\ Numeric(x) /\ Numeric(y)
  <2>1. Numeric(x) = Numeric(y)
    BY DEF Ordered
  <2> QED
    BY <1>1, <2>1
<1>3. partial_cmp(x, y) = "None"
  BY <1>1 DEF partial_cmp
<1>4. data_cmp(x, y) = partial_cmp(to_f64(x), to_f64(y))
  BY <1>2, <1>3 DEF data_cmp
<1>5. data_eq(x, y) <=> data_cmp(x, y) = "Equal"
  BY <1>2, <1>3, <1>4 DEF data_eq, eq
<1>6. x.type # "String" /\ y.type # "String"
  BY <1>1, <1>2 DEF Numbers, Integral, Floating
<1> QED
  BY <1>2, <1>4, <1>5, <1>6 DEF Less

\* A strict order is never claimed in error.
LEMMA ClaimsAreTrue ==
    ASSUME NEW type \in DataTypes, NEW x \in Data(type),
           NEW kind \in DataTypes, NEW y \in Data(kind),
           Ordered(x, y)
    PROVE  /\ data_cmp(x, y) = "Less" => Less(x, y)
           /\ data_cmp(x, y) = "Greater" => Less(y, x)
<1>1. CASE type = kind
  BY <1>1, ComparedInType
<1>2. CASE type # kind
  <2>1. ~IsNaN(x) /\ ~IsNaN(y)
    BY DEF Ordered
  <2>2. /\ type \in Numbers /\ kind \in Numbers
        /\ data_cmp(x, y) = partial_cmp(to_f64(x), to_f64(y))
        /\ Less(x, y) <=> Exact(x) < Exact(y)
        /\ Less(y, x) <=> Exact(y) < Exact(x)
    BY <1>2, ComparedAcross
  <2> QED
    BY <2>1, <2>2, CoercedOrder, RoundedOrder
<1> QED
  BY <1>1, <1>2

\* Where f64 represents both operands every comparison is exact.
LEMMA ComparedInFloat64 ==
    ASSUME NEW type \in DataTypes, NEW x \in Data(type),
           NEW kind \in DataTypes, NEW y \in Data(kind),
           Ordered(x, y), InFloat64(x), InFloat64(y)
    PROVE  /\ data_cmp(x, y) = "Less" <=> Less(x, y)
           /\ data_cmp(x, y) = "Greater" <=> Less(y, x)
           /\ data_cmp(x, y) = "Equal" <=> ~Less(x, y) /\ ~Less(y, x)
           /\ data_eq(x, y) <=> ~Less(x, y) /\ ~Less(y, x)
<1>1. ~IsNaN(x) /\ ~IsNaN(y) /\ Numeric(x) = Numeric(y)
  BY DEF Ordered
<1>2. /\ (type \in Numbers <=> Numeric(x)) /\ (kind \in Numbers <=> Numeric(y))
  BY DataFacts
<1>3. ASSUME Numeric(x)
      PROVE  /\ type \in Numbers /\ kind \in Numbers
             /\ Exact(x) \in Int /\ Exact(y) \in Int
             /\ Round(Exact(x)) = Exact(x) /\ Round(Exact(y)) = Exact(y)
  <2>1. type \in Numbers /\ kind \in Numbers /\ Numeric(y)
    BY <1>1, <1>2, <1>3
  <2>2. Exact(to_f64(x)) = Exact(x) /\ Exact(to_f64(y)) = Exact(y)
    BY <1>1, <1>3, <2>1 DEF InFloat64
  <2>3. Exact(to_f64(x)) = Round(Exact(x)) /\ Exact(to_f64(y)) = Round(Exact(y))
    BY <1>1, <2>1, Converted
  <2>4. Exact(x) \in Int /\ Exact(y) \in Int
    BY <1>1, <2>1, ExactType
  <2> QED
    BY <2>1, <2>2, <2>3, <2>4
<1>4. CASE type = kind
  <2>1. /\ data_cmp(x, y) = partial_cmp(x, y)
        /\ data_cmp(x, y) = "Less" <=> Less(x, y)
        /\ data_cmp(x, y) = "Greater" <=> Less(y, x)
        /\ data_cmp(x, y) = "Equal" <=> ~Less(x, y) /\ ~Less(y, x)
    BY <1>4, ComparedInType
  <2>2. CASE ~Numeric(x)
    BY <2>1, <2>2 DEF data_eq, eq
  <2>3. CASE Numeric(x)
    <3>1. partial_cmp(to_f64(x), to_f64(y)) = "Equal" <=> Exact(x) = Exact(y)
      BY <1>1, <1>3, <2>3, CoercedOrder
    <3>2. Exact(x) = Exact(y) <=> ~Less(x, y) /\ ~Less(y, x)
      BY <1>1, <1>3, <1>4, <2>3, LessTotal
    <3> QED
      BY <1>1, <2>1, <2>3, <3>1, <3>2 DEF data_eq, eq
  <2> QED
    BY <2>2, <2>3
<1>5. CASE type # kind
  <2>1. /\ type \in Numbers /\ kind \in Numbers
        /\ data_cmp(x, y) = partial_cmp(to_f64(x), to_f64(y))
        /\ data_eq(x, y) <=> data_cmp(x, y) = "Equal"
        /\ Less(x, y) <=> Exact(x) < Exact(y)
        /\ Less(y, x) <=> Exact(y) < Exact(x)
    BY <1>5, ComparedAcross
  <2>2. /\ data_cmp(x, y) = "Less" <=> Exact(x) < Exact(y)
        /\ data_cmp(x, y) = "Greater" <=> Exact(y) < Exact(x)
        /\ data_cmp(x, y) = "Equal" <=> Exact(x) = Exact(y)
    BY <1>1, <1>2, <1>3, <2>1, CoercedOrder
  <2>3. Exact(x) = Exact(y) <=> ~(Exact(x) < Exact(y)) /\ ~(Exact(y) < Exact(x))
    BY <1>2, <1>3, <2>1
  <2> QED
    BY <2>1, <2>2, <2>3
<1> QED
  BY <1>4, <1>5

\* One predicate, on two values.
LEMMA PredicateExact ==
    ASSUME NEW type \in DataTypes, NEW x \in Data(type),
           NEW kind \in DataTypes, NEW y \in Data(kind),
           NEW operator \in Operators
    PROVE  /\ \/ InFloat64(x) /\ InFloat64(y)
              \/ type = kind /\ operator \notin {"EQ", "NE"}
              => (evaluate_predicate(operator, x, y) <=> Means(operator, x, y))
           /\ operator \in {"LT", "GT"} /\ evaluate_predicate(operator, x, y) =>
                  Means(operator, x, y)
<1> DEFINE less == Ordered(x, y) /\ Less(x, y)
           greater == Ordered(x, y) /\ Less(y, x)
<1>1. /\ Means("EQ", x, y)  <=> Ordered(x, y) /\ ~less /\ ~greater
      /\ Means("NE", x, y)  <=> ~Ordered(x, y) \/ less \/ greater
      /\ Means("GT", x, y)  <=> greater
      /\ Means("GTE", x, y) <=> Ordered(x, y) /\ ~less
      /\ Means("LT", x, y)  <=> less
      /\ Means("LTE", x, y) <=> Ordered(x, y) /\ ~greater
  BY DEF Means, Ordered
<1>2. /\ evaluate_predicate("EQ", x, y) <=> data_eq(x, y)
      /\ evaluate_predicate("NE", x, y) <=> ~data_eq(x, y)
      /\ evaluate_predicate("GT", x, y) <=> data_cmp(x, y) = "Greater"
      /\ evaluate_predicate("GTE", x, y) <=> data_cmp(x, y) \in {"Greater", "Equal"}
      /\ evaluate_predicate("LT", x, y) <=> data_cmp(x, y) = "Less"
      /\ evaluate_predicate("LTE", x, y) <=> data_cmp(x, y) \in {"Less", "Equal"}
  BY DEF evaluate_predicate
<1>3. operator \in {"EQ", "NE", "GT", "GTE", "LT", "LTE"}
  BY DEF Operators
<1>4. CASE ~Ordered(x, y)
  <2>1. data_cmp(x, y) = "None" /\ ~data_eq(x, y)
    BY <1>4, Unordered
  <2> QED
    BY <1>1, <1>2, <1>3, <1>4, <2>1
<1>5. CASE Ordered(x, y)
  <2>1. (data_cmp(x, y) = "Less" => Less(x, y)) /\ (data_cmp(x, y) = "Greater" => Less(y, x))
    BY <1>5, ClaimsAreTrue
  <2>2. ASSUME InFloat64(x), InFloat64(y)
        PROVE  /\ data_cmp(x, y) = "Less" <=> Less(x, y)
               /\ data_cmp(x, y) = "Greater" <=> Less(y, x)
               /\ data_cmp(x, y) = "Equal" <=> ~Less(x, y) /\ ~Less(y, x)
               /\ data_eq(x, y) <=> ~Less(x, y) /\ ~Less(y, x)
    BY <1>5, <2>2, ComparedInFloat64
  <2>3. ASSUME type = kind
        PROVE  /\ data_cmp(x, y) = "Less" <=> Less(x, y)
               /\ data_cmp(x, y) = "Greater" <=> Less(y, x)
               /\ data_cmp(x, y) = "Equal" <=> ~Less(x, y) /\ ~Less(y, x)
    BY <1>5, <2>3, ComparedInType
  <2>4. ASSUME data_cmp(x, y) = "Less" <=> Less(x, y),
               data_cmp(x, y) = "Greater" <=> Less(y, x),
               data_cmp(x, y) = "Equal" <=> ~Less(x, y) /\ ~Less(y, x)
        PROVE  /\ data_cmp(x, y) \in {"Greater", "Equal"} <=> ~Less(x, y)
               /\ data_cmp(x, y) \in {"Less", "Equal"} <=> ~Less(y, x)
    BY <2>4
  <2>5. operator \in {"LT", "GT"} /\ evaluate_predicate(operator, x, y) =>
            Means(operator, x, y)
    BY <1>1, <1>2, <1>5, <2>1
  <2>6. CASE InFloat64(x) /\ InFloat64(y)
    <3>1. /\ data_cmp(x, y) \in {"Greater", "Equal"} <=> ~Less(x, y)
          /\ data_cmp(x, y) \in {"Less", "Equal"} <=> ~Less(y, x)
      BY <2>2, <2>4, <2>6
    <3>2. evaluate_predicate(operator, x, y) <=> Means(operator, x, y)
      BY <1>1, <1>2, <1>3, <1>5, <2>2, <2>6, <3>1
    <3> QED
      BY <2>5, <3>2
  <2>7. CASE type = kind /\ operator \notin {"EQ", "NE"}
    <3>1. /\ data_cmp(x, y) \in {"Greater", "Equal"} <=> ~Less(x, y)
          /\ data_cmp(x, y) \in {"Less", "Equal"} <=> ~Less(y, x)
      BY <2>3, <2>4, <2>7
    <3>2. evaluate_predicate(operator, x, y) <=> Means(operator, x, y)
      BY <1>1, <1>2, <1>3, <1>5, <2>3, <2>7, <3>1
    <3> QED
      BY <2>5, <3>2
  <2> QED
    BY <2>5, <2>6, <2>7
<1> QED
  BY <1>4, <1>5

\* For every pair of rows a filter decides by the exact values wherever f64
\* represents both operands or they have one type, and never claims a strict order
\* in error (data_eq, data_cmp and evaluate_predicate of filter.rs).
THEOREM PredicatesAlwaysExact == PairSpec => []PredicatesExact
<1>1. RowsMeet => PredicatesExact
  <2> SUFFICES ASSUME RowsMeet,
                      NEW i \in DOMAIN a, NEW j \in DOMAIN b, NEW operator \in Operators
               PROVE  LET holds == Means(operator, a[i], b[j])
                          claimed == evaluate_predicate(operator, a[i], b[j])
                          sure == \/ InFloat64(a[i]) /\ InFloat64(b[j])
                                  \/ schema[i] = schema[j] /\ operator \notin {"EQ", "NE"}
                      IN  /\ sure => (claimed <=> holds)
                          /\ operator \in {"LT", "GT"} /\ claimed => holds
    BY Zenon DEF PredicatesExact
  <2>1. /\ a[i] \in Data(schema[i]) /\ schema[i] \in DataTypes
        /\ b[j] \in Data(schema[j]) /\ schema[j] \in DataTypes
    BY MeetFacts
  <2> QED
    BY <2>1, PredicateExact
<1> QED
  BY <1>1, RowsAlwaysMeet, PTL
-----------------------------------------------------------------------------
(* Join keys.                                                                *)

\* The bits of two numbers of one type are equal if the numbers are.
LEMMA SameBits ==
    ASSUME NEW type \in Numbers, NEW x \in Data(type), NEW y \in Data(type),
           ~IsNaN(x), ~IsNaN(y), ~MinusZero(x), ~MinusZero(y)
    PROVE  to_bits(x) = to_bits(y) <=> Exact(x) = Exact(y)
<1>1. PICK s \in Nat \ {0} : s = SignBit(type) /\ Width(type) = 2 * s
  BY WidthFacts
<1>2. PICK m \in Int, n \in Int : m = NumberKey(x) /\ n = NumberKey(y)
  BY NumberKeyOrder
<1>3. m = n <=> Exact(x) = Exact(y)
  <2>1. (m < n <=> Exact(x) < Exact(y)) /\ (n < m <=> Exact(y) < Exact(x))
    BY <1>2, NumberKeyOrder
  <2>2. Exact(x) \in Int /\ Exact(y) \in Int
    BY ExactType
  <2> QED
    BY <2>1, <2>2
<1>4. CASE type \in Integral
  <2>1. PICK v \in Int, u \in Int : /\ v = x.v /\ 0 - s <= v /\ v <= s - 1
                                    /\ u = y.v /\ 0 - s <= u /\ u <= s - 1
    BY <1>1, <1>4, IntegerFacts
  <2>2. /\ to_bits(x) = IF v < 0 THEN v + 2 * s ELSE v
        /\ to_bits(y) = IF u < 0 THEN u + 2 * s ELSE u
        /\ m = v + s /\ n = u + s
    BY <1>1, <1>2, <1>4, <2>1, IntegerBits
  <2> QED
    BY <1>3, <2>1, <2>2
<1>5. CASE type \in Floating
  <2>1. x.neg \in BOOLEAN /\ y.neg \in BOOLEAN
    BY <1>5, FloatFacts
  <2>2. PICK k \in Nat, l \in Nat : k = x.mag /\ l = y.mag /\ k < s /\ l < s
    BY <1>1, <1>5, FloatFacts
  <2>3. /\ to_bits(x) = IF x.neg THEN s + k ELSE k
        /\ to_bits(y) = IF y.neg THEN s + l ELSE l
        /\ m = IF x.neg THEN s - 1 - k ELSE k + s
        /\ n = IF y.neg THEN s - 1 - l ELSE l + s
    BY <1>1, <1>2, <1>5, <2>2, FloatBits
  <2> QED
    BY <1>3, <2>1, <2>2, <2>3
<1> QED
  BY <1>4, <1>5 DEF Numbers

\* The keys of two values of one type are equal if the values are.
LEMMA KeyIsValue ==
    ASSUME NEW type \in DataTypes, NEW x \in Data(type), NEW y \in Data(type),
           ~IsNaN(x), ~IsNaN(y), ~MinusZero(x), ~MinusZero(y)
    PROVE  DataKey(x) = DataKey(y) <=> ~Less(x, y) /\ ~Less(y, x)
<1>1. x.type = type /\ y.type = type
  BY DataFacts
<1>3. CASE type \in Numbers
  <2>1. x.type # "String" /\ y.type # "String"
    BY <1>1, <1>3 DEF Numbers, Integral, Floating
  <2>2. DataKey(x) = <<type, to_bits(x)>> /\ DataKey(y) = <<type, to_bits(y)>>
    BY <1>1, <2>1 DEF DataKey
  <2>3. DataKey(x) = DataKey(y) <=> to_bits(x) = to_bits(y)
    BY <2>2
  <2> QED
    BY <1>3, <2>3, SameBits, LessTotal
<1>4. CASE type = "String"
  <2>1. DataKey(x) = <<type, x.bytes>> /\ DataKey(y) = <<type, y.bytes>>
    BY <1>1, <1>4 DEF DataKey
  <2>2. DataKey(x) = DataKey(y) <=> x.bytes = y.bytes
    BY <2>1
  <2> QED
    BY <1>4, <2>2, LessTotal
<1> QED
  BY <1>3, <1>4, DataFacts

\* They are if a filter takes the values for equal.
LEMMA SameKey ==
    ASSUME NEW type \in DataTypes, NEW x \in Data(type), NEW y \in Data(type),
           ~IsNaN(x), ~IsNaN(y), ~MinusZero(x), ~MinusZero(y), InFloat64(x), InFloat64(y)
    PROVE  DataKey(x) = DataKey(y) <=> data_eq(x, y)
<1>1. Numeric(x) = Numeric(y)
  BY DataFacts DEF Numeric
<1>2. Ordered(x, y)
  BY <1>1 DEF Ordered
<1> QED
  BY <1>2, ComparedInFloat64, KeyIsValue

\* A join on columns of one type stands for the product and its equality filters,
\* for every schema and pair of rows whose keys are no NaN, no minus zero and no
\* integer that f64 rounds (DataKey and make_join_key of row.rs).
THEOREM JoinKeysAlwaysMatch == PairSpec => []JoinKeysMatchWithinType
<1>1. RowsMeet => JoinKeysMatchWithinType
  <2> SUFFICES ASSUME RowsMeet,
                      NEW columns \in {<<i>> : i \in DOMAIN schema}
                                          \cup {[i \in DOMAIN schema |-> i]},
                      \A i \in ToSet(columns) : \A x \in {a[i], b[i]} :
                          ~IsNaN(x) /\ ~MinusZero(x) /\ InFloat64(x)
               PROVE  make_join_key(a, columns) = make_join_key(b, columns)
                          <=> \A i \in ToSet(columns) : data_eq(a[i], b[i])
    BY Zenon DEF JoinKeysMatchWithinType
  <2>1. ToSet(columns) = {columns[k] : k \in DOMAIN columns}
    BY Zenon DEF ToSet
  <2>2. ASSUME NEW k \in DOMAIN columns PROVE columns[k] \in DOMAIN schema
    <3>1. CASE columns \in {<<i>> : i \in DOMAIN schema}
      <4>1. PICK i \in DOMAIN schema : columns = <<i>>
        BY <3>1
      <4>2. DOMAIN columns = {1} /\ columns[1] = i
        BY <4>1
      <4> QED
        BY <4>2
    <3>2. CASE columns = [i \in DOMAIN schema |-> i]
      BY <3>2
    <3> QED
      BY <3>1, <3>2
  <2>3. ASSUME NEW k \in DOMAIN columns
        PROVE  DataKey(a[columns[k]]) = DataKey(b[columns[k]])
                   <=> data_eq(a[columns[k]], b[columns[k]])
    <3>1. PICK i : i = columns[k] /\ i \in DOMAIN schema /\ i \in ToSet(columns)
      BY <2>1, <2>2
    <3>2. schema[i] \in DataTypes /\ a[i] \in Data(schema[i]) /\ b[i] \in Data(schema[i])
      BY <3>1, MeetFacts
    <3>3. /\ ~IsNaN(a[i]) /\ ~MinusZero(a[i]) /\ InFloat64(a[i])
          /\ ~IsNaN(b[i]) /\ ~MinusZero(b[i]) /\ InFloat64(b[i])
      BY <3>1
    <3>4. DataKey(a[i]) = DataKey(b[i]) <=> data_eq(a[i], b[i])
      BY <3>2, <3>3, SameKey
    <3> QED
      BY <3>1, <3>4
  <2>4. make_join_key(a, columns) = make_join_key(b, columns)
            <=> \A k \in DOMAIN columns : DataKey(a[columns[k]]) = DataKey(b[columns[k]])
    <3>1. PICK f, g : /\ f = [k \in DOMAIN columns |-> DataKey(a[columns[k]])]
                      /\ g = [k \in DOMAIN columns |-> DataKey(b[columns[k]])]
      OBVIOUS
    <3>2. make_join_key(a, columns) = f /\ make_join_key(b, columns) = g
      BY <3>1, Zenon DEF make_join_key
    <3>3. f = g <=> \A k \in DOMAIN columns : f[k] = g[k]
      BY <3>1
    <3>4. \A k \in DOMAIN columns : f[k] = DataKey(a[columns[k]]) /\ g[k] = DataKey(b[columns[k]])
      BY <3>1
    <3> QED
      BY <3>2, <3>3, <3>4
  <2> QED
    BY <2>1, <2>3, <2>4
<1> QED
  BY <1>1, RowsAlwaysMeet, PTL
-----------------------------------------------------------------------------
(* The three passes of the generator.                                        *)

\* A field of a line, or the text of a line that has none.
Texted == Fields \cup {EmptyText}

\* The text of a line that has none is a string.
LEMMA EmptyTextFacts ==
    /\ EmptyText \in Data("String") /\ "String" \in DataTypes
    /\ Texted # {} /\ Fields \subseteq Texted /\ EmptyText \in Texted
<1>1. "String" \notin Integral /\ "String" \notin Floating
  BY DEF Integral, Floating
<1>2. <<>> \in Seq(0 .. ByteBase - 1)
  OBVIOUS
<1>3. Data("String") = [type : {"String"}, bytes : Seq(0 .. ByteBase - 1)]
  BY <1>1 DEF Data
<1> QED
  BY <1>2, <1>3 DEF EmptyText, DataTypes, Texted

\* Every text is a value of a type.
LEMMA TextFacts ==
    ASSUME NEW x \in Texted
    PROVE  \/ x.type \in Integral \cup Floating
           \/ x.type = "String" /\ x.bytes \in Seq(0 .. ByteBase - 1)
<1>1. PICK type \in DataTypes : x \in Data(type)
  BY EmptyTextFacts, GeneratorAssumption DEF Texted
<1>2. CASE type \in Integral
  BY <1>1, <1>2 DEF Data
<1>3. CASE type \in Floating /\ type \notin Integral
  BY <1>1, <1>3 DEF Data
<1>4. CASE type = "String" /\ type \notin Integral \cup Floating
  BY <1>1, <1>4 DEF Data
<1> QED
  BY <1>1, <1>2, <1>3, <1>4 DEF DataTypes, Integral, Floating

\* The texts of a line are not more than its fields, and the elements not more
\* than the columns.
LEMMA ElementsFacts ==
    ASSUME NEW line \in Seq(Fields)
    PROVE  /\ Texts(line) \in Seq(Texted) /\ Elements(line) \in Seq(Texted)
           /\ Len(Elements(line)) <= Len(Columns)
           /\ \A i \in DOMAIN Elements(line) : Elements(line)[i] = Texts(line)[i]
<1> DEFINE filled == {i \in DOMAIN line : line[i].type = "String" => line[i].bytes # <<>>}
<1>0. DOMAIN line = 1 .. Len(line) /\ Len(line) \in Nat /\ line \in Seq(Texted)
  BY EmptyTextFacts
<1>1. Texts(line) = IF filled = {} THEN <<EmptyText>> ELSE SubSeq(line, 1, Max(filled))
  BY DEF Texts
<1>2. Texts(line) \in Seq(Texted)
  <2>1. CASE filled = {}
    BY <1>1, <2>1, EmptyTextFacts
  <2>2. CASE filled # {}
    <3>1. filled \in SUBSET (1 .. Len(line))
      BY <1>0
    <3> HIDE DEF filled
    <3>2. Max(filled) \in 1 .. Len(line)
      BY <1>0, <2>2, <3>1, MaxOfPositions
    <3>3. SubSeq(line, 1, Max(filled)) \in Seq(Texted)
      BY <1>0, <3>2, SubSeqProperties
    <3> QED
      BY <1>1, <2>2, <3>3
  <2> QED
    BY <2>1, <2>2
<1> HIDE DEF filled
<1> DEFINE s == Texts(line)
           m == Min({Len(s), Len(Columns)})
<1>3. Len(s) \in Nat /\ Len(Columns) \in Nat
  BY <1>2, GeneratorAssumption
<1>4. m \in 0 .. Len(s) /\ m <= Len(Columns)
  BY <1>3, MinOfTwo
<1>5. Elements(line) = SubSeq(s, 1, m)
  BY DEF Elements
<1> HIDE DEF s, m
<1>6. s \in Seq(Texted)
  BY <1>2 DEF s
<1>7. /\ SubSeq(s, 1, m) \in Seq(Texted) /\ Len(SubSeq(s, 1, m)) = m
      /\ \A i \in 1 .. m : SubSeq(s, 1, m)[i] = s[i]
  BY <1>3, <1>4, <1>6
<1>8. DOMAIN SubSeq(s, 1, m) = 1 .. m
  BY <1>7
<1> QED
  BY <1>2, <1>4, <1>5, <1>7, <1>8 DEF s

\* The bytes of a field in a row.
FieldSize(x) == IF x.type = "String" THEN Len(x.bytes) + 1 ELSE NumberBytes[x.type]

\* A field has some bytes.
LEMMA FieldSizeType ==
    ASSUME NEW x \in Texted
    PROVE  FieldSize(x) \in Nat \ {0}
<1>1. CASE x.type \in Integral \cup Floating
  <2>1. x.type # "String" /\ NumberBytes[x.type] \in Nat \ {0}
    BY <1>1, ValuesAssumption DEF Integral, Floating
  <2> QED
    BY <2>1 DEF FieldSize
<1>2. CASE x.type = "String" /\ x.bytes \in Seq(0 .. ByteBase - 1)
  <2>1. Len(x.bytes) \in Nat
    BY <1>2, LenProperties
  <2> QED
    BY <1>2, <2>1 DEF FieldSize
<1> QED
  BY <1>1, <1>2, TextFacts

SizeStep == [p \in Nat \X Texted |-> p[1] + FieldSize(p[2])]

\* find_row_size adds up the bytes of the fields.
LEMMA SizeIsFold ==
    ASSUME NEW elements \in Seq(Texted)
    PROVE  /\ FoldTypes(Nat, Texted, SizeStep, 0, elements)
           /\ find_row_size(elements) = Fold(SizeStep, 0, elements)
<1> DEFINE Body(g) == [t \in SUBSET (DOMAIN elements) |->
                          IF t = {} THEN 0
                          ELSE g[t \ {Max(t)}]
                                 + (IF elements[Max(t)].type = "String"
                                    THEN Len(elements[Max(t)].bytes) + 1
                                    ELSE NumberBytes[elements[Max(t)].type])]
           ot == CHOOSE g : g = Body(g)
<1>1. find_row_size(elements) = ot[DOMAIN elements]
  BY Zenon DEF find_row_size, FoldLeft, MapThenFoldSet
<1>2. FoldTypes(Nat, Texted, SizeStep, 0, elements)
  BY FieldSizeType DEF SizeStep, FoldTypes
<1>3. PICK it \in [SUBSET (DOMAIN elements) -> Nat] : IsIteration(it, SizeStep, 0, elements)
  BY <1>2, IterationExists, Zenon
<1>4. \A t \in SUBSET (DOMAIN elements) :
          t # {} => Max(t) \in t /\ elements[Max(t)] \in Texted
  <2>1. DOMAIN elements = 1 .. Len(elements) /\ Len(elements) \in Nat
    BY LenProperties
  <2> QED
    BY <2>1, MaxOfPositions, ElementOfSeq
<1>5. it = Body(it)
  <2>1. ASSUME NEW t \in SUBSET (DOMAIN elements)
        PROVE  it[t] = IF t = {} THEN 0 ELSE it[t \ {Max(t)}] + FieldSize(elements[Max(t)])
    <3>1. CASE t = {}
      BY <1>3, <3>1 DEF IsIteration
    <3>2. CASE t # {}
      <4>1. it[t] = SizeStep[<<it[t \ {Max(t)}], elements[Max(t)]>>]
        BY <1>3, <3>2 DEF IsIteration
      <4>2. it[t \ {Max(t)}] \in Nat /\ elements[Max(t)] \in Texted
        BY <1>3, <1>4, <3>2
      <4> QED
        BY <3>2, <4>1, <4>2 DEF SizeStep
    <3> QED
      BY <3>1, <3>2
  <2> QED
    BY <1>3, <2>1 DEF FieldSize
<1>6. ot = Body(ot)
  BY <1>5, Zenon
<1> HIDE DEF ot
<1>7. ot[{}] = 0
  BY <1>6
<1>8. ASSUME NEW k \in 1 .. Len(elements), ot[1 .. k - 1] \in Nat
      PROVE  ot[1 .. k] = SizeStep[<<ot[1 .. k - 1], elements[k]>>]
  <2>1. /\ 1 .. k \in SUBSET (DOMAIN elements) /\ elements[k] \in Texted
        /\ k \in Nat \ {0} /\ 1 .. k # {}
    <3>1. DOMAIN elements = 1 .. Len(elements) /\ Len(elements) \in Nat
      BY LenProperties
    <3>2. elements[k] \in Texted
      BY ElementOfSeq
    <3>3. 1 .. k \in SUBSET (1 .. Len(elements))
      BY <3>1
    <3>4. k \in Nat \ {0} /\ 1 \in 1 .. k
      BY <3>1
    <3> QED
      BY <3>1, <3>2, <3>3, <3>4, Zenon
  <2>2. Max(1 .. k) = k /\ (1 .. k) \ {k} = 1 .. k - 1
    BY <2>1, MaxOfInterval
  <2>3. ot[1 .. k] = ot[1 .. k - 1] + FieldSize(elements[k])
    BY <1>6, <2>1, <2>2 DEF FieldSize
  <2> QED
    BY <1>8, <2>1, <2>3 DEF SizeStep
<1>9. IteratesPrefixes(ot, Nat, Texted, SizeStep, 0, elements)
  BY <1>2, <1>7, <1>8 DEF IteratesPrefixes
<1>10. ot[DOMAIN elements] = Fold(SizeStep, 0, elements)
  BY <1>9, IterationIsFold
<1> QED
  BY <1>1, <1>2, <1>10, Zenon

\* A row with a column takes at least a byte.
LEMMA SizeOfRow ==
    ASSUME NEW elements \in Seq(Texted), elements # <<>>
    PROVE  find_row_size(elements) \in Nat \ {0}
<1>1. /\ FoldTypes(Nat, Texted, SizeStep, 0, elements)
      /\ find_row_size(elements) = Fold(SizeStep, 0, elements)
  BY SizeIsFold
<1> DEFINE Q == [k \in Nat |-> {v \in Nat : v >= k}]
<1>2. Len(elements) \in Nat \ {0}
  BY EmptySeq, LenProperties
<1>3. ASSUME NEW k \in 1 .. Len(elements), NEW v \in Nat, v \in Q[k - 1]
      PROVE  SizeStep[<<v, elements[k]>>] \in Q[k]
  <2>1. k \in Nat /\ k - 1 \in Nat /\ elements[k] \in Texted
    BY <1>2
  <2>2. v >= k - 1 /\ FieldSize(elements[k]) \in Nat \ {0}
    BY <1>3, <2>1, FieldSizeType
  <2> QED
    BY <2>1, <2>2 DEF SizeStep
<1>4. 0 \in Q[0]
  OBVIOUS
<1> HIDE DEF Q
<1>5. Fold(SizeStep, 0, elements) \in Q[Len(elements)]
  BY <1>1, <1>3, <1>4, FoldInvariant
<1> QED
  BY <1>1, <1>2, <1>5 DEF Q
-----------------------------------------------------------------------------
\* The rows that lines can be.
Rows == [id : Nat, cols : Seq(Texted), len : Nat \ {0}]

RowsArePacked == RowsSized(Rows)

\* A line that a pass takes.
Good(n) == IsRow(lines[n]) /\ ~Unparsable(lines[n])

RowList(n) == [i \in 1 .. n |-> Row(i)]

\* What is known of the lines, and of those that are rows.
LEMMA LineFacts ==
    ASSUME lines \in Tables
    PROVE  /\ lines \in Seq(Seq(Fields)) /\ Len(lines) \in Nat
           /\ DOMAIN lines = 1 .. Len(lines)
           /\ \A n \in 1 .. Len(lines) : lines[n] \in Seq(Fields)
<1>1. lines \in Seq(Seq(Fields))
  BY GeneratorAssumption
<1> QED
  BY <1>1

\* A line that is good is a row with an element of the right type in every
\* column.
LEMMA RowFacts ==
    ASSUME lines \in Tables, NEW n \in 1 .. Len(lines), Good(n)
    PROVE  /\ Row(n) \in Rows /\ Elements(lines[n]) \in Seq(Texted)
           /\ DOMAIN Elements(lines[n]) = DOMAIN Columns
           /\ \A c \in DOMAIN Columns : Elements(lines[n])[c].type = Columns[c]
<1> DEFINE e == Elements(lines[n])
<1>1. n \in Nat /\ lines[n] \in Seq(Fields)
  BY LineFacts
<1>2. e \in Seq(Texted)
  BY <1>1, ElementsFacts
<1>3. /\ Len(e) = Len(Columns) /\ lines[n] # <<>>
      /\ \A c \in DOMAIN e : e[c].type = Columns[c]
  BY DEF Good, IsRow, Unparsable
<1> HIDE DEF e
<1>4. /\ DOMAIN e = 1 .. Len(e) /\ DOMAIN Columns = 1 .. Len(Columns)
      /\ Len(Columns) \in Nat \ {0}
  BY <1>2, GeneratorAssumption, EmptySeq, LenProperties
<1>5. e # <<>>
  BY <1>3, <1>4
<1>6. find_row_size(e) \in Nat \ {0}
  BY <1>2, <1>5, SizeOfRow
<1>7. Row(n) = [id |-> n, cols |-> e, len |-> find_row_size(e)]
  BY DEF Row, e
<1>8. Row(n) \in Rows
  BY <1>1, <1>2, <1>6, <1>7 DEF Rows
<1> QED
  BY <1>2, <1>3, <1>4, <1>8 DEF e

\* When the first n lines are rows and the next is none, they are the table.
LEMMA TableIs ==
    ASSUME lines \in Tables, NEW n \in 0 .. Len(lines),
           \A i \in 1 .. n : IsRow(lines[i]),
           n < Len(lines) => ~IsRow(lines[n + 1])
    PROVE  RowsOfTable = RowList(n)
<1> DEFINE ends == {i \in DOMAIN lines : ~IsRow(lines[i])} \cup {Len(lines) + 1}
<1>1. Len(lines) \in Nat /\ DOMAIN lines = 1 .. Len(lines) /\ n \in Nat
  BY LineFacts
<1>2. n + 1 \in ends
  BY <1>1
<1>3. ASSUME NEW i \in ends PROVE n + 1 <= i
  BY <1>1
<1> HIDE DEF ends
<1>4. Min(ends) \in ends /\ \A i \in ends : Min(ends) <= i
  BY <1>2, <1>3, Zenon DEF Min
<1>5. ends \subseteq Nat
  BY <1>1 DEF ends
<1>6. Min(ends) = n + 1
  <2>1. PICK m \in Nat : m = Min(ends) /\ m \in ends /\ m <= n + 1
    BY <1>2, <1>4, <1>5
  <2>2. n + 1 <= m
    BY <1>3, <2>1
  <2> QED
    BY <1>1, <2>1, <2>2
<1>7. Min(ends) - 1 = n
  BY <1>1, <1>6
<1> QED
  BY <1>7 DEF RowsOfTable, RowList, ends

\* One row more.
LEMMA RowListAppend ==
    ASSUME lines \in Tables, NEW n \in Nat, n < Len(lines), \A i \in 1 .. n + 1 : Good(i)
    PROVE  /\ RowList(n) \in Seq(Rows) /\ RowList(n + 1) \in Seq(Rows)
           /\ Row(n + 1) \in Rows /\ Len(RowList(n)) = n
           /\ RowList(n + 1) = Append(RowList(n), Row(n + 1))
           /\ Packable(RowList(n + 1)) => Packable(RowList(n)) /\ Row(n + 1).len <= usable
<1>1. ASSUME NEW i \in 1 .. n + 1 PROVE Row(i) \in Rows
  <2>1. i \in 1 .. Len(lines)
    BY LineFacts
  <2> QED
    BY <2>1, RowFacts
<1>2. /\ RowList(n) \in Seq(Rows) /\ RowList(n + 1) \in Seq(Rows) /\ Len(RowList(n)) = n
      /\ DOMAIN RowList(n) = 1 .. n /\ DOMAIN RowList(n + 1) = 1 .. n + 1
  BY <1>1 DEF RowList
<1>3. RowList(n + 1) = Append(RowList(n), Row(n + 1))
  <2>1. /\ Append(RowList(n), Row(n + 1)) \in Seq(Rows)
        /\ Len(Append(RowList(n), Row(n + 1))) = n + 1
        /\ \A i \in 1 .. n + 1 : Append(RowList(n), Row(n + 1))[i] = Row(i)
    BY <1>1, <1>2 DEF RowList
  <2>2. Len(RowList(n + 1)) = n + 1 /\ \A i \in 1 .. n + 1 : RowList(n + 1)[i] = Row(i)
    BY <1>2 DEF RowList
  <2> QED
    BY <1>2, <2>1, <2>2, SeqEqual
<1>4. \A i \in 1 .. n + 1 : RowList(n + 1)[i] = Row(i) /\ (i \in 1 .. n => RowList(n)[i] = Row(i))
  BY DEF RowList
<1>5. n + 1 \in 1 .. n + 1 /\ \A i \in 1 .. n : i \in 1 .. n + 1
  OBVIOUS
<1>6. Packable(RowList(n + 1)) => Packable(RowList(n)) /\ Row(n + 1).len <= usable
  BY <1>2, <1>4, <1>5 DEF Packable
<1> QED
  BY <1>1, <1>2, <1>3, <1>5, <1>6
-----------------------------------------------------------------------------
\* The record of a column that is learned.
IsStats(s) ==
    s = [is_physically_ordered |-> s.is_physically_ordered, total_count |-> s.total_count,
         last_element |-> s.last_element, lower_bound |-> s.lower_bound,
         upper_bound |-> s.upper_bound, reservoir |-> s.reservoir,
         exact_distinct |-> s.exact_distinct, approx_distinct |-> s.approx_distinct]

\* What an update makes of each part of the statistics.
LEMMA UpdatedStats ==
    ASSUME NEW s, IsStats(s), NEW element, NEW draw
    PROVE  LET t == update(s, element, draw)
           IN  /\ IsStats(t) /\ t.total_count = s.total_count + 1
               /\ t.lower_bound = NextBound(s.lower_bound, element, "Less")
               /\ t.upper_bound = NextBound(s.upper_bound, element, "Greater")
               /\ t.is_physically_ordered = StillOrdered(s, element)
               /\ t.reservoir = Sample(s, element, draw)
               /\ t.last_element = <<element>>
               /\ t.exact_distinct = Distinct(s, element).exact_distinct
               /\ t.approx_distinct = Distinct(s, element).approx_distinct
<1> DEFINE d == Distinct(s, element)
           t == update(s, element, draw)
<1>1. PICK s1, s2, s3, s4, s5, s6, s7, s8 :
          s = [is_physically_ordered |-> s1, total_count |-> s2, last_element |-> s3,
               lower_bound |-> s4, upper_bound |-> s5, reservoir |-> s6,
               exact_distinct |-> s7, approx_distinct |-> s8]
  BY DEF IsStats
<1>2. \/ \E y : d = [s EXCEPT !.approx_distinct = y]
      \/ \E x, y : d = [s EXCEPT !.exact_distinct = x, !.approx_distinct = y]
      \/ \E x : d = [s EXCEPT !.exact_distinct = x]
  <2>1. CASE s.exact_distinct = <<>>
    BY <2>1 DEF Distinct
  <2>2. CASE s.exact_distinct # <<>>
    <3> DEFINE set == insert(s.exact_distinct[1], element)
    <3>1. d = IF Len(set) > exact_limit
              THEN [s EXCEPT !.exact_distinct = <<>>,
                             !.approx_distinct = <<Sketch(set, element)>>]
              ELSE [s EXCEPT !.exact_distinct = <<set>>]
      BY <2>2 DEF Distinct
    <3> HIDE DEF set, d
    <3> QED
      BY <3>1
  <2> QED
    BY <2>1, <2>2
<1>3. PICK x, y : d = [is_physically_ordered |-> s1, total_count |-> s2, last_element |-> s3,
                       lower_bound |-> s4, upper_bound |-> s5, reservoir |-> s6,
                       exact_distinct |-> x, approx_distinct |-> y]
  <2> HIDE DEF d
  <2>1. CASE \E y : d = [s EXCEPT !.approx_distinct = y]
    BY <1>1, <2>1
  <2>2. CASE \E x, y : d = [s EXCEPT !.exact_distinct = x, !.approx_distinct = y]
    BY <1>1, <2>2
  <2>3. CASE \E x : d = [s EXCEPT !.exact_distinct = x]
    BY <1>1, <2>3
  <2> QED
    BY <1>2, <2>1, <2>2, <2>3
<1>4. t = [d EXCEPT !.total_count = @ + 1,
                    !.lower_bound = NextBound(@, element, "Less"),
                    !.upper_bound = NextBound(@, element, "Greater"),
                    !.is_physically_ordered = StillOrdered(s, element),
                    !.reservoir = Sample(s, element, draw),
                    !.last_element = <<element>>]
  BY DEF update
<1> HIDE DEF d, t
<1>5. t = [is_physically_ordered |-> StillOrdered(s, element), total_count |-> s2 + 1,
           last_element |-> <<element>>, lower_bound |-> NextBound(s4, element, "Less"),
           upper_bound |-> NextBound(s5, element, "Greater"),
           reservoir |-> Sample(s, element, draw),
           exact_distinct |-> x, approx_distinct |-> y]
  BY <1>3, <1>4
<1>6. d.exact_distinct = x /\ d.approx_distinct = y
  BY <1>3
<1>7. IsStats(t)
  BY <1>5 DEF IsStats
<1> QED
  BY <1>1, <1>5, <1>6, <1>7 DEF d, t
-----------------------------------------------------------------------------
Passes == {"Disk", "Stats", "Sqlite", "Done", "Bailed", "Panicked"}

\* The lines a pass has taken are rows.
LinesTaken ==
    /\ lines \in Tables /\ pass \in Passes /\ line_no \in 0 .. Len(lines)
    /\ \A n \in 1 .. line_no : Good(n)

\* The blocks written and the one that is filled hold the rows so far.
FileFollows ==
    /\ pass = "Disk" /\ Packable(RowList(line_no)) =>
           /\ file \in Seq(FilledBlocks(Rows)) /\ buf \in PackedBlocks(Rows)
           /\ DecodeBlocks(file) \o buf.rows = RowList(line_no)
    /\ pass \in {"Stats", "Sqlite", "Done"} /\ Packable(RowsOfTable) =>
           DecodeBlocks(file) = RowsOfTable

\* Every column has seen the rows so far.
StatsFollow ==
    /\ DOMAIN stats = DOMAIN Columns
    /\ \A c \in DOMAIN Columns :
           /\ IsStats(stats[c])
           /\ pass = "Disk" => stats[c].total_count = 0
           /\ pass = "Stats" => stats[c].total_count = line_no
           /\ pass \in {"Sqlite", "Done"} => stats[c].total_count = Len(RowsOfTable)

SqlRows(rows) == [i \in DOMAIN rows |-> SqlRow(rows[i])]

\* SQLite has taken these rows, and has what it stores of them, if it has not
\* misread one.
HasTaken(rows) ==
    (\A i \in DOMAIN rows : ~HasQuote(rows[i])) =>
        (\A i \in DOMAIN rows : IsSql(rows[i])) /\ sqlite = SqlRows(rows)

\* The rows inserted and those of the statement are the rows so far.
SqliteFollows ==
    /\ batch \in Seq(Rows)
    /\ pass \in {"Disk", "Stats"} => sqlite = <<>> /\ batch = <<>>
    /\ pass = "Sqlite" =>
           \E taken \in Seq(Rows) : taken \o batch = RowList(line_no) /\ HasTaken(taken)
    /\ pass = "Done" => RowsOfTable = RowList(line_no) /\ HasTaken(RowsOfTable)

PassInv == LinesTaken /\ (RowsArePacked => FileFollows) /\ StatsFollow /\ SqliteFollows

\* What SQLite has taken does not change when its rows do not.
LEMMA TakenStays ==
    ASSUME UNCHANGED <<lines, sqlite>>
    PROVE  /\ \A rows : HasTaken(rows)' <=> HasTaken(rows)
           /\ HasTaken(RowsOfTable)' <=> HasTaken(RowsOfTable)
  BY DEF HasTaken, SqlRows, SqlRow, HasQuote, IsSql, RowsOfTable, Row

\* No step changes the lines, so rows stay what they are.
LEMMA RowsStay ==
    ASSUME UNCHANGED lines
    PROVE  /\ RowsOfTable' = RowsOfTable
           /\ RowList(line_no)' = RowList(line_no')
           /\ \A n : Good(n)' <=> Good(n)
<1>1. RowsOfTable' = RowsOfTable
  BY DEF RowsOfTable, Row
<1>2. RowList(line_no)' = RowList(line_no')
  BY DEF RowList, Row
<1>3. \A n : Good(n)' <=> Good(n)
  BY DEF Good
<1> QED
  BY <1>1, <1>2, <1>3

\* A pass takes a line that is a row.
LEMMA TakesLine ==
    ASSUME LinesTaken, NextIsRow
    PROVE  /\ line_no \in Nat /\ line_no + 1 \in 1 .. Len(lines) /\ line_no < Len(lines)
           /\ \A n \in 1 .. line_no + 1 : Good(n)
           /\ TheRow = Row(line_no + 1)
           /\ TheRow \in Rows
           /\ RowList(line_no) \in Seq(Rows) /\ RowList(line_no + 1) \in Seq(Rows)
           /\ RowList(line_no + 1) = Append(RowList(line_no), TheRow)
           /\ Packable(RowList(line_no + 1)) =>
                  Packable(RowList(line_no)) /\ TheRow.len <= usable
<1>1. line_no \in Nat /\ line_no + 1 \in 1 .. Len(lines) /\ line_no < Len(lines)
  BY LineFacts DEF LinesTaken, NextIsRow, HasLine
<1>2. Good(line_no + 1)
  BY DEF NextIsRow, Line, Good
<1>3. \A n \in 1 .. line_no + 1 : Good(n)
  <2>1. \A n \in 1 .. line_no + 1 : n \in 1 .. line_no \/ n = line_no + 1
    BY <1>1
  <2> QED
    BY <1>2, <2>1 DEF LinesTaken
<1>4. TheRow = Row(line_no + 1)
  BY DEF TheRow
<1>5. lines \in Tables
  BY DEF LinesTaken
<1> QED
  BY <1>1, <1>3, <1>4, <1>5, RowListAppend

\* When no line is left that is a row, those taken are the table.
LEMMA TakesNone ==
    ASSUME LinesTaken, NextIsNone
    PROVE  RowsOfTable = RowList(line_no) /\ RowList(line_no) \in Seq(Rows)
           /\ Len(RowsOfTable) = line_no /\ line_no \in Nat
<1>1. /\ lines \in Tables /\ line_no \in 0 .. Len(lines)
      /\ \A i \in 1 .. line_no : IsRow(lines[i]) /\ Good(i)
      /\ line_no < Len(lines) => ~IsRow(lines[line_no + 1])
  BY DEF LinesTaken, NextIsNone, HasLine, Line, Good
<1>2. line_no \in Nat /\ \A i \in 1 .. line_no : Row(i) \in Rows
  BY <1>1, LineFacts, RowFacts
<1>3. RowList(line_no) \in Seq(Rows) /\ Len(RowList(line_no)) = line_no
  BY <1>2 DEF RowList
<1>4. RowsOfTable = RowList(line_no)
  BY <1>1, TableIs
<1> QED
  BY <1>2, <1>3, <1>4

\* Before the first line all of that holds.
LEMMA PassInvInit ==
    ASSUME Init
    PROVE  PassInv
<1>1. LinesTaken
  BY LineFacts DEF Init, LinesTaken, Passes
<1>2. ASSUME RowsArePacked PROVE FileFollows
  <2>1. EmptyBlock \in PackedBlocks(Rows) /\ Decodable(FilledBlocks(Rows), Rows)
    BY <1>2, BlockFacts DEF RowsArePacked
  <2>2. DecodeBlocks(<<>>) = <<>>
    <3>1. <<>> \in Seq(FilledBlocks(Rows))
      OBVIOUS
    <3> QED
      BY <2>1, <3>1, DecodeAppend
  <2>3. RowList(0) = <<>>
    BY DEF RowList
  <2>4. file = <<>> /\ buf = EmptyBlock /\ line_no = 0 /\ pass = "Disk"
    BY DEF Init
  <2>5. EmptyBlock.rows = <<>> /\ <<>> \o <<>> = <<>>
    BY DEF EmptyBlock
  <2> QED
    BY <2>1, <2>2, <2>3, <2>4, <2>5 DEF FileFollows
<1>3. StatsFollow
  BY DEF Init, StatsFollow, StatsGenerator, IsStats
<1>4. SqliteFollows
  BY DEF Init, SqliteFollows
<1> QED
  BY <1>1, <1>2, <1>3, <1>4 DEF PassInv

\* A row of the disk pass goes into the block that is filled, or into the next.
LEMMA SaveRowKeeps ==
    ASSUME PassInv, SaveRow
    PROVE  PassInv'
<1> DEFINE full == offset(buf) + TheRow.len > usable
           current == IF full THEN EmptyBlock ELSE buf
<1>1. /\ pass = "Disk" /\ NextIsRow /\ UNCHANGED <<lines, stats_vars, sqlite_vars>>
      /\ file' = IF full THEN Append(file, buf) ELSE file
      /\ \/ buf' = AddRow(current, TheRow) /\ line_no' = line_no + 1 /\ UNCHANGED pass
         \/ pass' = "Panicked" /\ UNCHANGED <<buf, line_no>>
  BY DEF SaveRow
<1> HIDE DEF full, current
<1>2. LinesTaken
  BY DEF PassInv
<1>3. /\ line_no \in Nat /\ line_no + 1 \in 1 .. Len(lines)
      /\ \A n \in 1 .. line_no + 1 : Good(n)
      /\ TheRow \in Rows
      /\ RowList(line_no + 1) = Append(RowList(line_no), TheRow)
      /\ Packable(RowList(line_no + 1)) => Packable(RowList(line_no)) /\ TheRow.len <= usable
  BY <1>1, <1>2, TakesLine
<1>4. /\ RowsOfTable' = RowsOfTable /\ RowList(line_no)' = RowList(line_no')
      /\ \A n : Good(n)' <=> Good(n)
  BY <1>1, RowsStay
<1>5. LinesTaken'
  <2>1. lines' = lines /\ pass' \in Passes /\ line_no' \in 0 .. Len(lines)
    BY <1>1, <1>2, <1>3 DEF LinesTaken, Passes
  <2>2. \A n \in 1 .. line_no' : Good(n)
    BY <1>1, <1>2, <1>3 DEF LinesTaken
  <2> QED
    BY <1>2, <1>4, <2>1, <2>2 DEF LinesTaken
<1>6. ASSUME RowsArePacked PROVE FileFollows'
  <2> SUFFICES ASSUME pass' = "Disk", Packable(RowList(line_no'))
               PROVE  /\ file' \in Seq(FilledBlocks(Rows)) /\ buf' \in PackedBlocks(Rows)
                      /\ DecodeBlocks(file') \o buf'.rows = RowList(line_no')
    <3>1. pass' \in {"Disk", "Panicked"}
      BY <1>1
    <3> QED
      BY <1>4, <3>1 DEF FileFollows
  <2>1. buf' = AddRow(current, TheRow) /\ line_no' = line_no + 1
    BY <1>1
  <2>2. Packable(RowList(line_no)) /\ TheRow.len <= usable
    BY <1>3, <2>1
  <2>3. /\ file \in Seq(FilledBlocks(Rows)) /\ buf \in PackedBlocks(Rows)
        /\ DecodeBlocks(file) \o buf.rows = RowList(line_no)
    BY <1>1, <1>6, <2>2 DEF PassInv, FileFollows
  <2>4. /\ EmptyBlock \in PackedBlocks(Rows) /\ offset(EmptyBlock) = 0
        /\ \A block \in PackedBlocks(Rows), row \in Rows :
               offset(block) + row.len <= usable => AddRow(block, row) \in PackedBlocks(Rows)
    BY <1>6, PackedBlock DEF RowsArePacked, RowsSized
  <2>5. /\ Decodable(FilledBlocks(Rows), Rows)
        /\ \A block \in PackedBlocks(Rows) :
               decode_block(block) = block.rows /\ block.rows \in Seq(Rows)
    BY <1>6, BlockFacts, DecodePacked DEF RowsArePacked, RowsSized, PackedBlocks
  <2>6. \A block \in PackedBlocks(Rows) :
            offset(block) \in Nat /\ (block.rows = <<>> => offset(block) = 0)
    <3>1. \A r \in Rows : r.len \in Nat
      BY DEF Rows
    <3> QED
      BY <2>5, <3>1, OffsetOfBlock
  <2>7. TheRow.len \in Nat /\ usable \in Nat
    BY <1>3, BlockSizeAssumption DEF Rows, usable, CountBytes
  <2>8. current \in PackedBlocks(Rows) /\ offset(current) + TheRow.len <= usable
    BY <2>2, <2>3, <2>4, <2>6, <2>7 DEF current, full
  <2>9. buf' \in PackedBlocks(Rows) /\ buf'.rows = Append(current.rows, TheRow)
    <3>1. AddRow(current, TheRow) \in PackedBlocks(Rows)
      BY <1>3, <2>4, <2>8
    <3> QED
      BY <2>1, <3>1 DEF AddRow
  <2>10. current.rows \in Seq(Rows)
    BY <2>5, <2>8
  <2>11. CASE ~full
    <3>1. current = buf /\ file' = file
      BY <1>1, <2>11 DEF current
    <3>2. DecodeBlocks(file) \in Seq(Rows)
      BY <2>3, <2>5, DecodeAppend
    <3>3. DecodeBlocks(file) \o Append(buf.rows, TheRow)
              = Append(DecodeBlocks(file) \o buf.rows, TheRow)
      BY <1>3, <2>10, <3>1, <3>2, AppendLater
    <3> QED
      BY <1>3, <2>1, <2>3, <2>9, <3>1, <3>3
  <2>12. CASE full
    <3>1. current = EmptyBlock /\ file' = Append(file, buf)
      BY <1>1, <2>12 DEF current
    <3>2. buf.rows # <<>>
      BY <2>2, <2>3, <2>6, <2>7, <2>12 DEF full
    <3>3. buf \in FilledBlocks(Rows)
      BY <2>3, <3>2 DEF FilledBlocks
    <3>4. file' \in Seq(FilledBlocks(Rows))
      BY <2>3, <3>1, <3>3
    <3>5. DecodeBlocks(file') = RowList(line_no)
      <4>1. DecodeBlocks(Append(file, buf)) = DecodeBlocks(file) \o decode_block(buf)
        BY <2>3, <2>5, <3>3, DecodeAppend
      <4> QED
        BY <2>3, <2>5, <3>1, <4>1
    <3>6. buf'.rows = Append(<<>>, TheRow)
      BY <2>9, <3>1 DEF EmptyBlock
    <3>7. RowList(line_no) \in Seq(Rows)
      BY <1>1, <1>2, TakesLine
    <3>8. RowList(line_no) \o Append(<<>>, TheRow) = Append(RowList(line_no), TheRow)
      <4>1. <<>> \in Seq(Rows) /\ RowList(line_no) \o <<>> = RowList(line_no)
        BY <3>7, ConcatEmptySeq
      <4> QED
        BY <1>3, <3>7, <4>1, AppendLater
    <3> QED
      BY <1>3, <2>1, <2>9, <3>4, <3>5, <3>6, <3>8
  <2> QED
    BY <2>11, <2>12
<1>7. StatsFollow'
  <2>1. pass' \in {"Disk", "Panicked"} /\ stats' = stats
    BY <1>1 DEF stats_vars
  <2> QED
    BY <1>1, <2>1 DEF PassInv, StatsFollow
<1>8. SqliteFollows'
  <2>1. pass' \in {"Disk", "Panicked"} /\ sqlite' = sqlite /\ batch' = batch
    BY <1>1 DEF sqlite_vars
  <2> QED
    BY <1>1, <2>1 DEF PassInv, SqliteFollows
<1> QED
  BY <1>5, <1>6, <1>7, <1>8 DEF PassInv

\* The end of the disk pass.
LEMMA CloseFileKeeps ==
    ASSUME PassInv, CloseFile
    PROVE  PassInv'
<1>1. /\ pass = "Disk" /\ NextIsNone /\ UNCHANGED <<lines, buf, stats_vars, sqlite_vars>>
      /\ file' = WithLastBlock
      /\ \/ pass' = "Stats" /\ line_no' = 0
         \/ pass' = "Bailed" /\ line_no' = line_no
  BY DEF CloseFile, Begin
<1>2. LinesTaken
  BY DEF PassInv
<1>3. /\ RowsOfTable = RowList(line_no) /\ RowList(line_no) \in Seq(Rows)
      /\ Len(RowsOfTable) = line_no /\ line_no \in Nat
  BY <1>1, <1>2, TakesNone
<1>4. /\ RowsOfTable' = RowsOfTable /\ RowList(line_no)' = RowList(line_no')
      /\ \A n : Good(n)' <=> Good(n)
  BY <1>1, RowsStay
<1>5. LinesTaken'
  <2>1. lines' = lines /\ pass' \in Passes /\ line_no' \in 0 .. Len(lines)
    BY <1>1, <1>2, LineFacts DEF LinesTaken, Passes
  <2>2. \A n \in 1 .. line_no' : Good(n)
    BY <1>1, <1>2 DEF LinesTaken
  <2> QED
    BY <1>2, <1>4, <2>1, <2>2 DEF LinesTaken
<1>6. ASSUME RowsArePacked PROVE FileFollows'
  <2> SUFFICES ASSUME Packable(RowsOfTable)
               PROVE  DecodeBlocks(file') = RowsOfTable
    <3>1. pass' \in {"Stats", "Bailed"}
      BY <1>1
    <3> QED
      BY <1>4, <3>1 DEF FileFollows
  <2>1. /\ file \in Seq(FilledBlocks(Rows)) /\ buf \in PackedBlocks(Rows)
        /\ DecodeBlocks(file) \o buf.rows = RowList(line_no)
    BY <1>1, <1>3, <1>6 DEF PassInv, FileFollows
  <2>2. /\ Decodable(FilledBlocks(Rows), Rows)
        /\ \A block \in PackedBlocks(Rows) :
               /\ decode_block(block) = block.rows /\ block.rows \in Seq(Rows)
               /\ block.row_count = Len(block.rows)
    BY <1>6, BlockFacts, DecodePacked DEF RowsArePacked, RowsSized, PackedBlocks
  <2>3. CASE buf.row_count > 0
    <3>1. file' = Append(file, buf)
      BY <1>1, <2>3 DEF WithLastBlock
    <3>2. buf \in FilledBlocks(Rows)
      BY <2>1, <2>2, <2>3 DEF FilledBlocks
    <3>3. DecodeBlocks(Append(file, buf)) = DecodeBlocks(file) \o decode_block(buf)
      BY <2>1, <2>2, <3>2, DecodeAppend
    <3> QED
      BY <1>3, <2>1, <2>2, <3>1, <3>3
  <2>4. CASE ~(buf.row_count > 0)
    <3>1. file' = file
      BY <1>1, <2>4 DEF WithLastBlock
    <3>2. buf.rows = <<>>
      <4>1. Len(buf.rows) = 0
        BY <2>1, <2>2, <2>4, LenProperties
      <4> QED
        BY <2>1, <2>2, <4>1, EmptySeq
    <3>3. DecodeBlocks(file) \in Seq(Rows)
      BY <2>1, <2>2, DecodeAppend
    <3> QED
      BY <1>3, <2>1, <3>1, <3>2, <3>3, ConcatEmptySeq
  <2> QED
    BY <2>3, <2>4
<1>7. StatsFollow'
  <2>1. pass' \in {"Stats", "Bailed"} /\ (pass' = "Stats" => line_no' = 0) /\ stats' = stats
    BY <1>1 DEF stats_vars
  <2> QED
    BY <1>1, <2>1 DEF PassInv, StatsFollow
<1>8. SqliteFollows'
  <2>1. pass' \in {"Stats", "Bailed"} /\ sqlite' = sqlite /\ batch' = batch
    BY <1>1 DEF sqlite_vars
  <2> QED
    BY <1>1, <2>1 DEF PassInv, SqliteFollows
<1> QED
  BY <1>5, <1>6, <1>7, <1>8 DEF PassInv

\* What the statistics pass takes is counted.
LEMMA UpdateStatsKeeps ==
    ASSUME PassInv, UpdateStats
    PROVE  PassInv'
<1>1. /\ pass = "Stats" /\ NextIsRow
      /\ UNCHANGED <<lines, pass, disk_vars, column_specs, sqlite_vars>>
      /\ line_no' = line_no + 1
  BY DEF UpdateStats
<1>2. PICK draws :
          stats' = [c \in DOMAIN Columns |-> update(stats[c], TheRow.cols[c], draws[c])]
  BY Zenon DEF UpdateStats
<1>3. LinesTaken
  BY DEF PassInv
<1>4. /\ line_no \in Nat /\ line_no + 1 \in 1 .. Len(lines)
      /\ \A n \in 1 .. line_no + 1 : Good(n)
  BY <1>1, <1>3, TakesLine
<1>5. /\ RowsOfTable' = RowsOfTable /\ RowList(line_no)' = RowList(line_no')
      /\ \A n : Good(n)' <=> Good(n)
  BY <1>1, RowsStay
<1>6. LinesTaken'
  <2>1. lines' = lines /\ pass' \in Passes /\ line_no' \in 0 .. Len(lines)
    BY <1>1, <1>3, <1>4 DEF LinesTaken
  <2>2. \A n \in 1 .. line_no' : Good(n)
    BY <1>1, <1>4
  <2> QED
    BY <1>3, <1>5, <2>1, <2>2 DEF LinesTaken
<1>7. ASSUME RowsArePacked PROVE FileFollows'
  BY <1>1, <1>5, <1>7 DEF PassInv, FileFollows, disk_vars
<1>8. StatsFollow'
  <2>1. DOMAIN stats' = DOMAIN Columns
    BY <1>2
  <2>2. ASSUME NEW c \in DOMAIN Columns
        PROVE  IsStats(stats'[c]) /\ stats'[c].total_count = line_no + 1
    <3>1. IsStats(stats[c]) /\ stats[c].total_count = line_no
      BY <1>1 DEF PassInv, StatsFollow
    <3>2. stats'[c] = update(stats[c], TheRow.cols[c], draws[c])
      BY <1>2
    <3> QED
      BY <3>1, <3>2, UpdatedStats
  <2>3. pass' = "Stats"
    BY <1>1
  <2> QED
    BY <1>1, <2>1, <2>2, <2>3 DEF StatsFollow
<1>9. SqliteFollows'
  BY <1>1 DEF PassInv, SqliteFollows, sqlite_vars
<1> QED
  BY <1>6, <1>7, <1>8, <1>9 DEF PassInv

\* The end of the statistics pass.
LEMMA BuildStatsKeeps ==
    ASSUME PassInv, BuildStats
    PROVE  PassInv'
<1>1. /\ pass = "Stats" /\ NextIsNone /\ UNCHANGED <<lines, disk_vars, stats, sqlite_vars>>
      /\ pass' = "Sqlite" /\ line_no' = 0
  BY DEF BuildStats, Begin
<1>2. LinesTaken
  BY DEF PassInv
<1>3. RowsOfTable = RowList(line_no) /\ Len(RowsOfTable) = line_no
  BY <1>1, <1>2, TakesNone
<1>4. /\ RowsOfTable' = RowsOfTable /\ RowList(line_no)' = RowList(line_no')
      /\ \A n : Good(n)' <=> Good(n)
  BY <1>1, RowsStay
<1>5. LinesTaken'
  <2>1. lines' = lines /\ pass' \in Passes /\ line_no' \in 0 .. Len(lines)
    BY <1>1, <1>2, LineFacts DEF LinesTaken, Passes
  <2>2. \A n \in 1 .. line_no' : Good(n)
    BY <1>1
  <2> QED
    BY <1>2, <1>4, <2>1, <2>2 DEF LinesTaken
<1>6. ASSUME RowsArePacked PROVE FileFollows'
  <2>1. file' = file /\ buf' = buf
    BY <1>1 DEF disk_vars
  <2> QED
    BY <1>1, <1>4, <1>6, <2>1 DEF PassInv, FileFollows
<1>7. StatsFollow'
  BY <1>1, <1>3, <1>4 DEF PassInv, StatsFollow
<1>8. SqliteFollows'
  <2>1. sqlite' = <<>> /\ batch' = <<>>
    BY <1>1 DEF PassInv, SqliteFollows, sqlite_vars
  <2>2. RowList(line_no)' = <<>>
    BY <1>1, <1>4 DEF RowList
  <2>3. <<>> \o <<>> = <<>> /\ <<>> \in Seq(Rows)
    OBVIOUS
  <2>4. HasTaken(<<>>)'
    BY <2>1 DEF HasTaken, SqlRows
  <2> QED
    BY <1>1, <2>1, <2>2, <2>3, <2>4 DEF SqliteFollows
<1> QED
  BY <1>5, <1>6, <1>7, <1>8 DEF PassInv

Concat(u, s, t) == u = s \o t

\* What is stored of rows before and after others is stored before and after.
LEMMA SqlConcat ==
    ASSUME NEW s \in Seq(Rows), NEW t \in Seq(Rows), NEW u, Concat(u, s, t)
    PROVE  /\ SqlRows(u) = SqlRows(s) \o SqlRows(t)
           /\ \A i \in DOMAIN s : \E k \in DOMAIN u : u[k] = s[i]
           /\ \A i \in DOMAIN t : \E k \in DOMAIN u : u[k] = t[i]
           /\ \A k \in DOMAIN u : \/ \E i \in DOMAIN s : u[k] = s[i]
                                \/ \E i \in DOMAIN t : u[k] = t[i]
<1>1. PICK m, n \in Nat : m = Len(s) /\ n = Len(t) /\ DOMAIN s = 1 .. m /\ DOMAIN t = 1 .. n
  BY LenProperties
<1>2. /\ u \in Seq(Rows) /\ Len(u) = m + n /\ DOMAIN u = 1 .. m + n
      /\ \A i \in 1 .. m + n : u[i] = IF i <= m THEN s[i] ELSE t[i - m]
  <2>1. /\ u \in Seq(Rows) /\ Len(u) = Len(s) + Len(t)
        /\ \A i \in 1 .. Len(s) + Len(t) :
               u[i] = IF i <= Len(s) THEN s[i] ELSE t[i - Len(s)]
    BY ConcatProperties DEF Concat
  <2> QED
    BY <1>1, <2>1, LenProperties
<1> DEFINE S == {SqlRow(row) : row \in Rows}
<1>3. /\ SqlRows(s) \in Seq(S) /\ Len(SqlRows(s)) = m
      /\ \A i \in 1 .. m : SqlRows(s)[i] = SqlRow(s[i])
  <2>1. \A i \in 1 .. m : SqlRow(s[i]) \in S
    BY <1>1
  <2> HIDE DEF S
  <2> QED
    BY <1>1, <2>1 DEF SqlRows
<1>4. /\ SqlRows(t) \in Seq(S) /\ Len(SqlRows(t)) = n
      /\ \A i \in 1 .. n : SqlRows(t)[i] = SqlRow(t[i])
  <2>1. \A i \in 1 .. n : SqlRow(t[i]) \in S
    BY <1>1
  <2> HIDE DEF S
  <2> QED
    BY <1>1, <2>1 DEF SqlRows
<1> HIDE DEF S
<1>5. PICK f, g : f = SqlRows(s) /\ g = SqlRows(t)
  OBVIOUS
<1>6. /\ f \o g \in Seq(S) /\ Len(f \o g) = m + n
      /\ \A i \in 1 .. m + n : (f \o g)[i] = IF i <= m THEN f[i] ELSE g[i - m]
  <2>1. f \in Seq(S) /\ g \in Seq(S) /\ Len(f) = m /\ Len(g) = n
    BY <1>3, <1>4, <1>5
  <2> QED
    BY <2>1, ConcatProperties
<1>7. SqlRows(u) = f \o g
  <2>1. /\ SqlRows(u) \in Seq(S) /\ Len(SqlRows(u)) = m + n
        /\ \A i \in 1 .. m + n : SqlRows(u)[i] = SqlRow(u[i])
    <3>1. \A i \in 1 .. m + n : SqlRow(u[i]) \in S
      BY <1>2 DEF S
    <3> QED
      BY <1>1, <1>2, <3>1 DEF SqlRows
  <2>2. \A i \in 1 .. m + n : SqlRow(u[i]) = (f \o g)[i]
    <3> TAKE i \in 1 .. m + n
    <3>1. CASE i <= m
      <4>1. i \in 1 .. m
        BY <3>1
      <4>2. u[i] = s[i] /\ (f \o g)[i] = f[i] /\ f[i] = SqlRow(s[i])
        BY <1>2, <1>3, <1>5, <1>6, <3>1, <4>1
      <4> QED
        BY <4>2
    <3>2. CASE i > m
      <4>1. i - m \in 1 .. n /\ ~(i <= m)
        BY <3>2
      <4>2. u[i] = t[i - m] /\ (f \o g)[i] = g[i - m] /\ g[i - m] = SqlRow(t[i - m])
        BY <1>2, <1>4, <1>5, <1>6, <4>1
      <4> QED
        BY <4>2
    <3>3. i <= m \/ i > m
      OBVIOUS
    <3> QED
      BY <3>1, <3>2, <3>3, Zenon
  <2>3. PICK h : h = SqlRows(u)
    OBVIOUS
  <2>4. PICK e : e = f \o g
    OBVIOUS
  <2> QED
    BY <1>6, <2>1, <2>2, <2>3, <2>4
<1>8. ASSUME NEW i \in DOMAIN s PROVE \E k \in DOMAIN u : u[k] = s[i]
  BY <1>1, <1>2
<1>9. ASSUME NEW i \in DOMAIN t PROVE \E k \in DOMAIN u : u[k] = t[i]
  <2>1. m + i \in 1 .. m + n /\ ~(m + i <= m) /\ (m + i) - m = i
    BY <1>1
  <2> QED
    BY <1>2, <2>1
<1>10. ASSUME NEW k \in DOMAIN u
       PROVE  (\E i \in DOMAIN s : u[k] = s[i]) \/ (\E i \in DOMAIN t : u[k] = t[i])
  <2>1. CASE k <= m
    BY <1>1, <1>2, <2>1
  <2>2. CASE ~(k <= m)
    <3>1. k - m \in 1 .. n
      BY <1>2, <2>2
    <3> QED
      BY <1>1, <1>2, <2>2, <3>1
  <2> QED
    BY <2>1, <2>2
<1> QED
  BY <1>5, <1>7, <1>8, <1>9, <1>10

\* An INSERT adds its rows to those taken, or is the end of the generator.
LEMMA Executes ==
    ASSUME NEW taken \in Seq(Rows), NEW rows \in Seq(Rows), NEW all, Concat(all, taken, rows),
           NEW next, HasTaken(taken), Execute(rows, next)
    PROVE  \/ pass' = next /\ HasTaken(all)'
           \/ pass' = "Bailed"
<1>1. /\ SqlRows(all) = SqlRows(taken) \o SqlRows(rows)
      /\ \A i \in DOMAIN taken : \E k \in DOMAIN all : all[k] = taken[i]
      /\ \A i \in DOMAIN rows : \E k \in DOMAIN all : all[k] = rows[i]
      /\ \A k \in DOMAIN all : \/ \E i \in DOMAIN taken : all[k] = taken[i]
                               \/ \E i \in DOMAIN rows : all[k] = rows[i]
  <2>1. SqlRows(all) = SqlRows(taken) \o SqlRows(rows)
    BY SqlConcat
  <2>2. \A i \in DOMAIN taken : \E k \in DOMAIN all : all[k] = taken[i]
    BY SqlConcat
  <2>3. \A i \in DOMAIN rows : \E k \in DOMAIN all : all[k] = rows[i]
    BY SqlConcat
  <2>4. \A k \in DOMAIN all : \/ \E i \in DOMAIN taken : all[k] = taken[i]
                              \/ \E i \in DOMAIN rows : all[k] = rows[i]
    BY SqlConcat
  <2> QED
    BY <2>1, <2>2, <2>3, <2>4
<1>2. HasTaken(all)' <=>
          ((\A i \in DOMAIN all : ~HasQuote(all[i])) =>
               (\A i \in DOMAIN all : IsSql(all[i])) /\ sqlite' = SqlRows(all))
  BY DEF HasTaken, SqlRows, SqlRow, IsSql, HasQuote
<1>3. CASE /\ \A i \in DOMAIN rows : IsSql(rows[i]) /\ ~HasQuote(rows[i])
           /\ sqlite' = sqlite \o SqlRows(rows) /\ pass' = next
  <2> SUFFICES ASSUME \A i \in DOMAIN all : ~HasQuote(all[i])
               PROVE  (\A i \in DOMAIN all : IsSql(all[i])) /\ sqlite' = SqlRows(all)
    BY <1>2, <1>3
  <2>1. \A i \in DOMAIN taken : ~HasQuote(taken[i])
    BY <1>1
  <2>2. (\A i \in DOMAIN taken : IsSql(taken[i])) /\ sqlite = SqlRows(taken)
    BY <2>1 DEF HasTaken
  <2> QED
    BY <1>1, <1>3, <2>2
<1>4. CASE (\E i \in DOMAIN rows : HasQuote(rows[i])) /\ pass' = next
  <2>1. \E i \in DOMAIN all : HasQuote(all[i])
    BY <1>1, <1>4
  <2> QED
    BY <1>2, <1>4, <2>1
<1> QED
  BY <1>3, <1>4 DEF Execute, SqlRows

\* The rows of a statement are kept until it is executed.
LEMMA InsertRowKeeps ==
    ASSUME PassInv, InsertRow
    PROVE  PassInv'
<1>1. /\ pass = "Sqlite" /\ NextIsRow /\ UNCHANGED <<lines, disk_vars, stats_vars>>
      /\ line_no' = line_no + 1
      /\ \/ Execute(Append(batch, TheRow), pass) /\ batch' = <<>>
         \/ batch' = Append(batch, TheRow) /\ UNCHANGED <<sqlite, pass>>
  BY DEF InsertRow
<1>2. LinesTaken
  BY DEF PassInv
<1>3. /\ line_no \in Nat /\ line_no + 1 \in 1 .. Len(lines)
      /\ \A n \in 1 .. line_no + 1 : Good(n)
      /\ TheRow \in Rows
      /\ RowList(line_no + 1) = Append(RowList(line_no), TheRow)
  BY <1>1, <1>2, TakesLine
<1>4. /\ RowsOfTable' = RowsOfTable /\ RowList(line_no)' = RowList(line_no')
      /\ \A n : Good(n)' <=> Good(n)
  BY <1>1, RowsStay
<1>5. PICK taken \in Seq(Rows), rows \in Seq(Rows), all \in Seq(Rows) :
          /\ HasTaken(taken) /\ rows = Append(batch, TheRow)
          /\ Concat(all, taken, rows) /\ all = RowList(line_no + 1)
  <2>1. batch \in Seq(Rows)
    BY DEF PassInv, SqliteFollows
  <2>2. PICK taken \in Seq(Rows) : taken \o batch = RowList(line_no) /\ HasTaken(taken)
    BY <1>1 DEF PassInv, SqliteFollows
  <2>3. taken \o Append(batch, TheRow) = Append(taken \o batch, TheRow)
    BY <1>3, <2>1, <2>2, AppendLater
  <2>4. Append(batch, TheRow) \in Seq(Rows)
    BY <1>3, <2>1, AppendProperties
  <2>5. taken \o Append(batch, TheRow) \in Seq(Rows)
    BY <2>2, <2>4, ConcatProperties
  <2> QED
    BY <1>3, <2>1, <2>2, <2>3, <2>4, <2>5, Zenon DEF Concat
<1>6. \/ HasTaken(all)' /\ batch' = <<>> /\ pass' = "Sqlite"
      \/ batch' = <<>> /\ pass' = "Bailed"
      \/ HasTaken(taken)' /\ batch' = rows /\ pass' = "Sqlite"
  <2>1. CASE Execute(Append(batch, TheRow), pass) /\ batch' = <<>>
    <3>1. PICK next : next = pass
      OBVIOUS
    <3>2. Execute(rows, next)
      BY <1>5, <2>1, <3>1 DEF Execute
    <3>3. \/ pass' = next /\ HasTaken(all)'
          \/ pass' = "Bailed"
      BY <1>5, <3>2, Executes
    <3> QED
      BY <1>1, <2>1, <3>1, <3>3
  <2>2. CASE batch' = Append(batch, TheRow) /\ UNCHANGED <<sqlite, pass>>
    <3>1. HasTaken(taken)'
      BY <1>1, <1>5, <2>2, TakenStays
    <3> QED
      BY <1>1, <1>5, <2>2, <3>1
  <2> QED
    BY <1>1, <2>1, <2>2
<1>7. LinesTaken'
  <2>1. lines' = lines /\ pass' \in Passes /\ line_no' \in 0 .. Len(lines)
    BY <1>1, <1>2, <1>3, <1>6 DEF LinesTaken, Passes
  <2>2. \A n \in 1 .. line_no' : Good(n)
    BY <1>1, <1>3
  <2> QED
    BY <1>2, <1>4, <2>1, <2>2 DEF LinesTaken
<1>8. ASSUME RowsArePacked PROVE FileFollows'
  <2>1. file' = file /\ buf' = buf /\ pass' \in {"Sqlite", "Bailed"}
    BY <1>1, <1>6 DEF disk_vars
  <2> QED
    BY <1>1, <1>4, <1>8, <2>1 DEF PassInv, FileFollows
<1>9. StatsFollow'
  <2>1. stats' = stats /\ pass' \in {"Sqlite", "Bailed"}
    BY <1>1, <1>6 DEF stats_vars
  <2> QED
    BY <1>1, <1>4, <2>1 DEF PassInv, StatsFollow
<1>10. SqliteFollows'
  <2>1. <<>> \in Seq(Rows) /\ all \o <<>> = all
    BY <1>5, ConcatEmptySeq
  <2>2. batch' \in Seq(Rows) /\ pass' \in {"Sqlite", "Bailed"}
    BY <1>5, <1>6, <2>1, Zenon
  <2>3. RowList(line_no)' = RowList(line_no + 1)
    BY <1>1, <1>4
  <2>4. ASSUME pass' = "Sqlite"
        PROVE  \E t \in Seq(Rows) : t \o batch' = RowList(line_no)' /\ HasTaken(t)'
    <3>1. CASE HasTaken(all)' /\ batch' = <<>>
      <4> WITNESS all \in Seq(Rows)
      <4> QED
        BY <1>5, <2>1, <2>3, <3>1
    <3>2. CASE HasTaken(taken)' /\ batch' = rows
      <4> WITNESS taken \in Seq(Rows)
      <4> QED
        BY <1>5, <2>3, <3>2 DEF Concat
    <3> QED
      BY <1>6, <2>4, <3>1, <3>2
  <2> QED
    BY <2>2, <2>4 DEF SqliteFollows
<1> QED
  BY <1>7, <1>8, <1>9, <1>10 DEF PassInv

\* The end of the generator.
LEMMA CloseSqliteKeeps ==
    ASSUME PassInv, CloseSqlite
    PROVE  PassInv'
<1>1. /\ pass = "Sqlite" /\ NextIsNone /\ Execute(batch, "Done")
      /\ UNCHANGED <<lines, line_no, batch, disk_vars, stats_vars>>
  BY DEF CloseSqlite
<1>2. LinesTaken
  BY DEF PassInv
<1>3. RowsOfTable = RowList(line_no)
  BY <1>1, <1>2, TakesNone
<1>4. /\ RowsOfTable' = RowsOfTable /\ RowList(line_no)' = RowList(line_no')
      /\ \A n : Good(n)' <=> Good(n)
  BY <1>1, RowsStay
<1>5. batch \in Seq(Rows)
  BY DEF PassInv, SqliteFollows
<1>6. PICK taken \in Seq(Rows), rows \in Seq(Rows), all \in {RowsOfTable} :
          /\ HasTaken(taken) /\ rows = batch
          /\ Concat(all, taken, rows) /\ all = RowsOfTable
  BY <1>1, <1>3, <1>5 DEF PassInv, SqliteFollows, Concat
<1>7. \/ pass' = "Done" /\ HasTaken(all)'
      \/ pass' = "Bailed"
  <2>1. Execute(rows, "Done")
    BY <1>1, <1>6 DEF Execute
  <2> QED
    BY <1>6, <2>1, Executes
<1>8. pass' = "Done" => HasTaken(RowsOfTable)'
  <2>1. HasTaken(RowsOfTable)' <=> HasTaken(all)'
    BY <1>4, <1>6 DEF HasTaken, SqlRows, SqlRow, HasQuote, IsSql
  <2> QED
    BY <1>7, <2>1
<1>9. LinesTaken'
  <2>1. lines' = lines /\ pass' \in Passes /\ line_no' = line_no
    BY <1>1, <1>7 DEF Passes
  <2> QED
    BY <1>2, <1>4, <2>1 DEF LinesTaken
<1>10. ASSUME RowsArePacked PROVE FileFollows'
  <2>1. file' = file /\ buf' = buf /\ pass' \in {"Done", "Bailed"}
    BY <1>1, <1>7 DEF disk_vars
  <2> QED
    BY <1>1, <1>4, <1>10, <2>1 DEF PassInv, FileFollows
<1>11. StatsFollow'
  <2>1. stats' = stats /\ pass' \in {"Done", "Bailed"}
    BY <1>1, <1>7 DEF stats_vars
  <2> QED
    BY <1>1, <1>4, <2>1 DEF PassInv, StatsFollow
<1>12. SqliteFollows'
  <2>1. batch' \in Seq(Rows) /\ pass' \in {"Done", "Bailed"}
    BY <1>1, <1>5, <1>7
  <2>2. RowsOfTable' = RowList(line_no)'
    BY <1>1, <1>3, <1>4
  <2> QED
    BY <1>8, <2>1, <2>2 DEF SqliteFollows
<1> QED
  BY <1>9, <1>10, <1>11, <1>12 DEF PassInv

\* Nothing else changes what the passes have done.
LEMMA OthersKeep ==
    ASSUME PassInv, Panic \/ UNCHANGED vars
    PROVE  PassInv'
<1>1. /\ UNCHANGED <<lines, line_no, file, buf, stats, batch, sqlite>>
      /\ pass' = pass \/ pass' = "Panicked"
  BY DEF Panic, vars, disk_vars, stats_vars, sqlite_vars
<1>2. /\ RowsOfTable' = RowsOfTable /\ RowList(line_no)' = RowList(line_no')
      /\ \A n : Good(n)' <=> Good(n)
  BY <1>1, RowsStay
<1>3. LinesTaken'
  BY <1>1, <1>2 DEF PassInv, LinesTaken, Passes
<1>4. ASSUME RowsArePacked PROVE FileFollows'
  BY <1>1, <1>2, <1>4 DEF PassInv, FileFollows
<1>5. StatsFollow'
  BY <1>1, <1>2 DEF PassInv, StatsFollow
<1>6. SqliteFollows'
  <2>1. /\ HasTaken(RowsOfTable)' <=> HasTaken(RowsOfTable)
        /\ \A rows : HasTaken(rows)' <=> HasTaken(rows)
    BY <1>1, TakenStays
  <2>2. /\ pass' = "Sqlite" => pass = "Sqlite"
        /\ pass' = "Done" => pass = "Done"
        /\ pass' \in {"Disk", "Stats"} => pass \in {"Disk", "Stats"}
    BY <1>1
  <2> QED
    BY <1>1, <1>2, <2>1, <2>2 DEF PassInv, SqliteFollows
<1> QED
  BY <1>3, <1>4, <1>5, <1>6 DEF PassInv

\* What the passes have in common is kept by every step.
LEMMA PassInvariance == Spec => []PassInv
<1>1. Init => PassInv
  BY PassInvInit
<1>2. PassInv /\ [Next]_vars => PassInv'
  <2> SUFFICES ASSUME PassInv, [Next]_vars PROVE PassInv'
    OBVIOUS
  <2>1. Panic \/ UNCHANGED vars \/ Stopped => PassInv'
    BY OthersKeep DEF Stopped
  <2> QED
    BY <2>1, SaveRowKeeps, CloseFileKeeps, UpdateStatsKeeps, BuildStatsKeeps,
       InsertRowKeeps, CloseSqliteKeeps, Zenon DEF Next
<1> QED
  BY <1>1, <1>2, PTL DEF Spec

\* An element of a line that is a row is a value of its column.
LEMMA ElementTyped ==
    ASSUME lines \in Tables, NEW n \in 1 .. Len(lines), Good(n), NEW c \in DOMAIN Columns
    PROVE  Columns[c] \in DataTypes /\ Elements(lines[n])[c] \in Data(Columns[c])
<1>1. PICK x : x = Elements(lines[n])[c]
  OBVIOUS
<1>2. x \in Texted /\ x.type = Columns[c]
  <2>1. /\ Elements(lines[n]) \in Seq(Texted) /\ c \in DOMAIN Elements(lines[n])
        /\ Elements(lines[n])[c].type = Columns[c]
    BY RowFacts
  <2> QED
    BY <1>1, <2>1, LenProperties, ElementOfSeq
<1>3. PICK type \in DataTypes : x \in Data(type)
  BY <1>2, EmptyTextFacts, GeneratorAssumption DEF Texted
<1>4. type = Columns[c]
  BY <1>2, <1>3, DataFacts
<1> QED
  BY <1>1, <1>3, <1>4

\* What is stored for a value that SQLite takes stands for the value.
LEMMA SqlStands ==
    ASSUME NEW type \in DataTypes, NEW x \in Data(type), Finite(x), ~HasNul(x)
    PROVE  StandsFor(SqlValue(x), x)
<1>1. /\ x.type = type /\ (type \in Numbers \/ type = "String")
      /\ type \in Numbers <=> Numeric(x)
  BY DataFacts
<1>2. CASE type = "String"
  <2>1. x.type \notin Floating /\ x.type # "Float32"
    BY <1>1, <1>2 DEF Floating
  <2>2. SqlValue(x) = x
    BY <2>1 DEF SqlValue
  <2> QED
    BY <1>1, <1>2, <2>2 DEF StandsFor
<1>3. ASSUME type \in Numbers
      PROVE  /\ ~IsNaN(x) /\ Exact(x) \in Int /\ x.type # "String"
             /\ \A z \in Data(type) : Finite(z) => Exact(z) \in Int
  <2>1. ASSUME NEW z \in Data(type), Finite(z) PROVE ~IsNaN(z) /\ Exact(z) \in Int
    <3>1. ~IsNaN(z)
      <4>1. CASE type \in Floating
        BY <2>1, <4>1, FloatFacts, HiddenType DEF Finite
      <4>2. CASE type \notin Floating
        BY <4>2, DataFacts DEF IsNaN
      <4> QED
        BY <4>1, <4>2
    <3> QED
      BY <1>3, <3>1, ExactType
  <2> QED
    BY <1>1, <1>3, <2>1 DEF Numeric
<1>4. ASSUME type \in Numbers, NEW y, Exact(y) = Exact(x)
      PROVE  RoundsTo(y, x)
  <2>1. PICK m \in Int : m = Exact(x) /\ m = Exact(y)
    BY <1>3, <1>4
  <2>2. ASSUME NEW z \in Data(x.type), Finite(z) PROVE Distance(y, x) <= Distance(y, z)
    <3>1. PICK n \in Int : n = Exact(z)
      BY <1>1, <1>3, <1>4, <2>2
    <3>2. Distance(y, x) = 0
      BY <2>1 DEF Distance
    <3>3. Distance(y, z) = IF m - n < 0 THEN 0 - (m - n) ELSE m - n
      BY <2>1, <3>1 DEF Distance
    <3> QED
      BY <3>2, <3>3
  <2> QED
    BY <2>2 DEF RoundsTo
<1>5. CASE type \in Floating /\ x.mag = 0
  <2>1. PICK y : y = [type |-> "Float64", neg |-> FALSE, mag |-> 0]
    OBVIOUS
  <2>2. SqlValue(x) = y
    BY <1>1, <1>5, <2>1 DEF SqlValue
  <2>3. "Float64" \in Floating
    BY DEF Floating
  <2>4. ASSUME NEW z, z.type \in Floating, z.mag = 0 PROVE Exact(z) = 0
    <3>1. Magnitude(z.type, 0) = 0 /\ Infinity(z.type) # 0 /\ z.type \notin Integral
      BY <2>4, MagnitudeStep, HiddenType DEF Integral, Floating
    <3> QED
      BY <2>4, <3>1 DEF Exact
  <2>5. Exact(y) = Exact(x) /\ type \in Numbers
    BY <1>1, <1>5, <2>1, <2>3, <2>4 DEF Numbers
  <2>6. Numeric(y) /\ Finite(y)
    BY <2>1, <2>3, HiddenType DEF Numeric, Finite
  <2> QED
    BY <1>1, <1>3, <1>4, <2>2, <2>5, <2>6 DEF StandsFor
<1>6. CASE type = "Float32" /\ x.mag # 0
  <2>1. SqlValue(x) = Reread[x]
    BY <1>1, <1>6 DEF SqlValue
  <2>2. Reread[x] \in Data("Float64") /\ Finite(Reread[x]) /\ RoundsTo(Reread[x], x)
    BY <1>6, SqlAssumption
  <2>3. Numeric(Reread[x]) /\ type \in Numbers
    BY <1>6, <2>2, FloatFacts DEF Floating, Numbers
  <2> QED
    BY <1>1, <1>3, <2>1, <2>2, <2>3 DEF StandsFor
<1>7. CASE /\ type \in Numbers /\ type # "Float32"
           /\ (type \in Floating => x.mag # 0)
  <2>1. SqlValue(x) = x
    BY <1>1, <1>7 DEF SqlValue
  <2> QED
    BY <1>1, <1>3, <1>4, <1>7, <2>1 DEF StandsFor
<1> QED
  BY <1>1, <1>2, <1>5, <1>6, <1>7 DEF Floating

\* The rows of a table with which the generator is done have values of the columns,
\* and SQLite has taken them all if none of their strings has a quote.
LEMMA DoneRows ==
    ASSUME PassInv, pass = "Done", Unquoted, NEW n \in DOMAIN RowsOfTable,
           NEW c \in DOMAIN Columns
    PROVE  /\ n \in 1 .. line_no /\ RowsOfTable[n].cols = Elements(lines[n])
           /\ c \in DOMAIN RowsOfTable[n].cols
           /\ Columns[c] \in DataTypes /\ RowsOfTable[n].cols[c] \in Data(Columns[c])
           /\ IsSql(RowsOfTable[n]) /\ sqlite = SqlRows(RowsOfTable)
<1>1. /\ lines \in Tables /\ line_no \in 0 .. Len(lines)
      /\ \A i \in 1 .. line_no : Good(i)
      /\ RowsOfTable = RowList(line_no) /\ HasTaken(RowsOfTable)
  BY DEF PassInv, LinesTaken, SqliteFollows
<1>2. n \in 1 .. line_no /\ RowsOfTable[n] = Row(n)
  BY <1>1 DEF RowList
<1>3. n \in 1 .. Len(lines) /\ Good(n)
  BY <1>1, <1>2, LineFacts
<1>4. RowsOfTable[n].cols = Elements(lines[n])
  BY <1>2 DEF Row
<1>5. /\ DOMAIN Elements(lines[n]) = DOMAIN Columns
      /\ Columns[c] \in DataTypes /\ Elements(lines[n])[c] \in Data(Columns[c])
  BY <1>1, <1>3, RowFacts, ElementTyped
<1>6. IsSql(RowsOfTable[n]) /\ sqlite = SqlRows(RowsOfTable)
  BY <1>1 DEF HasTaken, Unquoted
<1> QED
  BY <1>2, <1>4, <1>5, <1>6

\* When the generator is done, the statistics of every column count the rows of the
\* table.  If no string of these has a quote, SQLite has as many rows, and for every
\* value of them one that stands for it, a number that rounds to it or the same
\* string: for every way a decimal of a Float32 is read as a Float64.  And if each
\* fits a block, what is read from the blocks on the disk is these rows exactly.
THEOREM GeneratorOutputsAgree ==
    ASSUME RowsArePacked
    PROVE  Spec => []OutputsAgree
<1>1. ASSUME PassInv, pass = "Done", Unquoted
      PROVE  /\ Len(sqlite) = Len(RowsOfTable)
             /\ \A n \in DOMAIN RowsOfTable : \A c \in DOMAIN Columns :
                    StandsFor(sqlite[n][c], RowsOfTable[n].cols[c])
  <2>1. /\ RowsOfTable = RowList(line_no) /\ HasTaken(RowsOfTable) /\ line_no \in Nat
        /\ sqlite = SqlRows(RowsOfTable)
    BY <1>1, LineFacts DEF PassInv, SqliteFollows, LinesTaken, HasTaken, Unquoted
  <2>2. Len(sqlite) = line_no /\ Len(RowsOfTable) = line_no
    BY <2>1 DEF SqlRows, RowList
  <2>3. ASSUME NEW n \in DOMAIN RowsOfTable, NEW c \in DOMAIN Columns
        PROVE  StandsFor(sqlite[n][c], RowsOfTable[n].cols[c])
    <3>1. PICK x : x = RowsOfTable[n].cols[c]
      OBVIOUS
    <3>2. /\ c \in DOMAIN RowsOfTable[n].cols /\ IsSql(RowsOfTable[n])
          /\ Columns[c] \in DataTypes /\ x \in Data(Columns[c])
      BY <1>1, <3>1, DoneRows
    <3>3. sqlite[n][c] = SqlValue(x)
      BY <2>1, <3>1, <3>2 DEF SqlRows, SqlRow
    <3>4. Finite(x) /\ ~HasNul(x)
      BY <3>1, <3>2 DEF IsSql
    <3> QED
      BY <3>1, <3>2, <3>3, <3>4, SqlStands
  <2> QED
    BY <2>2, <2>3
<1>2. PassInv => OutputsAgree
  BY <1>1 DEF PassInv, FileFollows, StatsFollow, OutputsAgree
<1> QED
  BY <1>2, PassInvariance, PTL
-----------------------------------------------------------------------------
(* The order of the values of a column.                                      *)

\* The order of byte strings is transitive.
LEMMA BytesTransitive ==
    ASSUME NEW s \in Bytes, NEW t \in Bytes, NEW u \in Bytes, BytesLess(s, t), BytesLess(t, u)
    PROVE  BytesLess(s, u)
<1>1. /\ Len(s) \in Nat /\ \A i \in 1 .. Len(s) : s[i] \in Nat
      /\ Len(t) \in Nat /\ \A i \in 1 .. Len(t) : t[i] \in Nat
      /\ Len(u) \in Nat /\ \A i \in 1 .. Len(u) : u[i] \in Nat
  BY BytesType
<1>2. PICK i \in 1 .. Len(t) : /\ i <= Len(s) + 1
                               /\ \A j \in 1 .. i - 1 : s[j] = t[j]
                               /\ i <= Len(s) => s[i] < t[i]
  BY DEF BytesLess
<1>3. PICK k \in 1 .. Len(u) : /\ k <= Len(t) + 1
                               /\ \A j \in 1 .. k - 1 : t[j] = u[j]
                               /\ k <= Len(t) => t[k] < u[k]
  BY DEF BytesLess
<1>4. CASE i <= k
  <2>1. i \in 1 .. Len(u) /\ i \in Nat /\ 1 <= i
    BY <1>1, <1>4
  <2>2. \A j \in 1 .. i - 1 : j \in 1 .. k - 1
    BY <1>1, <1>4
  <2>3. \A j \in 1 .. i - 1 : s[j] = u[j]
    BY <1>2, <1>3, <2>2
  <2>4. ASSUME i <= Len(s) PROVE s[i] < u[i]
    <3>1. s[i] \in Nat /\ t[i] \in Nat /\ u[i] \in Nat /\ s[i] < t[i]
      <4>1. i \in 1 .. Len(s)
        BY <1>1, <2>1, <2>4
      <4> QED
        BY <1>1, <1>2, <2>1, <2>4, <4>1
    <3>2. CASE i = k
      BY <1>1, <1>3, <3>1, <3>2
    <3>3. CASE i # k
      <4>1. i \in 1 .. k - 1
        BY <1>1, <1>4, <3>3
      <4> QED
        BY <1>3, <3>1, <4>1
    <3> QED
      BY <3>2, <3>3
  <2> QED
    BY <1>2, <2>1, <2>3, <2>4 DEF BytesLess
<1>5. CASE k < i
  <2>1. k \in 1 .. i - 1 /\ \A j \in 1 .. k - 1 : j \in 1 .. i - 1
    BY <1>1, <1>5
  <2>2. \A j \in 1 .. k - 1 : s[j] = u[j]
    BY <1>2, <1>3, <2>1
  <2>3. s[k] = t[k] /\ k <= Len(t) /\ t[k] < u[k]
    BY <1>1, <1>2, <1>3, <1>5, <2>1
  <2>4. k <= Len(s) + 1
    BY <1>1, <1>2, <1>5
  <2> QED
    BY <2>2, <2>3, <2>4 DEF BytesLess
<1> QED
  BY <1>1, <1>4, <1>5

\* The values of a type that have an order.
Comparables(type) == {x \in Data(type) : ~IsNaN(x)}

NotGreater(x, y) == partial_cmp(x, y) # "Greater"

\* partial_cmp is a total preorder of them.
LEMMA CmpOrder ==
    ASSUME NEW type \in DataTypes, NEW x \in Comparables(type), NEW y \in Comparables(type)
    PROVE  /\ NotGreater(x, x)
           /\ NotGreater(x, y) \/ NotGreater(y, x)
           /\ partial_cmp(x, y) = "Less" <=> ~NotGreater(y, x)
           /\ partial_cmp(x, y) = "Greater" <=> ~NotGreater(x, y)
           /\ partial_cmp(x, y) = "Equal" <=> NotGreater(x, y) /\ NotGreater(y, x)
           /\ partial_cmp(x, y) # "None"
           /\ cmp(x, y) = partial_cmp(x, y)
<1>1. x \in Data(type) /\ y \in Data(type) /\ ~IsNaN(x) /\ ~IsNaN(y)
  BY DEF Comparables
<1>2. /\ partial_cmp(x, y) = "Less" <=> Less(x, y)
      /\ partial_cmp(x, y) = "Greater" <=> Less(y, x)
      /\ partial_cmp(x, y) = "Equal" <=> ~Less(x, y) /\ ~Less(y, x)
      /\ partial_cmp(y, x) = "Greater" <=> Less(x, y)
      /\ partial_cmp(x, y) # "None"
      /\ ~(Less(x, y) /\ Less(y, x))
  BY <1>1, PartialCmp, LessTotal
<1>3. partial_cmp(x, x) = "Greater" <=> Less(x, x)
  BY <1>1, PartialCmp
<1>4. ~Less(x, x)
  BY <1>1, LessTotal
<1> QED
  BY <1>2, <1>3, <1>4 DEF NotGreater, cmp

\* So is that of values that are not NaNs.
LEMMA CmpTransitive ==
    ASSUME NEW type \in DataTypes, NEW x \in Comparables(type), NEW y \in Comparables(type),
           NEW z \in Comparables(type), NotGreater(x, y), NotGreater(y, z)
    PROVE  NotGreater(x, z)
<1>1. /\ x \in Data(type) /\ y \in Data(type) /\ z \in Data(type)
      /\ ~IsNaN(x) /\ ~IsNaN(y) /\ ~IsNaN(z)
  BY DEF Comparables
<1>2. /\ NotGreater(x, y) <=> ~Less(y, x)
      /\ NotGreater(y, z) <=> ~Less(z, y)
      /\ NotGreater(x, z) <=> ~Less(z, x)
  BY <1>1, PartialCmp DEF NotGreater
<1>3. CASE type \in Numbers
  <2>1. /\ Less(y, x) <=> Exact(y) < Exact(x)
        /\ Less(z, y) <=> Exact(z) < Exact(y)
        /\ Less(z, x) <=> Exact(z) < Exact(x)
    BY <1>1, <1>3, LessTotal
  <2>2. Exact(x) \in Int /\ Exact(y) \in Int /\ Exact(z) \in Int
    BY <1>1, <1>3, ExactType
  <2> QED
    BY <1>2, <2>1, <2>2
<1>4. CASE type = "String"
  <2>1. x.bytes \in Bytes /\ y.bytes \in Bytes /\ z.bytes \in Bytes
    BY <1>1, <1>4, StringFacts
  <2>2. /\ Less(y, x) <=> BytesLess(y.bytes, x.bytes)
        /\ Less(z, y) <=> BytesLess(z.bytes, y.bytes)
        /\ Less(z, x) <=> BytesLess(z.bytes, x.bytes)
    BY <1>1, <1>4, LessTotal
  <2>3. ASSUME BytesLess(z.bytes, x.bytes) PROVE FALSE
    <3>1. x.bytes = y.bytes \/ BytesLess(x.bytes, y.bytes)
      BY <1>2, <2>1, <2>2, BytesTotal
    <3>2. CASE x.bytes = y.bytes
      BY <1>2, <2>2, <2>3, <3>2
    <3>3. CASE BytesLess(x.bytes, y.bytes)
      BY <1>2, <2>1, <2>2, <2>3, <3>3, BytesTransitive
    <3> QED
      BY <3>1, <3>2, <3>3
  <2> QED
    BY <1>2, <2>2, <2>3
<1> QED
  BY <1>1, <1>3, <1>4, DataFacts
-----------------------------------------------------------------------------
(* The set of the values of a column.                                        *)

\* The elements of a BTreeSet, each less than the next.
Ascending(set, type) ==
    /\ set \in Seq(Comparables(type))
    /\ \A i, j \in 1 .. Len(set) : i < j => ~NotGreater(set[j], set[i])

\* What comes before the insertion point, the element, and the rest.
LEMMA InsertAtFacts ==
    ASSUME NEW S, NEW s \in Seq(S), NEW x \in S, NEW n \in 1 .. Len(s)
    PROVE  /\ InsertAt(s, n, x) \in Seq(S)
           /\ Len(InsertAt(s, n, x)) = Len(s) + 1
           /\ \A i \in 1 .. Len(s) + 1 :
                  InsertAt(s, n, x)[i] = IF i < n THEN s[i] ELSE IF i = n THEN x ELSE s[i - 1]
<1>1. Len(s) \in Nat /\ \A i \in 1 .. Len(s) : s[i] \in S
  BY LenProperties, ElementOfSeq
<1>2. n \in Nat /\ 1 <= n /\ n <= Len(s)
  BY <1>1
<1>3. PICK u, v : u = SubSeq(s, 1, n - 1) /\ v = SubSeq(s, n, Len(s))
  OBVIOUS
<1>4. u \in Seq(S) /\ Len(u) = n - 1 /\ \A i \in 1 .. n - 1 : u[i] = s[i]
  <2>1. 1 \in Int /\ n - 1 \in Int /\ \A i \in 1 .. n - 1 : s[i] \in S
    BY <1>1, <1>2
  <2>2. /\ u \in Seq(S) /\ Len(u) = IF 1 <= n - 1 THEN (n - 1) - 1 + 1 ELSE 0
        /\ \A i \in 1 .. (n - 1) - 1 + 1 : u[i] = s[1 + i - 1]
    BY <1>3, <2>1, SubSeqProperties
  <2>3. (n - 1) - 1 + 1 = n - 1 /\ \A i \in 1 .. n - 1 : 1 + i - 1 = i
    BY <1>2
  <2> QED
    BY <1>2, <2>2, <2>3
<1>5. v \in Seq(S) /\ Len(v) = Len(s) - n + 1
      /\ \A i \in 1 .. Len(s) - n + 1 : v[i] = s[n + i - 1]
  <2>1. n \in Int /\ Len(s) \in Int /\ \A i \in n .. Len(s) : s[i] \in S
    BY <1>1, <1>2
  <2>2. /\ v \in Seq(S) /\ Len(v) = IF n <= Len(s) THEN Len(s) - n + 1 ELSE 0
        /\ \A i \in 1 .. Len(s) - n + 1 : v[i] = s[n + i - 1]
    BY <1>3, <2>1, SubSeqProperties
  <2> QED
    BY <1>2, <2>2
<1>6. <<x>> \in Seq(S) /\ Len(<<x>>) = 1 /\ <<x>>[1] = x
  OBVIOUS
<1>7. PICK w : w = u \o <<x>>
  OBVIOUS
<1>8. w \in Seq(S) /\ Len(w) = n /\ (\A i \in 1 .. n - 1 : w[i] = s[i]) /\ w[n] = x
  <2>1. /\ w \in Seq(S) /\ Len(w) = (n - 1) + 1
        /\ \A i \in 1 .. (n - 1) + 1 : w[i] = IF i <= n - 1 THEN u[i] ELSE <<x>>[i - (n - 1)]
    BY <1>4, <1>6, <1>7, ConcatProperties
  <2>2. (n - 1) + 1 = n /\ n \in 1 .. n /\ ~(n <= n - 1) /\ n - (n - 1) = 1
    BY <1>2
  <2>3. \A i \in 1 .. n - 1 : i \in 1 .. n /\ i <= n - 1
    BY <1>2
  <2> QED
    BY <1>4, <1>6, <2>1, <2>2, <2>3
<1>9. PICK t : t = w \o v
  OBVIOUS
<1>10. /\ t \in Seq(S) /\ Len(t) = n + (Len(s) - n + 1)
       /\ \A i \in 1 .. n + (Len(s) - n + 1) : t[i] = IF i <= n THEN w[i] ELSE v[i - n]
  <2>1. w \in Seq(S) /\ v \in Seq(S)
    BY <1>5, <1>8
  <2>2. /\ w \o v \in Seq(S) /\ Len(w \o v) = Len(w) + Len(v)
        /\ \A i \in 1 .. Len(w) + Len(v) :
               (w \o v)[i] = IF i <= Len(w) THEN w[i] ELSE v[i - Len(w)]
    BY <2>1, ConcatProperties
  <2>3. Len(w) = n /\ Len(v) = Len(s) - n + 1
    BY <1>5, <1>8
  <2> QED
    BY <1>9, <2>2, <2>3, Zenon
<1>11. n + (Len(s) - n + 1) = Len(s) + 1
  BY <1>1, <1>2
<1>12. ASSUME NEW i \in 1 .. Len(s) + 1
       PROVE  t[i] = IF i < n THEN s[i] ELSE IF i = n THEN x ELSE s[i - 1]
  <2>1. t[i] = IF i <= n THEN w[i] ELSE v[i - n]
    BY <1>10, <1>11
  <2>2. CASE i < n
    <3>1. i \in 1 .. n - 1
      BY <1>1, <1>2, <2>2
    <3> QED
      BY <1>2, <1>8, <2>1, <2>2, <3>1
  <2>3. CASE i = n
    BY <1>2, <1>8, <2>1, <2>3
  <2>4. CASE i > n
    <3>1. i - n \in 1 .. Len(s) - n + 1 /\ n + (i - n) - 1 = i - 1
      BY <1>1, <1>2, <2>4
    <3> QED
      BY <1>2, <1>5, <2>1, <2>4, <3>1
  <2> QED
    BY <1>1, <1>2, <2>2, <2>3, <2>4
<1>13. InsertAt(s, n, x) = t
  BY <1>3, <1>7, <1>9 DEF InsertAt
<1> QED
  BY <1>10, <1>11, <1>12, <1>13

\* insert keeps the order, and adds the element or has one that is equal.
LEMMA InsertFacts ==
    ASSUME NEW type \in DataTypes, NEW set, Ascending(set, type), NEW x \in Comparables(type)
    PROVE  /\ Ascending(insert(set, x), type)
           /\ Len(insert(set, x)) \in {Len(set), Len(set) + 1}
           /\ ToSet(insert(set, x)) = ToSet(set) \/ ToSet(insert(set, x)) = ToSet(set) \cup {x}
           /\ \E y \in ToSet(insert(set, x)) : NotGreater(x, y) /\ NotGreater(y, x)
<1> DEFINE stops == {i \in DOMAIN set : cmp(x, set[i]) # "Greater"}
<1>1. PICK n \in Nat : n = Len(set) /\ DOMAIN set = 1 .. n
  BY LenProperties DEF Ascending
<1>2. /\ set \in Seq(Comparables(type))
      /\ \A i \in 1 .. n : set[i] \in Comparables(type)
      /\ \A i, j \in 1 .. n : i < j => ~NotGreater(set[j], set[i])
  BY <1>1, ElementOfSeq DEF Ascending
<1>3. \A i \in 1 .. n : i \in stops <=> NotGreater(x, set[i])
  BY <1>1, <1>2, CmpOrder DEF NotGreater
<1>4. stops \subseteq 1 .. n
  BY <1>1
<1>5. insert(set, x) = IF stops = {} THEN Append(set, x)
                       ELSE IF cmp(x, set[Min(stops)]) = "Equal" THEN set
                       ELSE InsertAt(set, Min(stops), x)
  BY Zenon DEF insert
<1> HIDE DEF stops
<1>6. ToSet(set) = {set[i] : i \in 1 .. n}
  BY <1>1, Zenon DEF ToSet
<1>7. NotGreater(x, x)
  BY CmpOrder
<1>8. CASE stops = {}
  <2>1. PICK t : t = Append(set, x)
    OBVIOUS
  <2>2. /\ t \in Seq(Comparables(type)) /\ Len(t) = n + 1
        /\ \A i \in 1 .. n : t[i] = set[i]
        /\ t[n + 1] = x
    BY <1>1, <1>2, <2>1, AppendProperties
  <2>3. \A i, j \in 1 .. n + 1 : i < j => ~NotGreater(t[j], t[i])
    <3> SUFFICES ASSUME NEW i \in 1 .. n + 1, NEW j \in 1 .. n + 1, i < j
                 PROVE  ~NotGreater(t[j], t[i])
      OBVIOUS
    <3>1. i \in 1 .. n /\ (j \in 1 .. n \/ j = n + 1)
      OBVIOUS
    <3>2. ~NotGreater(x, set[i])
      BY <1>3, <1>8, <3>1
    <3> QED
      BY <1>2, <2>2, <3>1, <3>2
  <2>4. DOMAIN t = 1 .. n + 1
    BY <2>2, LenProperties
  <2>5. ToSet(t) = ToSet(set) \cup {x}
    <3>1. ToSet(t) = {t[i] : i \in 1 .. n + 1}
      BY <2>4, Zenon DEF ToSet
    <3>2. \A i \in 1 .. n + 1 : i \in 1 .. n \/ i = n + 1
      OBVIOUS
    <3>3. n + 1 \in 1 .. n + 1 /\ \A i \in 1 .. n : i \in 1 .. n + 1
      OBVIOUS
    <3> QED
      BY <1>6, <2>2, <3>1, <3>2, <3>3
  <2>6. insert(set, x) = t
    BY <1>5, <1>8, <2>1
  <2> QED
    BY <1>1, <1>7, <2>2, <2>3, <2>5, <2>6 DEF Ascending
<1>9. CASE stops # {}
  <2>1. PICK k \in stops : \A i \in stops : k <= i
    <3>1. stops \subseteq Nat
      BY <1>4
    <3> QED
      BY <1>9, <3>1, LeastNumber
  <2>2. Min(stops) \in stops /\ \A i \in stops : Min(stops) <= i
    BY <2>1, Zenon DEF Min
  <2>3. Min(stops) = k /\ k \in 1 .. n
    <3>1. \A i \in stops : i \in 1 .. n
      BY <1>4
    <3>2. PICK m \in stops : m = Min(stops)
      BY <2>2
    <3>3. m \in 1 .. n /\ k \in 1 .. n
      BY <2>1, <3>1, <3>2
    <3>4. m <= k /\ k <= m
      BY <2>1, <2>2, <3>2
    <3>5. m = k
      BY <1>1, <3>3, <3>4
    <3> QED
      BY <3>2, <3>3, <3>5
  <2>4. NotGreater(x, set[k]) /\ \A i \in 1 .. n : i < k => ~NotGreater(x, set[i])
    BY <1>3, <1>4, <2>1, <2>3
  <2>5. CASE cmp(x, set[k]) = "Equal"
    <3>1. insert(set, x) = set
      BY <1>5, <1>9, <2>3, <2>5
    <3>2. NotGreater(set[k], x)
      BY <1>2, <2>3, <2>5, CmpOrder
    <3>3. set[k] \in ToSet(set)
      BY <1>6, <2>3
    <3> QED
      BY <1>1, <2>4, <3>1, <3>2, <3>3
  <2>6. CASE cmp(x, set[k]) # "Equal"
    <3>1. PICK t : t = InsertAt(set, k, x)
      OBVIOUS
    <3>2. /\ t \in Seq(Comparables(type)) /\ Len(t) = n + 1
          /\ \A i \in 1 .. n + 1 :
                 t[i] = IF i < k THEN set[i] ELSE IF i = k THEN x ELSE set[i - 1]
      <4>1. set \in Seq(Comparables(type)) /\ x \in Comparables(type) /\ k \in 1 .. Len(set)
        BY <1>1, <1>2, <2>3
      <4> QED
        BY <1>1, <3>1, <4>1, InsertAtFacts
    <3>3. ~NotGreater(set[k], x)
      BY <1>2, <2>3, <2>4, <2>6, CmpOrder
    <3>4. ASSUME NEW i \in 1 .. n, k <= i PROVE ~NotGreater(set[i], x)
      <4>1. CASE i = k
        BY <3>3, <4>1
      <4>2. CASE i # k
        <5>1. ~NotGreater(set[i], set[k])
          BY <1>2, <2>3, <3>4, <4>2
        <5>2. ASSUME NotGreater(set[i], x) PROVE FALSE
          BY <1>2, <2>3, <2>4, <5>1, <5>2, CmpTransitive
        <5> QED
          BY <5>2
      <4> QED
        BY <4>1, <4>2
    <3>5. ASSUME NEW i \in 1 .. n + 1, NEW j \in 1 .. n + 1, i < j
          PROVE  ~NotGreater(t[j], t[i])
      <4>1. /\ t[i] = IF i < k THEN set[i] ELSE IF i = k THEN x ELSE set[i - 1]
            /\ t[j] = IF j < k THEN set[j] ELSE IF j = k THEN x ELSE set[j - 1]
        BY <3>2
      <4>2. CASE j < k
        <5>1. i < k /\ i \in 1 .. n /\ j \in 1 .. n
          BY <2>3, <3>5, <4>2
        <5> QED
          BY <1>2, <3>5, <4>1, <4>2, <5>1
      <4>3. CASE j = k
        <5>1. i < k /\ i \in 1 .. n
          BY <2>3, <3>5, <4>3
        <5> QED
          BY <2>4, <4>1, <4>3, <5>1
      <4>4. CASE j > k /\ i < k
        <5>1. i \in 1 .. n /\ j - 1 \in 1 .. n /\ i < j - 1 /\ ~(j < k) /\ j # k
          BY <2>3, <3>5, <4>4
        <5> QED
          BY <1>2, <4>1, <4>4, <5>1
      <4>5. CASE j > k /\ i = k
        <5>1. j - 1 \in 1 .. n /\ k <= j - 1 /\ ~(j < k) /\ j # k /\ ~(i < k)
          BY <2>3, <3>5, <4>5
        <5> QED
          BY <3>4, <4>1, <4>5, <5>1
      <4>6. CASE i > k
        <5>1. /\ i - 1 \in 1 .. n /\ j - 1 \in 1 .. n /\ i - 1 < j - 1
              /\ ~(j < k) /\ j # k /\ ~(i < k) /\ i # k
          BY <2>3, <3>5, <4>6
        <5> QED
          BY <1>2, <4>1, <5>1
      <4> QED
        BY <2>3, <4>2, <4>3, <4>4, <4>5, <4>6
    <3>6. DOMAIN t = 1 .. n + 1
      BY <3>2, LenProperties
    <3>7. ToSet(t) = ToSet(set) \cup {x}
      <4>1. ToSet(t) = {t[i] : i \in 1 .. n + 1}
        BY <3>6, Zenon DEF ToSet
      <4>2. ASSUME NEW i \in 1 .. n + 1 PROVE t[i] \in ToSet(set) \cup {x}
        <5>1. CASE i < k
          <6>1. i \in 1 .. n
            BY <2>3, <5>1
          <6> QED
            BY <1>6, <3>2, <5>1, <6>1
        <5>2. CASE i = k
          BY <2>3, <3>2, <5>2
        <5>3. CASE i > k
          <6>1. i - 1 \in 1 .. n /\ ~(i < k) /\ i # k
            BY <2>3, <5>3
          <6> QED
            BY <1>6, <3>2, <6>1
        <5> QED
          BY <2>3, <5>1, <5>2, <5>3
      <4>3. ASSUME NEW i \in 1 .. n PROVE set[i] \in ToSet(t)
        <5>1. CASE i < k
          <6>1. i \in 1 .. n + 1 /\ t[i] = set[i]
            BY <3>2, <5>1
          <6> QED
            BY <4>1, <6>1
        <5>2. CASE i >= k
          <6>1. i + 1 \in 1 .. n + 1 /\ ~(i + 1 < k) /\ i + 1 # k /\ (i + 1) - 1 = i
            BY <2>3, <5>2
          <6>2. t[i + 1] = set[i]
            BY <3>2, <6>1
          <6> QED
            BY <4>1, <6>1, <6>2
        <5> QED
          BY <2>3, <5>1, <5>2
      <4>4. x \in ToSet(t)
        <5>1. k \in 1 .. n + 1 /\ ~(k < k)
          BY <2>3
        <5>2. t[k] = x
          BY <3>2, <5>1
        <5> QED
          BY <4>1, <5>1, <5>2
      <4> QED
        BY <1>6, <4>1, <4>2, <4>3, <4>4
    <3>8. insert(set, x) = t
      BY <1>5, <1>9, <2>3, <2>6, <3>1
    <3> QED
      BY <1>1, <1>7, <3>2, <3>5, <3>7, <3>8 DEF Ascending
  <2> QED
    BY <2>5, <2>6
<1> QED
  BY <1>8, <1>9
-----------------------------------------------------------------------------
(* The distinct values of a column.                                          *)

NoMinusZero(column) == \A i \in DOMAIN column : ~MinusZero(column[i])

\* Of an ascending set as many keys are different as there are elements.
LEMMA KeysAreCounted ==
    ASSUME NEW type \in DataTypes, NEW set, Ascending(set, type), NoMinusZero(set)
    PROVE  /\ IsFiniteSet({hash(x) : x \in ToSet(set)})
           /\ Cardinality({hash(x) : x \in ToSet(set)}) = Len(set)
<1>1. PICK n \in Nat : n = Len(set) /\ DOMAIN set = 1 .. n
  BY LenProperties DEF Ascending
<1>2. /\ \A i \in 1 .. n : set[i] \in Comparables(type) /\ ~MinusZero(set[i])
      /\ \A i, j \in 1 .. n : i < j => ~NotGreater(set[j], set[i])
  BY <1>1, ElementOfSeq DEF Ascending, NoMinusZero
<1>3. PICK keys : keys = {hash(x) : x \in ToSet(set)}
  OBVIOUS
<1>4. keys = {hash(set[i]) : i \in 1 .. n}
  <2>1. ToSet(set) = {set[i] : i \in 1 .. n}
    BY <1>1, Zenon DEF ToSet
  <2> QED
    BY <1>3, <2>1
<1>5. ASSUME NEW i \in 1 .. n, NEW j \in 1 .. n, i < j PROVE hash(set[i]) # hash(set[j])
  <2>1. ~NotGreater(set[j], set[i])
    BY <1>2, <1>5
  <2>2. /\ set[i] \in Data(type) /\ ~IsNaN(set[i]) /\ ~MinusZero(set[i])
        /\ set[j] \in Data(type) /\ ~IsNaN(set[j]) /\ ~MinusZero(set[j])
    BY <1>2 DEF Comparables
  <2>3. partial_cmp(set[j], set[i]) = "Greater"
    BY <2>1 DEF NotGreater
  <2>4. Less(set[i], set[j])
    BY <2>2, <2>3, PartialCmp
  <2>5. DataKey(set[i]) # DataKey(set[j])
    BY <2>2, <2>4, KeyIsValue
  <2> QED
    BY <2>5 DEF hash
<1>6. PICK f : f = [i \in 1 .. n |-> hash(set[i])]
  OBVIOUS
<1>7. f \in [1 .. n -> keys] /\ \A i \in 1 .. n : f[i] = hash(set[i])
  BY <1>4, <1>6
<1>8. \A i, j \in 1 .. n : f[i] = f[j] => i = j
  <2> SUFFICES ASSUME NEW i \in 1 .. n, NEW j \in 1 .. n, i # j PROVE f[i] # f[j]
    OBVIOUS
  <2>1. i < j \/ j < i
    OBVIOUS
  <2> QED
    BY <1>5, <1>7, <2>1
<1>9. \A k \in keys : \E i \in 1 .. n : f[i] = k
  BY <1>4, <1>7
<1>10. ExistsBijection(1 .. n, keys)
  BY <1>7, <1>8, <1>9 DEF ExistsBijection, Bijection, Injection, Surjection, IsInjective
<1>11. IsFiniteSet(keys) /\ Cardinality(keys) = n
  BY <1>10, FS_NatBijection, FS_CountingElements
<1> QED
  BY <1>1, <1>3, <1>11

\* The keys of the set follow the insertions.
LEMMA InsertKeys ==
    ASSUME NEW type \in DataTypes, NEW set, Ascending(set, type), NoMinusZero(set),
           NEW x \in Comparables(type), ~MinusZero(x)
    PROVE  /\ NoMinusZero(insert(set, x))
           /\ {hash(y) : y \in ToSet(insert(set, x))} = {hash(y) : y \in ToSet(set)} \cup {hash(x)}
<1>1. PICK t : t = insert(set, x)
  OBVIOUS
<1>2. /\ Ascending(t, type)
      /\ ToSet(t) = ToSet(set) \/ ToSet(t) = ToSet(set) \cup {x}
      /\ \E y \in ToSet(t) : NotGreater(x, y) /\ NotGreater(y, x)
  BY <1>1, InsertFacts
<1>3. ToSet(t) = {t[i] : i \in DOMAIN t} /\ ToSet(set) = {set[i] : i \in DOMAIN set}
  BY Zenon DEF ToSet
<1>4. \A y \in ToSet(set) : ~MinusZero(y)
  BY <1>3 DEF NoMinusZero
<1>5. \A y \in ToSet(t) : ~MinusZero(y)
  BY <1>2, <1>4
<1>6. NoMinusZero(t)
  BY <1>3, <1>5 DEF NoMinusZero
<1>7. PICK y \in ToSet(t) : NotGreater(x, y) /\ NotGreater(y, x)
  BY <1>2
<1>8. y \in Comparables(type) /\ ~MinusZero(y)
  <2>1. PICK i \in DOMAIN t : y = t[i]
    BY <1>3
  <2>2. t \in Seq(Comparables(type)) /\ DOMAIN t = 1 .. Len(t)
    BY <1>2, LenProperties DEF Ascending
  <2> QED
    BY <1>5, <2>1, <2>2, ElementOfSeq
<1>9. hash(x) = hash(y)
  <2>1. /\ x \in Data(type) /\ ~IsNaN(x) /\ ~MinusZero(x)
        /\ y \in Data(type) /\ ~IsNaN(y) /\ ~MinusZero(y)
    BY <1>8 DEF Comparables
  <2>2. ~Less(x, y) /\ ~Less(y, x)
    BY <1>7, <2>1, PartialCmp DEF NotGreater
  <2>3. DataKey(x) = DataKey(y)
    BY <2>1, <2>2, KeyIsValue
  <2> QED
    BY <2>3 DEF hash
<1>10. {hash(z) : z \in ToSet(t)} = {hash(z) : z \in ToSet(set)} \cup {hash(x)}
  <2>1. PICK k : k = hash(x)
    OBVIOUS
  <2>2. CASE ToSet(t) = ToSet(set)
    <3>1. k \in {hash(z) : z \in ToSet(set)}
      BY <1>7, <1>9, <2>1, <2>2
    <3> QED
      BY <2>1, <2>2, <3>1
  <2>3. CASE ToSet(t) = ToSet(set) \cup {x}
    BY <2>3
  <2> QED
    BY <1>2, <2>2, <2>3
<1> QED
  BY <1>1, <1>6, <1>10

\* What is known of the distinct values: an exact set that is within its limit, or
\* a sketch of more values than that.
KnowsDistinct(exact, approx, column, type) ==
    \/ \E set : /\ exact = <<set>> /\ Ascending(set, type) /\ NoMinusZero(set)
                /\ {hash(x) : x \in ToSet(set)} = DistinctOf(column)
                /\ Len(set) <= exact_limit
    \/ /\ exact = <<>> /\ approx = <<DistinctOf(column)>>
       /\ IsFiniteSet(DistinctOf(column)) /\ Cardinality(DistinctOf(column)) > exact_limit

\* One value more.
Longer(more, column, x) ==
    /\ Len(more) = Len(column) + 1
    /\ \A i \in 1 .. Len(column) : more[i] = column[i]
    /\ more[Len(column) + 1] = x

\* The values of a column that has one more.
LEMMA LongerFacts ==
    ASSUME NEW S, NEW column \in Seq(S), NEW more \in Seq(S), NEW x, Longer(more, column, x)
    PROVE  /\ Len(column) \in Nat /\ DOMAIN column = 1 .. Len(column)
           /\ DOMAIN more = 1 .. Len(column) + 1 /\ x \in S
           /\ DistinctOf(more) = DistinctOf(column) \cup {hash(x)}
           /\ ToSet(more) = ToSet(column) \cup {x}
           /\ NoMinusZero(more) => NoMinusZero(column) /\ ~MinusZero(x)
<1>1. PICK n \in Nat : n = Len(column)
  BY LenProperties
<1>2. /\ DOMAIN column = 1 .. n /\ DOMAIN more = 1 .. n + 1
      /\ \A i \in 1 .. n : more[i] = column[i]
      /\ more[n + 1] = x
  BY <1>1, LenProperties DEF Longer
<1>3. /\ \A i \in 1 .. n : i \in 1 .. n + 1
      /\ \A i \in 1 .. n + 1 : i \in 1 .. n \/ i = n + 1
      /\ n + 1 \in 1 .. n + 1
  OBVIOUS
<1>4. x \in S
  BY <1>2, <1>3, LenProperties, ElementOfSeq
<1>5. DistinctOf(more) = DistinctOf(column) \cup {hash(x)}
  BY <1>2, <1>3 DEF DistinctOf
<1>6. ToSet(more) = ToSet(column) \cup {x}
  <2>1. ToSet(more) = {more[i] : i \in 1 .. n + 1} /\ ToSet(column) = {column[i] : i \in 1 .. n}
    BY <1>2, Zenon DEF ToSet
  <2> QED
    BY <1>2, <1>3, <2>1
<1>7. NoMinusZero(more) => NoMinusZero(column) /\ ~MinusZero(x)
  BY <1>2, <1>3 DEF NoMinusZero
<1> QED
  BY <1>1, <1>2, <1>4, <1>5, <1>6, <1>7

\* What Distinct makes of the set or the sketch.
LEMMA DistinctFields ==
    ASSUME NEW s, IsStats(s), NEW x
    PROVE  /\ s.exact_distinct = <<>> =>
                  /\ Distinct(s, x).exact_distinct = <<>>
                  /\ Distinct(s, x).approx_distinct = <<add(s.approx_distinct[1], x)>>
           /\ \A set : s.exact_distinct = <<set>> =>
                  IF Len(insert(set, x)) > exact_limit
                  THEN /\ Distinct(s, x).exact_distinct = <<>>
                       /\ Distinct(s, x).approx_distinct = <<Sketch(insert(set, x), x)>>
                  ELSE Distinct(s, x).exact_distinct = <<insert(set, x)>>
<1>1. PICK s1, s2, s3, s4, s5, s6, s7, s8 :
          s = [is_physically_ordered |-> s1, total_count |-> s2, last_element |-> s3,
               lower_bound |-> s4, upper_bound |-> s5, reservoir |-> s6,
               exact_distinct |-> s7, approx_distinct |-> s8]
  BY DEF IsStats
<1>2. CASE s.exact_distinct = <<>>
  <2>1. PICK a1 : a1 = add(s.approx_distinct[1], x)
    OBVIOUS
  <2>2. PICK d : d = Distinct(s, x)
    OBVIOUS
  <2>3. d = [s EXCEPT !.approx_distinct = <<a1>>]
    BY <1>2, <2>1, <2>2 DEF Distinct
  <2>4. d.exact_distinct = <<>> /\ d.approx_distinct = <<a1>>
    BY <1>1, <1>2, <2>3
  <2>5. \A set : <<>> # <<set>>
    OBVIOUS
  <2> QED
    BY <1>2, <2>1, <2>2, <2>4, <2>5
<1>3. ASSUME NEW set, s.exact_distinct = <<set>>
      PROVE  IF Len(insert(set, x)) > exact_limit
             THEN /\ Distinct(s, x).exact_distinct = <<>>
                  /\ Distinct(s, x).approx_distinct = <<Sketch(insert(set, x), x)>>
             ELSE Distinct(s, x).exact_distinct = <<insert(set, x)>>
  <2>1. PICK t : t = insert(set, x)
    OBVIOUS
  <2>2. PICK k : k = Sketch(t, x)
    OBVIOUS
  <2>3. PICK d : d = Distinct(s, x)
    OBVIOUS
  <2>4. s.exact_distinct # <<>> /\ s.exact_distinct[1] = set
    BY <1>3
  <2>5. d = IF Len(t) > exact_limit
            THEN [s EXCEPT !.exact_distinct = <<>>, !.approx_distinct = <<k>>]
            ELSE [s EXCEPT !.exact_distinct = <<t>>]
    BY <2>1, <2>2, <2>3, <2>4 DEF Distinct
  <2>6. IF Len(t) > exact_limit THEN d.exact_distinct = <<>> /\ d.approx_distinct = <<k>>
        ELSE d.exact_distinct = <<t>>
    BY <1>1, <2>5
  <2> QED
    BY <2>1, <2>2, <2>3, <2>6
<1>4. (s.exact_distinct = <<>>) => \A set : s.exact_distinct # <<set>>
  OBVIOUS
<1> QED
  BY <1>2, <1>3, Zenon

\* The distinct values are known when there is one value more.
LEMMA DistinctFollows ==
    ASSUME NEW type \in DataTypes, NEW s, IsStats(s),
           NEW column \in Seq(Comparables(type)), NEW more \in Seq(Comparables(type)),
           NEW x, Longer(more, column, x), NoMinusZero(more),
           KnowsDistinct(s.exact_distinct, s.approx_distinct, column, type)
    PROVE  KnowsDistinct(Distinct(s, x).exact_distinct, Distinct(s, x).approx_distinct,
                         more, type)
<1>1. /\ x \in Comparables(type) /\ ~MinusZero(x)
      /\ DistinctOf(more) = DistinctOf(column) \cup {hash(x)}
  BY LongerFacts
<1>2. PICK exact, approx : exact = Distinct(s, x).exact_distinct
                           /\ approx = Distinct(s, x).approx_distinct
  OBVIOUS
<1>3. exact_limit \in Nat
  BY StatsConfigAssumption
<1>4. ASSUME NEW set, s.exact_distinct = <<set>>, Ascending(set, type), NoMinusZero(set),
             {hash(y) : y \in ToSet(set)} = DistinctOf(column)
      PROVE  KnowsDistinct(exact, approx, more, type)
  <2>1. PICK t : t = insert(set, x)
    OBVIOUS
  <2>2. Ascending(t, type) /\ NoMinusZero(t)
    BY <1>1, <1>4, <2>1, InsertFacts, InsertKeys
  <2>3. {hash(y) : y \in ToSet(t)} = DistinctOf(more)
    BY <1>1, <1>4, <2>1, InsertKeys
  <2>4. IsFiniteSet(DistinctOf(more)) /\ Cardinality(DistinctOf(more)) = Len(t) /\ Len(t) \in Nat
    BY <2>2, <2>3, KeysAreCounted, LenProperties DEF Ascending
  <2>5. CASE Len(t) > exact_limit
    <3>1. exact = <<>> /\ approx = <<Sketch(t, x)>>
      BY <1>2, <1>4, <2>1, <2>5, DistinctFields
    <3>2. Sketch(t, x) = DistinctOf(more)
      BY <2>3 DEF Sketch
    <3> QED
      BY <2>4, <2>5, <3>1, <3>2 DEF KnowsDistinct
  <2>6. CASE ~(Len(t) > exact_limit)
    <3>1. exact = <<t>>
      BY <1>2, <1>4, <2>1, <2>6, DistinctFields
    <3>2. Len(t) <= exact_limit
      BY <1>3, <2>4, <2>6
    <3> QED
      BY <2>2, <2>3, <3>1, <3>2 DEF KnowsDistinct
  <2> QED
    BY <2>5, <2>6
<1>5. ASSUME s.exact_distinct = <<>>, s.approx_distinct = <<DistinctOf(column)>>,
             IsFiniteSet(DistinctOf(column)), Cardinality(DistinctOf(column)) > exact_limit
      PROVE  KnowsDistinct(exact, approx, more, type)
  <2>1. exact = <<>> /\ approx = <<add(s.approx_distinct[1], x)>>
    BY <1>2, <1>5, DistinctFields
  <2>2. s.approx_distinct[1] = DistinctOf(column)
    BY <1>5
  <2>3. approx = <<DistinctOf(more)>>
    BY <1>1, <2>1, <2>2 DEF add
  <2>4. /\ IsFiniteSet(DistinctOf(more))
        /\ Cardinality(DistinctOf(more)) \in {Cardinality(DistinctOf(column)),
                                              Cardinality(DistinctOf(column)) + 1}
        /\ Cardinality(DistinctOf(column)) \in Nat
    BY <1>1, <1>5, FS_AddElement, FS_CardinalityType
  <2>5. Cardinality(DistinctOf(more)) > exact_limit
    BY <1>3, <1>5, <2>4
  <2> QED
    BY <2>1, <2>3, <2>4, <2>5 DEF KnowsDistinct
<1> QED
  BY <1>2, <1>4, <1>5 DEF KnowsDistinct
-----------------------------------------------------------------------------
(* What is known of a column.                                                *)

Some(x) == <<x>>

\* The smallest value and the largest.
Bounds(low, up, S) ==
    /\ low \in S /\ up \in S
    /\ \A x \in S : NotGreater(low, x) /\ NotGreater(x, up)

\* The bounds are such values, and whether the column is in order is known.
Knows(s, column, type) ==
    /\ IsStats(s) /\ s.total_count = Len(column)
    /\ column = <<>> => s.lower_bound = <<>> /\ s.upper_bound = <<>> /\ s.last_element = <<>>
    /\ column # <<>> =>
           /\ \E low, up : /\ Bounds(low, up, ToSet(column))
                           /\ s.lower_bound = Some(low) /\ s.upper_bound = Some(up)
           /\ s.last_element = <<column[Len(column)]>>
    /\ s.is_physically_ordered <=> NonDecreasing(column)
    /\ NoMinusZero(column) =>
           KnowsDistinct(s.exact_distinct, s.approx_distinct, column, type)

\* Before the first value.
LEMMA KnowsNothing ==
    ASSUME NEW type \in DataTypes, NEW column, column = <<>>
    PROVE  Knows(StatsGenerator, column, type)
<1>1. PICK s : s = StatsGenerator
  OBVIOUS
<1>2. /\ IsStats(s) /\ s.total_count = 0 /\ s.lower_bound = <<>> /\ s.upper_bound = <<>>
      /\ s.last_element = <<>> /\ s.is_physically_ordered /\ s.exact_distinct = <<<<>>>>
  BY <1>1 DEF StatsGenerator, IsStats
<1>3. Len(column) = 0 /\ DOMAIN column = {} /\ DOMAIN <<>> = {} /\ Len(<<>>) = 0
  OBVIOUS
<1>4. NonDecreasing(column)
  BY <1>3 DEF NonDecreasing
<1>5. PICK none : none = <<>>
  OBVIOUS
<1>6. Ascending(none, type) /\ NoMinusZero(none) /\ Len(none) <= exact_limit
  <2>1. none \in Seq(Comparables(type)) /\ Len(none) = 0
    BY <1>5
  <2>2. \A i, j \in 1 .. Len(none) : i < j => ~NotGreater(none[j], none[i])
    BY <2>1
  <2>3. exact_limit \in Nat
    BY StatsConfigAssumption
  <2>4. NoMinusZero(none)
    BY <1>3, <1>5 DEF NoMinusZero
  <2> QED
    BY <2>1, <2>2, <2>3, <2>4 DEF Ascending
<1>7. {hash(x) : x \in ToSet(none)} = DistinctOf(column)
  <2>1. ToSet(none) = {}
    BY <1>3, <1>5 DEF ToSet
  <2>2. DistinctOf(column) = {}
    BY <1>3 DEF DistinctOf
  <2> QED
    BY <2>1, <2>2
<1>8. KnowsDistinct(s.exact_distinct, s.approx_distinct, column, type)
  BY <1>2, <1>5, <1>6, <1>7, Zenon DEF KnowsDistinct
<1> QED
  BY <1>1, <1>2, <1>3, <1>4, <1>8, Zenon DEF Knows

\* The bound that a value moves is the smallest, or the largest, of them all.
LEMMA BoundFollows ==
    ASSUME NEW type \in DataTypes, NEW column \in Seq(Comparables(type)),
           NEW more \in Seq(Comparables(type)), NEW x, Longer(more, column, x),
           NEW low, NEW up, Bounds(low, up, ToSet(column))
    PROVE  \E l, u : /\ Bounds(l, u, ToSet(more))
                     /\ NextBound(Some(low), x, "Less") = Some(l)
                     /\ NextBound(Some(up), x, "Greater") = Some(u)
<1>1. PICK S : S = ToSet(column) /\ S \subseteq Comparables(type)
  <2>1. ToSet(column) = {column[i] : i \in 1 .. Len(column)}
    BY LenProperties, Zenon DEF ToSet
  <2> QED
    BY <2>1, ElementOfSeq
<1>2. x \in Comparables(type) /\ ToSet(more) = S \cup {x}
  BY <1>1, LongerFacts
<1>3. /\ low \in Comparables(type) /\ up \in Comparables(type) /\ NotGreater(x, x)
      /\ (\A y \in S : NotGreater(low, y) /\ NotGreater(y, up)) /\ low \in S /\ up \in S
      /\ x \in Comparables(type) /\ S \subseteq Comparables(type)
  BY <1>1, <1>2, CmpOrder DEF Bounds
<1>4. <<low>> # <<>> /\ <<low>>[1] = low /\ <<up>> # <<>> /\ <<up>>[1] = up
  OBVIOUS
<1>5. ASSUME partial_cmp(x, low) = "Less"
      PROVE  \E l \in S \cup {x} : NextBound(<<low>>, x, "Less") = <<l>>
                                     /\ \A y \in S \cup {x} : NotGreater(l, y)
  <2>1. NextBound(<<low>>, x, "Less") = <<x>>
    BY <1>4, <1>5, Zenon DEF NextBound
  <2>2. NotGreater(x, low)
    BY <1>5 DEF NotGreater
  <2>3. \A y \in S : NotGreater(x, y)
    BY <1>3, <2>2, CmpTransitive
  <2>4. \A y \in S \cup {x} : NotGreater(x, y)
    BY <1>3, <2>3
  <2>5. NextBound(<<low>>, x, "Less") = <<x>> /\ x \in S \cup {x}
    BY <2>1
  <2> QED
    BY <2>4, <2>5, Zenon
<1>6. ASSUME partial_cmp(x, low) # "Less"
      PROVE  \E l \in S \cup {x} : NextBound(<<low>>, x, "Less") = <<l>>
                                     /\ \A y \in S \cup {x} : NotGreater(l, y)
  <2>1. NextBound(<<low>>, x, "Less") = <<low>>
    BY <1>4, <1>6, Zenon DEF NextBound
  <2>2. NotGreater(low, x)
    BY <1>3, <1>6, CmpOrder
  <2>3. \A y \in S \cup {x} : NotGreater(low, y)
    BY <1>3, <2>2
  <2> QED
    BY <1>3, <2>1, <2>3
<1>7. ASSUME partial_cmp(x, up) = "Greater"
      PROVE  \E u \in S \cup {x} : NextBound(<<up>>, x, "Greater") = <<u>>
                                     /\ \A y \in S \cup {x} : NotGreater(y, u)
  <2>1. NextBound(<<up>>, x, "Greater") = <<x>>
    BY <1>4, <1>7, Zenon DEF NextBound
  <2>2. NotGreater(up, x)
    BY <1>3, <1>7, CmpOrder
  <2>3. \A y \in S : NotGreater(y, x)
    BY <1>3, <2>2, CmpTransitive
  <2>4. \A y \in S \cup {x} : NotGreater(y, x)
    BY <1>3, <2>3
  <2>5. NextBound(<<up>>, x, "Greater") = <<x>> /\ x \in S \cup {x}
    BY <2>1
  <2> QED
    BY <2>4, <2>5, Zenon
<1>8. ASSUME partial_cmp(x, up) # "Greater"
      PROVE  \E u \in S \cup {x} : NextBound(<<up>>, x, "Greater") = <<u>>
                                     /\ \A y \in S \cup {x} : NotGreater(y, u)
  <2>1. NextBound(<<up>>, x, "Greater") = <<up>>
    BY <1>4, <1>8, Zenon DEF NextBound
  <2>2. NotGreater(x, up)
    BY <1>8 DEF NotGreater
  <2>3. \A y \in S \cup {x} : NotGreater(y, up)
    BY <1>3, <2>2
  <2> QED
    BY <1>3, <2>1, <2>3
<1>9. \E l \in S \cup {x} : NextBound(<<low>>, x, "Less") = <<l>>
                            /\ \A y \in S \cup {x} : NotGreater(l, y)
  BY <1>5, <1>6
<1>10. \E u \in S \cup {x} : NextBound(<<up>>, x, "Greater") = <<u>>
                            /\ \A y \in S \cup {x} : NotGreater(y, u)
  BY <1>7, <1>8
<1>11. PICK l \in S \cup {x} : NextBound(<<low>>, x, "Less") = <<l>>
                              /\ \A y \in S \cup {x} : NotGreater(l, y)
  BY <1>9
<1>12. PICK u \in S \cup {x} : NextBound(<<up>>, x, "Greater") = <<u>>
                               /\ \A y \in S \cup {x} : NotGreater(y, u)
  BY <1>10
<1>13. Bounds(l, u, ToSet(more))
  BY <1>2, <1>11, <1>12 DEF Bounds
<1> QED
  BY <1>11, <1>12, <1>13 DEF Some

\* A column that is longer is in order if it was and its last value is not less.
LEMMA OrderFollows ==
    ASSUME NEW type \in DataTypes, NEW column \in Seq(Comparables(type)),
           NEW more \in Seq(Comparables(type)), NEW x, Longer(more, column, x)
    PROVE  NonDecreasing(more) <=>
               /\ NonDecreasing(column)
               /\ column # <<>> => NotGreater(column[Len(column)], x)
<1>1. PICK n \in Nat : n = Len(column)
  BY LenProperties
<1>2. /\ DOMAIN column = 1 .. n /\ DOMAIN more = 1 .. n + 1
      /\ x \in Comparables(type)
  BY <1>1, LongerFacts
<1>3. (\A i \in 1 .. n : more[i] = column[i] /\ column[i] \in Comparables(type))
      /\ more[n + 1] = x
  BY <1>1, ElementOfSeq DEF Longer
<1>4. column # <<>> <=> n > 0
  BY <1>1, EmptySeq, LenProperties
<1>5. /\ \A i \in 1 .. n : i \in 1 .. n + 1
      /\ \A i \in 1 .. n + 1 : i \in 1 .. n \/ i = n + 1
      /\ n + 1 \in 1 .. n + 1
      /\ \A i \in 1 .. n : i < n + 1
      /\ n > 0 => n \in 1 .. n
  OBVIOUS
<1>6. ASSUME NonDecreasing(more)
      PROVE  NonDecreasing(column) /\ (n > 0 => NotGreater(column[n], x))
  <2>1. NonDecreasing(column)
    BY <1>2, <1>3, <1>5, <1>6 DEF NonDecreasing
  <2>2. ASSUME n > 0 PROVE partial_cmp(column[n], x) # "Greater"
    <3>1. n \in 1 .. n + 1 /\ n + 1 \in 1 .. n + 1 /\ n < n + 1 /\ more[n] = column[n]
      BY <1>3, <1>5, <2>2
    <3>2. partial_cmp(more[n], more[n + 1]) # "Greater"
      BY <1>2, <1>6, <3>1 DEF NonDecreasing
    <3> QED
      BY <1>3, <3>1, <3>2
  <2> QED
    BY <2>1, <2>2 DEF NotGreater
<1>7. ASSUME NonDecreasing(column), n > 0 => NotGreater(column[n], x)
      PROVE  NonDecreasing(more)
  <2> SUFFICES ASSUME NEW i \in 1 .. n + 1, NEW j \in 1 .. n + 1, i < j
               PROVE  NotGreater(more[i], more[j])
    BY <1>2 DEF NonDecreasing, NotGreater
  <2>1. i \in 1 .. n /\ n > 0 /\ n \in 1 .. n /\ more[i] = column[i]
    <3>1. i \in 1 .. n /\ n > 0
      OBVIOUS
    <3> QED
      BY <1>3, <1>5, <3>1
  <2>2. CASE j \in 1 .. n
    <3>1. NotGreater(column[i], column[j])
      BY <1>2, <1>7, <2>1, <2>2 DEF NonDecreasing, NotGreater
    <3> QED
      BY <1>3, <2>1, <2>2, <3>1
  <2>3. CASE j = n + 1
    <3>1. NotGreater(column[i], column[n])
      <4>1. CASE i = n
        BY <1>3, <2>1, <4>1, CmpOrder
      <4>2. CASE i # n
        <5>1. i < n
          BY <2>1, <4>2
        <5> QED
          BY <1>2, <1>7, <2>1, <5>1 DEF NonDecreasing, NotGreater
      <4> QED
        BY <4>1, <4>2
    <3>2. NotGreater(column[n], x)
      BY <1>7, <2>1
    <3>3. column[i] \in Comparables(type) /\ column[n] \in Comparables(type)
      BY <1>3, <2>1
    <3>4. NotGreater(column[i], x)
      BY <1>2, <3>1, <3>2, <3>3, CmpTransitive
    <3> QED
      BY <1>3, <2>1, <2>3, <3>4
  <2> QED
    BY <1>5, <2>2, <2>3
<1> QED
  BY <1>1, <1>4, <1>6, <1>7

\* update keeps what is known, for one value more.
LEMMA KnowsFollows ==
    ASSUME NEW type \in DataTypes, NEW s, NEW draw,
           NEW column \in Seq(Comparables(type)), NEW more \in Seq(Comparables(type)),
           NEW x, Longer(more, column, x), Knows(s, column, type)
    PROVE  Knows(update(s, x, draw), more, type)
<1>1. PICK t : t = update(s, x, draw)
  OBVIOUS
<1>2. /\ IsStats(s) /\ s.total_count = Len(column)
      /\ s.is_physically_ordered <=> NonDecreasing(column)
  BY DEF Knows
<1>3. /\ IsStats(t) /\ t.total_count = s.total_count + 1
      /\ t.lower_bound = NextBound(s.lower_bound, x, "Less")
      /\ t.upper_bound = NextBound(s.upper_bound, x, "Greater")
      /\ t.is_physically_ordered = StillOrdered(s, x)
      /\ t.last_element = <<x>>
      /\ t.exact_distinct = Distinct(s, x).exact_distinct
      /\ t.approx_distinct = Distinct(s, x).approx_distinct
  BY <1>1, <1>2, UpdatedStats
<1>4. PICK n \in Nat : n = Len(column)
  BY LenProperties
<1>5. /\ DOMAIN column = 1 .. n /\ DOMAIN more = 1 .. n + 1
      /\ x \in Comparables(type) /\ ToSet(more) = ToSet(column) \cup {x}
      /\ NoMinusZero(more) => NoMinusZero(column) /\ ~MinusZero(x)
  BY <1>4, LongerFacts
<1>6. Len(more) = n + 1 /\ more[n + 1] = x
  BY <1>4 DEF Longer
<1>7. t.total_count = Len(more) /\ t.last_element = <<more[Len(more)]>>
  BY <1>2, <1>3, <1>4, <1>6
<1>8. more # <<>>
  BY <1>6
<1>9. \A y \in ToSet(column) : y \in Comparables(type)
  <2>1. ToSet(column) = {column[i] : i \in 1 .. n}
    BY <1>5, Zenon DEF ToSet
  <2> QED
    BY <1>4, <2>1, ElementOfSeq
<1>10. \E low, up : /\ Bounds(low, up, ToSet(more))
                    /\ t.lower_bound = Some(low) /\ t.upper_bound = Some(up)
  <2>1. CASE column = <<>>
    <3>1. s.lower_bound = <<>> /\ s.upper_bound = <<>>
      BY <2>1 DEF Knows
    <3>2. t.lower_bound = Some(x) /\ t.upper_bound = Some(x)
      BY <1>3, <3>1 DEF NextBound, Some
    <3>3. ToSet(column) = {}
      <4>1. DOMAIN column = {}
        BY <2>1
      <4> QED
        BY <4>1 DEF ToSet
    <3>4. ToSet(more) = {x} /\ NotGreater(x, x)
      BY <1>5, <3>3, CmpOrder
    <3>5. Bounds(x, x, ToSet(more))
      BY <3>4 DEF Bounds
    <3> QED
      BY <3>2, <3>5
  <2>2. CASE column # <<>>
    <3>1. PICK low, up : /\ Bounds(low, up, ToSet(column))
                         /\ s.lower_bound = Some(low) /\ s.upper_bound = Some(up)
      BY <2>2 DEF Knows
    <3>5. PICK l, u : /\ Bounds(l, u, ToSet(more))
                      /\ NextBound(Some(low), x, "Less") = Some(l)
                      /\ NextBound(Some(up), x, "Greater") = Some(u)
      BY <3>1, BoundFollows
    <3>6. t.lower_bound = Some(l) /\ t.upper_bound = Some(u)
      BY <1>3, <3>1, <3>5
    <3> QED
      BY <3>5, <3>6
  <2> QED
    BY <2>1, <2>2
<1>11. t.is_physically_ordered <=> NonDecreasing(more)
  <2>1. NonDecreasing(more) <=> /\ NonDecreasing(column)
                                /\ column # <<>> => NotGreater(column[n], x)
    BY <1>4, OrderFollows
  <2>2. CASE column = <<>>
    <3>1. s.last_element = <<>>
      BY <2>2 DEF Knows
    <3>2. t.is_physically_ordered <=> s.is_physically_ordered
      BY <1>3, <3>1 DEF StillOrdered
    <3> QED
      BY <1>2, <2>1, <2>2, <3>2
  <2>3. CASE column # <<>>
    <3>1. s.last_element = <<column[n]>>
      BY <1>4, <2>3 DEF Knows
    <3>2. s.last_element # <<>> /\ s.last_element[1] = column[n]
      BY <3>1
    <3>3. t.is_physically_ordered <=> s.is_physically_ordered /\ NotGreater(column[n], x)
      BY <1>3, <3>2 DEF StillOrdered, NotGreater
    <3> QED
      BY <1>2, <2>1, <2>3, <3>3
  <2> QED
    BY <2>2, <2>3
<1>12. ASSUME NoMinusZero(more)
       PROVE  KnowsDistinct(t.exact_distinct, t.approx_distinct, more, type)
  <2>1. KnowsDistinct(s.exact_distinct, s.approx_distinct, column, type)
    BY <1>5, <1>12 DEF Knows
  <2>2. KnowsDistinct(Distinct(s, x).exact_distinct, Distinct(s, x).approx_distinct,
                      more, type)
    BY <1>2, <1>12, <2>1, DistinctFollows
  <2> QED
    BY <1>3, <2>2
<1> QED
  BY <1>1, <1>3, <1>7, <1>8, <1>10, <1>11, <1>12 DEF Knows

\* What is known is that the statistics describe the column.
LEMMA KnownIsDescribed ==
    ASSUME NEW type \in DataTypes, NEW s, NEW column \in Seq(Comparables(type)),
           Knows(s, column, type)
    PROVE  Describes(s, column)
<1>1. s.total_count = Len(column) /\ (s.is_physically_ordered <=> NonDecreasing(column))
  BY DEF Knows
<1>2. \A y \in ToSet(column) : y \in Comparables(type)
  <2>1. ToSet(column) = {column[i] : i \in 1 .. Len(column)}
    BY LenProperties, Zenon DEF ToSet
  <2> QED
    BY <2>1, ElementOfSeq
<1>3. ASSUME column # <<>>
      PROVE  /\ {s.lower_bound[1], s.upper_bound[1]} \subseteq ToSet(column)
             /\ \A x \in ToSet(column) : /\ partial_cmp(x, s.lower_bound[1]) # "Less"
                                         /\ partial_cmp(x, s.upper_bound[1]) # "Greater"
  <2>1. PICK low, up : /\ s.lower_bound = <<low>> /\ s.upper_bound = <<up>>
                       /\ low \in ToSet(column) /\ up \in ToSet(column)
                       /\ \A y \in ToSet(column) : NotGreater(low, y) /\ NotGreater(y, up)
    BY <1>3 DEF Knows, Bounds, Some
  <2>2. s.lower_bound[1] = low /\ s.upper_bound[1] = up
    BY <2>1
  <2>3. \A y \in ToSet(column) : partial_cmp(y, low) # "Less" /\ partial_cmp(y, up) # "Greater"
    BY <1>2, <2>1, CmpOrder DEF NotGreater
  <2> QED
    BY <2>1, <2>2, <2>3
<1>4. ASSUME \A i \in DOMAIN column : ~MinusZero(column[i])
      PROVE  IF Cardinality(DistinctOf(column)) <= exact_limit
             THEN /\ Len(s.exact_distinct[1]) = Cardinality(DistinctOf(column))
                  /\ NonDecreasing(s.exact_distinct[1])
             ELSE s.approx_distinct = <<DistinctOf(column)>>
  <2>1. KnowsDistinct(s.exact_distinct, s.approx_distinct, column, type)
    BY <1>4 DEF Knows, NoMinusZero
  <2>2. exact_limit \in Nat
    BY StatsConfigAssumption
  <2>3. ASSUME NEW set, s.exact_distinct = <<set>>, Ascending(set, type), NoMinusZero(set),
               {hash(x) : x \in ToSet(set)} = DistinctOf(column), Len(set) <= exact_limit
        PROVE  /\ Cardinality(DistinctOf(column)) <= exact_limit
               /\ Len(s.exact_distinct[1]) = Cardinality(DistinctOf(column))
               /\ NonDecreasing(s.exact_distinct[1])
    <3>1. s.exact_distinct[1] = set
      BY <2>3
    <3>2. Cardinality(DistinctOf(column)) = Len(set)
      BY <2>3, KeysAreCounted
    <3>3. NonDecreasing(set)
      <4>1. DOMAIN set = 1 .. Len(set) /\ \A i \in 1 .. Len(set) : set[i] \in Comparables(type)
        BY <2>3, LenProperties, ElementOfSeq DEF Ascending
      <4>2. \A i, j \in 1 .. Len(set) : i < j => NotGreater(set[i], set[j])
        BY <2>3, <4>1, CmpOrder DEF Ascending
      <4> QED
        BY <4>1, <4>2 DEF NonDecreasing, NotGreater
    <3> QED
      BY <2>3, <3>1, <3>2, <3>3
  <2>4. ASSUME s.approx_distinct = <<DistinctOf(column)>>,
               IsFiniteSet(DistinctOf(column)), Cardinality(DistinctOf(column)) > exact_limit
        PROVE  /\ ~(Cardinality(DistinctOf(column)) <= exact_limit)
               /\ s.approx_distinct = <<DistinctOf(column)>>
    BY <2>2, <2>4, FS_CardinalityType
  <2> QED
    BY <2>1, <2>3, <2>4, Zenon DEF KnowsDistinct
<1> QED
  BY <1>1, <1>3, <1>4, Zenon DEF Describes
-----------------------------------------------------------------------------
(* The statistics of a table.                                                *)

\* A column of rows, and the same column with a row more.
LEMMA ColumnFacts ==
    ASSUME lines \in Tables, NEW n \in Nat, n <= Len(lines), \A i \in 1 .. n : Good(i),
           NEW c \in DOMAIN Columns, Comparable(Column(c, n))
    PROVE  Column(c, n) \in Seq(Comparables(Columns[c])) /\ Len(Column(c, n)) = n
<1>1. PICK column : column = Column(c, n)
  OBVIOUS
<1>2. column = [i \in 1 .. n |-> Elements(lines[i])[c]]
  BY <1>1 DEF Column
<1>3. ASSUME NEW i \in 1 .. n PROVE column[i] \in Comparables(Columns[c])
  <2>1. i \in 1 .. Len(lines) /\ Good(i)
    BY LineFacts
  <2>2. column[i] = Elements(lines[i])[c] /\ column[i] \in Data(Columns[c])
    BY <1>2, <2>1, ElementTyped
  <2>3. ~IsNaN(column[i])
    BY <1>1, <1>2 DEF Comparable
  <2> QED
    BY <2>2, <2>3 DEF Comparables
<1>4. column \in Seq(Comparables(Columns[c])) /\ Len(column) = n
  BY <1>2, <1>3
<1> QED
  BY <1>1, <1>4

\* What is known of the first n values of a column that has no NaN.
KnowsColumn(s, c, n) ==
    Comparable(Column(c, n)) =>
        /\ Column(c, n) \in Seq(Comparables(Columns[c]))
        /\ Knows(s, Column(c, n), Columns[c])

\* It is known of one value more when the statistics are updated with it.
LEMMA KnowsColumnFollows ==
    ASSUME lines \in Tables, NEW n \in Nat, n + 1 <= Len(lines), \A i \in 1 .. n + 1 : Good(i),
           NEW c \in DOMAIN Columns, NEW s, KnowsColumn(s, c, n), NEW draw
    PROVE  KnowsColumn(update(s, Elements(lines[n + 1])[c], draw), c, n + 1)
<1> SUFFICES ASSUME Comparable(Column(c, n + 1))
             PROVE  /\ Column(c, n + 1) \in Seq(Comparables(Columns[c]))
                    /\ Knows(update(s, Elements(lines[n + 1])[c], draw), Column(c, n + 1),
                             Columns[c])
  BY DEF KnowsColumn
<1>1. PICK column, more : column = Column(c, n) /\ more = Column(c, n + 1)
  OBVIOUS
<1>2. PICK x : x = Elements(lines[n + 1])[c]
  OBVIOUS
<1>3. /\ column = [i \in 1 .. n |-> Elements(lines[i])[c]]
      /\ more = [i \in 1 .. n + 1 |-> Elements(lines[i])[c]]
  BY <1>1 DEF Column
<1>4. /\ \A i \in 1 .. n : i \in 1 .. n + 1
      /\ n + 1 \in 1 .. n + 1 /\ n + 1 \in Nat /\ n <= Len(lines)
  BY LineFacts
<1>5. Comparable(column)
  BY <1>1, <1>3, <1>4 DEF Comparable
<1>6. Columns[c] \in DataTypes
  BY <1>4, LineFacts, ElementTyped
<1>7. /\ column \in Seq(Comparables(Columns[c])) /\ Len(column) = n
      /\ more \in Seq(Comparables(Columns[c])) /\ Len(more) = n + 1
  BY <1>1, <1>4, <1>5, ColumnFacts
<1>8. Longer(more, column, x)
  BY <1>2, <1>3, <1>4, <1>7 DEF Longer
<1>9. Knows(s, column, Columns[c])
  BY <1>1, <1>5 DEF KnowsColumn
<1>10. Knows(update(s, x, draw), more, Columns[c])
  BY <1>6, <1>7, <1>8, <1>9, KnowsFollows
<1> QED
  BY <1>1, <1>2, <1>7, <1>10

\* What the statistics pass learns stays known.
StatsInv ==
    \A c \in DOMAIN Columns :
        /\ pass = "Disk" => stats[c] = StatsGenerator
        /\ pass = "Stats" => KnowsColumn(stats[c], c, line_no)
        /\ pass \in {"Sqlite", "Done"} => KnowsColumn(stats[c], c, Len(RowsOfTable))

\* Before the first line nothing was learned.
LEMMA StatsInvInit ==
    ASSUME Init
    PROVE  StatsInv
<1>1. \A c \in DOMAIN Columns : stats[c] = StatsGenerator
  BY DEF Init
<1>2. pass = "Disk"
  BY DEF Init
<1> QED
  BY <1>1, <1>2 DEF StatsInv

\* A column does not change, as the lines do not.
LEMMA ColumnsStay ==
    ASSUME UNCHANGED lines
    PROVE  StatsInv' <=>
               \A c \in DOMAIN Columns :
                   /\ pass' = "Disk" => stats'[c] = StatsGenerator
                   /\ pass' = "Stats" => KnowsColumn(stats'[c], c, line_no')
                   /\ pass' \in {"Sqlite", "Done"} =>
                          KnowsColumn(stats'[c], c, Len(RowsOfTable))
<1>1. \A c : /\ KnowsColumn(stats[c], c, line_no)' <=> KnowsColumn(stats'[c], c, line_no')
             /\ KnowsColumn(stats[c], c, Len(RowsOfTable))' <=>
                    KnowsColumn(stats'[c], c, Len(RowsOfTable))
  BY RowsStay DEF KnowsColumn, Column
<1>2. StatsGenerator' = StatsGenerator
  BY DEF StatsGenerator
<1> QED
  BY <1>1, <1>2 DEF StatsInv

\* The file is closed before the statistics are gathered.
LEMMA BeginsStats ==
    ASSUME PassInv, StatsInv, CloseFile
    PROVE  StatsInv'
<1>1. /\ pass = "Disk" /\ lines' = lines /\ stats' = stats
      /\ \/ pass' = "Stats" /\ line_no' = 0
         \/ pass' = "Bailed"
  BY DEF CloseFile, Begin, stats_vars
<1>2. ASSUME NEW c \in DOMAIN Columns PROVE KnowsColumn(stats[c], c, 0)
  <2>1. stats[c] = StatsGenerator
    BY <1>1 DEF StatsInv
  <2>2. PICK column : column = Column(c, 0)
    OBVIOUS
  <2>3. column = <<>> /\ column \in Seq(Comparables(Columns[c]))
    BY <2>2 DEF Column
  <2>4. Columns[c] \in DataTypes
    BY GeneratorAssumption, LenProperties, ElementOfSeq
  <2>5. Knows(StatsGenerator, column, Columns[c])
    BY <2>3, <2>4, KnowsNothing
  <2> QED
    BY <2>1, <2>2, <2>3, <2>5 DEF KnowsColumn
<1> QED
  BY <1>1, <1>2, ColumnsStay

\* A row more in every column.
LEMMA UpdatesStats ==
    ASSUME PassInv, StatsInv, UpdateStats
    PROVE  StatsInv'
<1>1. /\ pass = "Stats" /\ pass' = "Stats" /\ NextIsRow /\ lines' = lines
      /\ line_no' = line_no + 1
  BY DEF UpdateStats
<1>2. PICK draws :
          stats' = [c \in DOMAIN Columns |-> update(stats[c], TheRow.cols[c], draws[c])]
  BY Zenon DEF UpdateStats
<1>3. LinesTaken
  BY DEF PassInv
<1>4. /\ line_no \in Nat /\ line_no + 1 \in 1 .. Len(lines)
      /\ \A n \in 1 .. line_no + 1 : Good(n)
      /\ TheRow = Row(line_no + 1)
  BY <1>1, <1>3, TakesLine
<1>5. lines \in Tables /\ line_no + 1 <= Len(lines)
  BY <1>3, <1>4, LineFacts DEF LinesTaken
<1>6. TheRow.cols = Elements(lines[line_no + 1])
  BY <1>4 DEF Row
<1>7. ASSUME NEW c \in DOMAIN Columns PROVE KnowsColumn(stats'[c], c, line_no')
  <2>1. KnowsColumn(stats[c], c, line_no)
    BY <1>1 DEF StatsInv
  <2>2. stats'[c] = update(stats[c], Elements(lines[line_no + 1])[c], draws[c])
    BY <1>2, <1>6
  <2>3. PICK s, n, draw : s = stats[c] /\ n = line_no /\ draw = draws[c]
    OBVIOUS
  <2>4. KnowsColumn(update(s, Elements(lines[n + 1])[c], draw), c, n + 1)
    BY <1>4, <1>5, <2>1, <2>3, KnowsColumnFollows
  <2> QED
    BY <1>1, <2>2, <2>3, <2>4
<1> QED
  BY <1>1, <1>7, ColumnsStay

\* What was learned is not changed by the pass of SQLite.
LEMMA LaterSteps ==
    ASSUME PassInv, StatsInv, BuildStats \/ InsertRow \/ CloseSqlite
    PROVE  StatsInv'
<1>1. lines' = lines /\ stats' = stats
  BY DEF BuildStats, InsertRow, CloseSqlite, stats_vars
<1>2. ASSUME BuildStats PROVE StatsInv'
  <2>1. pass = "Stats" /\ NextIsNone /\ pass' = "Sqlite"
    BY <1>2 DEF BuildStats, Begin
  <2>2. Len(RowsOfTable) = line_no
    BY <2>1, TakesNone DEF PassInv
  <2>3. \A c \in DOMAIN Columns : KnowsColumn(stats[c], c, Len(RowsOfTable))
    BY <2>1, <2>2 DEF StatsInv
  <2> QED
    BY <1>1, <2>1, <2>3, ColumnsStay
<1>3. ASSUME InsertRow \/ CloseSqlite PROVE StatsInv'
  <2>1. pass = "Sqlite" /\ pass' \in {"Sqlite", "Done", "Bailed"}
    BY <1>3 DEF InsertRow, CloseSqlite, Execute
  <2>2. \A c \in DOMAIN Columns : KnowsColumn(stats[c], c, Len(RowsOfTable))
    BY <2>1 DEF StatsInv
  <2> QED
    BY <1>1, <2>1, <2>2, ColumnsStay
<1> QED
  BY <1>2, <1>3

\* The other steps do not change what was learned.
LEMMA OtherSteps ==
    ASSUME PassInv, StatsInv, SaveRow \/ Panic \/ UNCHANGED vars
    PROVE  StatsInv'
<1>1. /\ lines' = lines /\ stats' = stats
      /\ \/ pass' = pass /\ line_no' = line_no
         \/ pass = "Disk" /\ pass' = "Disk"
         \/ pass' = "Panicked"
  BY DEF SaveRow, Panic, vars, disk_vars, stats_vars
<1> QED
  BY <1>1, ColumnsStay DEF StatsInv

\* What is known of the columns is kept by every step.
LEMMA StatsInvariance == Spec => [](PassInv /\ StatsInv)
<1>1. Init => StatsInv
  BY StatsInvInit
<1>2. PassInv /\ StatsInv /\ [Next]_vars => StatsInv'
  <2> SUFFICES ASSUME PassInv, StatsInv, [Next]_vars PROVE StatsInv'
    OBVIOUS
  <2>1. SaveRow \/ Panic \/ UNCHANGED vars \/ Stopped => StatsInv'
    BY OtherSteps DEF Stopped
  <2>2. BuildStats \/ InsertRow \/ CloseSqlite => StatsInv'
    BY LaterSteps
  <2> QED
    BY <2>1, <2>2, BeginsStats, UpdatesStats, Zenon DEF Next
<1> QED
  BY <1>1, <1>2, PassInvariance, PTL DEF Spec

\* SQLite has taken no NaN, so that no column has one.
LEMMA DoneIsComparable ==
    ASSUME PassInv, pass = "Done", Unquoted, NEW c \in DOMAIN Columns
    PROVE  Comparable(Column(c, Len(RowsOfTable)))
<1>1. RowsOfTable = RowList(line_no) /\ line_no \in Nat
  BY LineFacts DEF PassInv, SqliteFollows, LinesTaken
<1>2. DOMAIN RowsOfTable = 1 .. line_no /\ Len(RowsOfTable) = line_no
  BY <1>1 DEF RowList
<1>3. ASSUME NEW i \in 1 .. line_no PROVE ~IsNaN(Elements(lines[i])[c])
  <2>1. PICK x : x = Elements(lines[i])[c]
    OBVIOUS
  <2>2. Columns[c] \in DataTypes /\ x \in Data(Columns[c]) /\ Finite(x)
    BY <1>2, <2>1, DoneRows DEF IsSql
  <2>3. CASE Columns[c] \in Floating
    BY <2>1, <2>2, <2>3, FloatFacts, HiddenType DEF Finite
  <2>4. CASE Columns[c] \notin Floating
    BY <2>1, <2>2, <2>4, DataFacts DEF IsNaN
  <2> QED
    BY <2>3, <2>4
<1> QED
  BY <1>2, <1>3 DEF Column, Comparable

\* The statistics of a column describe the values of it that were seen, for every
\* table, column and order of the values, and for every number of values that are
\* counted exactly, as long as no NaN was among them; and at the end they describe
\* the columns of a table whose strings have no quotes, which have none as SQLite
\* has taken them.
THEOREM StatsAlwaysDescribe == Spec => []StatsDescribeColumn
<1>1. ASSUME NEW c \in DOMAIN Columns, NEW n, KnowsColumn(stats[c], c, n), Comparable(Column(c, n))
      PROVE  Describes(stats[c], Column(c, n))
  <2>1. Columns[c] \in DataTypes
    BY GeneratorAssumption, LenProperties, ElementOfSeq
  <2>2. PICK column, s : column = Column(c, n) /\ s = stats[c]
    OBVIOUS
  <2>3. column \in Seq(Comparables(Columns[c])) /\ Knows(s, column, Columns[c])
    BY <1>1, <2>2 DEF KnowsColumn
  <2> QED
    BY <2>1, <2>2, <2>3, KnownIsDescribed
<1>2. PassInv /\ StatsInv => StatsDescribeColumn
  <2> SUFFICES ASSUME PassInv, StatsInv, NEW c \in DOMAIN Columns
               PROVE  /\ pass = "Stats" /\ Comparable(Column(c, line_no)) =>
                             Describes(stats[c], Column(c, line_no))
                      /\ pass = "Done" /\ Unquoted =>
                             Describes(stats[c], Column(c, Len(RowsOfTable)))
    BY Zenon DEF StatsDescribeColumn
  <2>1. pass = "Stats" => KnowsColumn(stats[c], c, line_no)
    BY DEF StatsInv
  <2>2. pass = "Done" => KnowsColumn(stats[c], c, Len(RowsOfTable))
    BY DEF StatsInv
  <2> QED
    BY <1>1, <2>1, <2>2, DoneIsComparable
<1> QED
  BY <1>2, StatsInvariance, PTL
-----------------------------------------------------------------------------
(* Histograms.                                                               *)

\* The quotient rounded up.
LEMMA RoundedUp ==
    ASSUME NEW n \in Nat, NEW d \in Nat \ {0}
    PROVE  \E q \in Nat : /\ q = (n + d - 1) \div d
                          /\ n <= d * q /\ (n > 0 => q > 0 /\ d * (q - 1) < n)
<1>1. n + d - 1 \in Nat
  OBVIOUS
<1>2. PICK q \in Nat, r \in Nat : q = (n + d - 1) \div d /\ n + d - 1 = d * q + r /\ r < d
  <2>1. /\ (n + d - 1) \div d \in Nat /\ (n + d - 1) % d \in 0 .. d - 1
        /\ n + d - 1 = d * ((n + d - 1) \div d) + ((n + d - 1) % d)
    BY <1>1, Division
  <2> QED
    BY <2>1
<1>3. PICK p \in Nat : p = d * q
  OBVIOUS
<1>4. n <= p
  BY <1>2, <1>3
<1>5. ASSUME n > 0 PROVE q > 0 /\ d * (q - 1) < n
  <2>1. q # 0
    BY <1>3, <1>4, <1>5
  <2>2. d * (q - 1) = p - d
    BY <1>3
  <2> QED
    BY <1>2, <1>3, <2>1, <2>2
<1> QED
  BY <1>2, <1>3, <1>4, <1>5

\* A chunk ends with the sample, or before it.
Upto(j, size, n) == IF j * size <= n THEN j * size ELSE n

\* The chunks are not more than the buckets that are allowed, none is empty, and
\* they go to the end of the sample.
LEMMA Chunks ==
    ASSUME NEW n \in Nat \ {0}
    PROVE  \E size \in Nat \ {0}, m \in Nat \ {0} :
               /\ size = ChunkSize(n) /\ m = (n + size - 1) \div size
               /\ m <= max_histogram_buckets
               /\ Upto(0, size, n) = 0 /\ Upto(m, size, n) = n
               /\ \A j \in 1 .. m : Upto(j - 1, size, n) = (j - 1) * size /\ (j - 1) * size < n
<1>1. PICK k \in Nat \ {0} : /\ k = Min({max_histogram_buckets, n})
                             /\ k <= max_histogram_buckets
  BY MinOfTwo, StatsConfigAssumption
<1>2. PICK size \in Nat \ {0} : size = (n + k - 1) \div k /\ n <= k * size
  BY RoundedUp
<1>3. size = ChunkSize(n)
  BY <1>1, <1>2 DEF ChunkSize
<1>4. PICK m \in Nat \ {0} : /\ m = (n + size - 1) \div size
                             /\ n <= size * m /\ size * (m - 1) < n
  BY RoundedUp
<1>5. m <= k
  <2> SUFFICES ASSUME k < m PROVE FALSE
    OBVIOUS
  <2>1. PICK e \in Nat : m - 1 = k + e
    <3>1. m - 1 - k \in Nat /\ m - 1 = k + (m - 1 - k)
      OBVIOUS
    <3> QED
      BY <3>1
  <2>2. size * (m - 1) = k * size + e * size
    BY <2>1
  <2>3. k * size \in Nat /\ e * size \in Nat /\ size * (m - 1) \in Nat
    BY <2>1
  <2> QED
    BY <1>2, <1>4, <2>2, <2>3
<1>6. Upto(0, size, n) = 0
  <2>1. 0 * size = 0
    OBVIOUS
  <2> QED
    BY <2>1 DEF Upto
<1>7. Upto(m, size, n) = n
  <2>1. PICK p \in Nat : p = m * size /\ n <= p
    <3>1. m * size = size * m /\ m * size \in Nat
      OBVIOUS
    <3> QED
      BY <1>4, <3>1
  <2> QED
    BY <2>1 DEF Upto
<1>8. ASSUME NEW j \in 1 .. m
      PROVE  Upto(j - 1, size, n) = (j - 1) * size /\ (j - 1) * size < n
  <2>1. PICK k1 \in Nat, e \in Nat : k1 = j - 1 /\ m - 1 = k1 + e
    <3>1. j - 1 \in Nat /\ m - j \in Nat /\ m - 1 = (j - 1) + (m - j)
      OBVIOUS
    <3> QED
      BY <3>1
  <2>2. PICK k2 \in Nat : k2 = m - 1
    OBVIOUS
  <2>3. size * k2 < n /\ k2 = k1 + e
    BY <1>4, <2>1, <2>2
  <2>4. size * (k1 + e) = k1 * size + e * size
    OBVIOUS
  <2>5. k1 * size \in Nat /\ e * size \in Nat
    OBVIOUS
  <2>6. k1 * size < n
    BY <2>3, <2>4, <2>5
  <2>7. Upto(k1, size, n) = k1 * size
    BY <2>5, <2>6 DEF Upto
  <2> QED
    BY <2>1, <2>6, <2>7
<1>9. m <= max_histogram_buckets
  BY <1>1, <1>5, StatsConfigAssumption
<1> QED
  BY <1>3, <1>4, <1>6, <1>7, <1>8, <1>9, Zenon

\* Every position is in a chunk.
LEMMA ChunkOf ==
    ASSUME NEW n \in Nat \ {0}, NEW size \in Nat \ {0}, NEW m \in Nat \ {0}, n <= m * size,
           NEW i \in 1 .. n
    PROVE  \E j \in 1 .. m : (j - 1) * size < i /\ i <= Upto(j, size, n)
<1>1. PICK q \in Nat, r \in Nat : i - 1 = size * q + r /\ r < size
  <2>1. PICK k \in Nat : k = i - 1
    OBVIOUS
  <2>2. /\ k \div size \in Nat /\ k % size \in 0 .. size - 1
        /\ k = size * (k \div size) + (k % size)
    BY Division
  <2>3. PICK q, r : q = k \div size /\ r = k % size
    OBVIOUS
  <2>4. q \in Nat /\ r \in Nat /\ r < size /\ k = size * q + r
    BY <2>2, <2>3
  <2> QED
    BY <2>1, <2>4
<1>2. PICK p \in Nat : p = size * q
  OBVIOUS
<1>3. (q + 1) * size = p + size /\ q * size = p /\ (q + 1) - 1 = q
  BY <1>2
<1>4. q < m
  <2> SUFFICES ASSUME m <= q PROVE FALSE
    OBVIOUS
  <2>1. PICK e \in Nat : q = m + e
    <3>1. q - m \in Nat /\ q = m + (q - m)
      OBVIOUS
    <3> QED
      BY <3>1
  <2>2. p = m * size + e * size
    BY <1>2, <2>1
  <2>3. m * size \in Nat /\ e * size \in Nat
    BY <2>1
  <2> QED
    BY <1>1, <1>2, <2>2, <2>3
<1>5. q + 1 \in 1 .. m
  BY <1>4
<1>6. p < i /\ i <= p + size
  BY <1>1, <1>2
<1>7. i <= Upto(q + 1, size, n)
  BY <1>3, <1>6 DEF Upto
<1> QED
  BY <1>3, <1>5, <1>6, <1>7

\* Every bucket is a chunk of the sample.
BucketsAreChunks(points, sorted, n, size, m, total) ==
    /\ DOMAIN points = 1 .. m
    /\ \A j \in 1 .. m :
           points[j] = [lower_bound |-> sorted[(j - 1) * size + 1],
                        upper_bound |-> sorted[Upto(j, size, n)],
                        frequency |-> ((Upto(j, size, n) - (j - 1) * size) * total) \div n]

\* The histogram has such buckets.
LEMMA HistogramIs ==
    ASSUME NEW sorted, NEW n \in Nat \ {0}, n = Len(sorted), NEW total,
           NEW size \in Nat \ {0}, size = ChunkSize(n),
           NEW m \in Nat \ {0}, m = (n + size - 1) \div size
    PROVE  BucketsAreChunks(Histogram(sorted, total), sorted, n, size, m, total)
<1>1. Histogram(sorted, total) =
          [j \in 1 .. m |->
              LET first == (j - 1) * size + 1
                  last == Min({first + size - 1, n})
              IN  [lower_bound |-> sorted[first], upper_bound |-> sorted[last],
                   frequency |-> ((last - first + 1) * total) \div n]]
  BY Zenon DEF Histogram
<1>2. PICK points : points = Histogram(sorted, total)
  OBVIOUS
<1>3. DOMAIN points = 1 .. m
  BY <1>1, <1>2
<1>4. ASSUME NEW j \in 1 .. m
      PROVE  points[j] = [lower_bound |-> sorted[(j - 1) * size + 1],
                          upper_bound |-> sorted[Upto(j, size, n)],
                          frequency |-> ((Upto(j, size, n) - (j - 1) * size) * total) \div n]
  <2>1. PICK p \in Nat : p = (j - 1) * size
    <3>1. PICK k \in Nat : k = j - 1
      OBVIOUS
    <3>2. k * size \in Nat
      OBVIOUS
    <3> QED
      BY <3>1, <3>2
  <2>2. j * size = p + size
    BY <2>1
  <2>3. (p + 1) + size - 1 = p + size
    BY <2>1
  <2>4. PICK last \in Nat : last = Min({p + size, n}) /\ last = Upto(j, size, n)
    <3>1. Min({p + size, n}) = IF p + size <= n THEN p + size ELSE n
      <4>1. PICK q \in Nat : q = p + size
        OBVIOUS
      <4> QED
        BY <4>1, MinOfTwo
    <3>2. Min({p + size, n}) \in Nat
      BY <2>1, <3>1
    <3> QED
      BY <2>2, <3>1, <3>2 DEF Upto
  <2>5. last - (p + 1) + 1 = last - p
    BY <2>1, <2>4
  <2>6. points[j] = [lower_bound |-> sorted[p + 1], upper_bound |-> sorted[last],
                     frequency |-> ((last - (p + 1) + 1) * total) \div n]
    <3>1. points[j] = LET first == p + 1
                          last1 == Min({first + size - 1, n})
                      IN  [lower_bound |-> sorted[first], upper_bound |-> sorted[last1],
                           frequency |-> ((last1 - first + 1) * total) \div n]
      BY <1>1, <1>2, <2>1
    <3>2. Min({(p + 1) + size - 1, n}) = last
      BY <2>3, <2>4
    <3> QED
      BY <3>1, <3>2
  <2> QED
    BY <2>1, <2>4, <2>5, <2>6
<1> QED
  BY <1>2, <1>3, <1>4, Zenon DEF BucketsAreChunks

\* The buckets of a histogram.
Buckets(S) == [lower_bound : S, upper_bound : S, frequency : Nat]

TotalOf(points) == FoldLeft(LAMBDA sum, point : sum + point.frequency, 0, points)

SumStep(S) == [p \in Nat \X Buckets(S) |-> p[1] + p[2].frequency]

\* The frequencies are added up bucket by bucket.
LEMMA SumIsFold ==
    ASSUME NEW S, NEW points \in Seq(Buckets(S))
    PROVE  /\ FoldTypes(Nat, Buckets(S), SumStep(S), 0, points)
           /\ TotalOf(points) = Fold(SumStep(S), 0, points)
<1> DEFINE Body(g) == [t \in SUBSET (DOMAIN points) |->
                          IF t = {} THEN 0 ELSE g[t \ {Max(t)}] + points[Max(t)].frequency]
           ot == CHOOSE g : g = Body(g)
<1>1. TotalOf(points) = ot[DOMAIN points]
  BY Zenon DEF TotalOf, FoldLeft, MapThenFoldSet
<1>2. FoldTypes(Nat, Buckets(S), SumStep(S), 0, points)
  BY DEF SumStep, FoldTypes, Buckets
<1>3. PICK it \in [SUBSET (DOMAIN points) -> Nat] : IsIteration(it, SumStep(S), 0, points)
  BY <1>2, IterationExists, Zenon
<1>4. \A t \in SUBSET (DOMAIN points) :
          t # {} => Max(t) \in t /\ points[Max(t)] \in Buckets(S)
  <2>1. DOMAIN points = 1 .. Len(points) /\ Len(points) \in Nat
    BY LenProperties
  <2> QED
    BY <2>1, MaxOfPositions, ElementOfSeq
<1>5. it = Body(it)
  <2>1. ASSUME NEW t \in SUBSET (DOMAIN points)
        PROVE  it[t] = IF t = {} THEN 0 ELSE it[t \ {Max(t)}] + points[Max(t)].frequency
    <3>1. CASE t = {}
      BY <1>3, <3>1 DEF IsIteration
    <3>2. CASE t # {}
      <4>1. it[t] = SumStep(S)[<<it[t \ {Max(t)}], points[Max(t)]>>]
        BY <1>3, <3>2 DEF IsIteration
      <4>2. it[t \ {Max(t)}] \in Nat /\ points[Max(t)] \in Buckets(S)
        BY <1>3, <1>4, <3>2
      <4> QED
        BY <3>2, <4>1, <4>2 DEF SumStep
    <3> QED
      BY <3>1, <3>2
  <2> QED
    BY <1>3, <2>1
<1>6. ot = Body(ot)
  BY <1>5, Zenon
<1> HIDE DEF ot
<1>7. ot[{}] = 0
  BY <1>6
<1>8. ASSUME NEW k \in 1 .. Len(points), ot[1 .. k - 1] \in Nat
      PROVE  ot[1 .. k] = SumStep(S)[<<ot[1 .. k - 1], points[k]>>]
  <2>1. /\ 1 .. k \in SUBSET (DOMAIN points) /\ points[k] \in Buckets(S)
        /\ k \in Nat \ {0} /\ 1 .. k # {}
    <3>1. DOMAIN points = 1 .. Len(points) /\ Len(points) \in Nat
      BY LenProperties
    <3>2. points[k] \in Buckets(S)
      BY ElementOfSeq
    <3>3. 1 .. k \in SUBSET (1 .. Len(points))
      BY <3>1
    <3>4. k \in Nat \ {0} /\ 1 \in 1 .. k
      BY <3>1
    <3> QED
      BY <3>1, <3>2, <3>3, <3>4, Zenon
  <2>2. Max(1 .. k) = k /\ (1 .. k) \ {k} = 1 .. k - 1
    BY <2>1, MaxOfInterval
  <2>3. ot[1 .. k] = ot[1 .. k - 1] + points[k].frequency
    BY <1>6, <2>1, <2>2
  <2> QED
    BY <1>8, <2>1, <2>3 DEF SumStep
<1>9. IteratesPrefixes(ot, Nat, Buckets(S), SumStep(S), 0, points)
  BY <1>2, <1>7, <1>8 DEF IteratesPrefixes
<1>10. ot[DOMAIN points] = Fold(SumStep(S), 0, points)
  BY <1>9, IterationIsFold
<1> QED
  BY <1>1, <1>2, <1>10, Zenon

\* A histogram of the sorted sample summarises it.
LEMMA HistogramSummarises ==
    ASSUME NEW type \in DataTypes, NEW sorted \in Seq(Comparables(type)), sorted # <<>>,
           NonDecreasing(sorted), NEW total \in Nat, Len(sorted) <= total,
           NEW sample, ToSet(sample) = ToSet(sorted), Len(sample) = Len(sorted)
    PROVE  Summarises(Histogram(sorted, total), sample, total)
<1>1. PICK n \in Nat \ {0} : n = Len(sorted)
  BY EmptySeq, LenProperties
<1>2. PICK size \in Nat \ {0}, m \in Nat \ {0} :
          /\ size = ChunkSize(n) /\ m = (n + size - 1) \div size
          /\ m <= max_histogram_buckets
          /\ Upto(0, size, n) = 0 /\ Upto(m, size, n) = n
          /\ \A j \in 1 .. m : Upto(j - 1, size, n) = (j - 1) * size /\ (j - 1) * size < n
  BY Chunks
<1>3. PICK points : points = Histogram(sorted, total)
  OBVIOUS
<1>4. PICK up : up = [j \in 0 .. m |-> Upto(j, size, n)]
  OBVIOUS
<1>5. /\ up[0] = 0 /\ up[m] = n
      /\ \A j \in 1 .. m : j - 1 \in 0 .. m /\ up[j - 1] = (j - 1) * size
  <2>1. 0 \in 0 .. m /\ m \in 0 .. m /\ \A j \in 1 .. m : j - 1 \in 0 .. m
    OBVIOUS
  <2> QED
    BY <1>2, <1>4, <2>1
<1>6. \A j \in 1 .. m : /\ up[j - 1] \in Nat /\ up[j] \in Nat
                        /\ up[j - 1] < up[j] /\ up[j] <= n
  <2> SUFFICES ASSUME NEW j \in 1 .. m
               PROVE  /\ up[j - 1] \in Nat /\ up[j] \in Nat
                      /\ up[j - 1] < up[j] /\ up[j] <= n
    OBVIOUS
  <2>1. PICK k \in Nat : k = j - 1
    OBVIOUS
  <2>2. PICK p \in Nat : p = k * size
    OBVIOUS
  <2>3. up[j - 1] = p /\ p < n
    BY <1>2, <1>5, <2>1, <2>2
  <2>4. j = k + 1 /\ j \in 0 .. m
    BY <2>1
  <2>5. j * size = p + size
    BY <2>2, <2>4
  <2>6. up[j] = IF p + size <= n THEN p + size ELSE n
    BY <1>4, <2>4, <2>5 DEF Upto
  <2> QED
    BY <2>3, <2>6
<1>7. \A j, k \in 1 .. m : j < k => up[j] <= up[k - 1]
  <2> SUFFICES ASSUME NEW j \in 1 .. m, NEW k \in 1 .. m, j < k PROVE up[j] <= up[k - 1]
    OBVIOUS
  <2>1. PICK e \in Nat : k - 1 = j + e
    <3>1. k - 1 - j \in Nat /\ k - 1 = j + (k - 1 - j)
      OBVIOUS
    <3> QED
      BY <3>1
  <2>2. up[k - 1] = j * size + e * size
    <3>1. (j + e) * size = j * size + e * size
      OBVIOUS
    <3> QED
      BY <1>5, <2>1, <3>1
  <2>3. j * size \in Nat /\ e * size \in Nat
    OBVIOUS
  <2>4. up[j] <= j * size
    <3>1. up[j] = IF j * size <= n THEN j * size ELSE n
      <4>1. j \in 0 .. m
        OBVIOUS
      <4> QED
        BY <1>4, <4>1 DEF Upto
    <3> QED
      BY <2>3, <3>1
  <2>5. up[j] \in Nat
    BY <1>6
  <2> QED
    BY <2>2, <2>3, <2>4, <2>5
<1>8. /\ DOMAIN points = 1 .. m
      /\ \A j \in 1 .. m :
             points[j] = [lower_bound |-> sorted[up[j - 1] + 1], upper_bound |-> sorted[up[j]],
                          frequency |-> ((up[j] - up[j - 1]) * total) \div n]
  <2>1. /\ DOMAIN points = 1 .. m
        /\ \A j \in 1 .. m :
               points[j] = [lower_bound |-> sorted[(j - 1) * size + 1],
                            upper_bound |-> sorted[Upto(j, size, n)],
                            frequency |-> ((Upto(j, size, n) - (j - 1) * size) * total) \div n]
    <3>1. size = ChunkSize(n) /\ m = (n + size - 1) \div size
      BY <1>2
    <3>2. BucketsAreChunks(Histogram(sorted, total), sorted, n, size, m, total)
      BY <1>1, <3>1, HistogramIs
    <3> QED
      BY <1>3, <3>2, Zenon DEF BucketsAreChunks
  <2>2. \A j \in 1 .. m : up[j] = Upto(j, size, n)
    BY <1>4
  <2> QED
    BY <1>5, <2>1, <2>2
<1>9. \A j \in 1 .. m : up[j - 1] + 1 \in 1 .. n /\ up[j] \in 1 .. n /\ up[j - 1] + 1 <= up[j]
  BY <1>6
<1>10. /\ \A i \in 1 .. n : sorted[i] \in Comparables(type)
       /\ DOMAIN sorted = 1 .. n
       /\ \A i, j \in 1 .. n : i <= j => NotGreater(sorted[i], sorted[j])
  <2>1. (\A i \in 1 .. n : sorted[i] \in Comparables(type)) /\ DOMAIN sorted = 1 .. n
    BY <1>1, LenProperties, ElementOfSeq
  <2>2. \A i \in 1 .. n : NotGreater(sorted[i], sorted[i])
    BY <2>1, CmpOrder
  <2>3. \A i, j \in 1 .. n : i < j => NotGreater(sorted[i], sorted[j])
    BY <2>1 DEF NonDecreasing, NotGreater
  <2>4. \A i, j \in 1 .. n : i <= j => i < j \/ i = j
    OBVIOUS
  <2> QED
    BY <2>1, <2>2, <2>3, <2>4
<1>11. \A j \in 1 .. m : /\ points[j].lower_bound = sorted[up[j - 1] + 1]
                         /\ points[j].upper_bound = sorted[up[j]]
                         /\ points[j].frequency = ((up[j] - up[j - 1]) * total) \div n
  BY <1>8
<1>12. \A j \in DOMAIN points :
           /\ partial_cmp(points[j].lower_bound, points[j].upper_bound) # "Greater"
           /\ \A k \in DOMAIN points :
                  j < k => partial_cmp(points[j].upper_bound, points[k].lower_bound) # "Greater"
  <2>1. ASSUME NEW j \in 1 .. m, NEW k \in 1 .. m, j < k
        PROVE  NotGreater(sorted[up[j]], sorted[up[k - 1] + 1])
    <3>1. up[j] \in 1 .. n /\ up[k - 1] + 1 \in 1 .. n
      BY <1>9
    <3>2. up[j] <= up[k - 1] /\ up[j] \in Nat /\ up[k - 1] \in Nat
      BY <1>6, <1>7, <2>1
    <3>3. up[j] <= up[k - 1] + 1
      BY <3>2
    <3> QED
      BY <1>10, <3>1, <3>3
  <2>2. ASSUME NEW j \in 1 .. m PROVE NotGreater(sorted[up[j - 1] + 1], sorted[up[j]])
    BY <1>9, <1>10
  <2> QED
    BY <1>8, <1>11, <2>1, <2>2 DEF NotGreater
<1>13. ASSUME NEW x \in ToSet(sample)
       PROVE  \E j \in DOMAIN points : /\ partial_cmp(x, points[j].lower_bound) # "Less"
                                       /\ partial_cmp(x, points[j].upper_bound) # "Greater"
  <2>1. PICK i \in 1 .. n : x = sorted[i]
    <3>1. ToSet(sorted) = {sorted[i] : i \in 1 .. n}
      BY <1>10, Zenon DEF ToSet
    <3> QED
      BY <3>1
  <2>2. PICK j \in 1 .. m : (j - 1) * size < i /\ i <= Upto(j, size, n)
    <3>1. n <= m * size
      <4>1. Upto(m, size, n) = n /\ m * size \in Nat
        BY <1>2
      <4> QED
        BY <4>1 DEF Upto
    <3> QED
      BY <3>1, ChunkOf
  <2>3. up[j - 1] < i /\ i <= up[j]
    BY <1>4, <1>5, <2>2
  <2>4. up[j - 1] + 1 <= i /\ up[j - 1] + 1 \in 1 .. n /\ up[j] \in 1 .. n
    BY <1>6, <1>9, <2>3
  <2>5. NotGreater(sorted[up[j - 1] + 1], x) /\ NotGreater(x, sorted[up[j]])
    BY <1>10, <2>1, <2>3, <2>4
  <2>6. /\ x \in Comparables(type) /\ sorted[up[j - 1] + 1] \in Comparables(type)
    BY <1>10, <2>1, <2>4
  <2>7. partial_cmp(x, sorted[up[j - 1] + 1]) # "Less"
    BY <2>5, <2>6, CmpOrder
  <2> QED
    BY <1>8, <1>11, <2>5, <2>7 DEF NotGreater
<1>14. points \in Seq(Buckets(Comparables(type))) /\ Len(points) = m
  <2>1. ASSUME NEW j \in 1 .. m PROVE points[j] \in Buckets(Comparables(type))
    <3>1. PICK l, u, f : /\ l = sorted[up[j - 1] + 1] /\ u = sorted[up[j]]
                         /\ f = ((up[j] - up[j - 1]) * total) \div n
      OBVIOUS
    <3>2. l \in Comparables(type) /\ u \in Comparables(type)
      BY <1>9, <1>10, <3>1
    <3>3. f \in Nat
      <4>1. PICK d \in Nat : d = up[j] - up[j - 1]
        BY <1>6
      <4>2. d * total \in Nat
        OBVIOUS
      <4>3. (d * total) \div n \in Nat
        BY <4>2, Division
      <4> QED
        BY <3>1, <4>1, <4>3
    <3>4. points[j] = [lower_bound |-> l, upper_bound |-> u, frequency |-> f]
      BY <1>8, <3>1
    <3> QED
      BY <3>2, <3>3, <3>4 DEF Buckets
  <2>2. points = [j \in 1 .. m |-> points[j]]
    <3>1. points = [j \in 1 .. (n + size - 1) \div size |-> points[j]]
      BY <1>1, <1>2, <1>3, Zenon DEF Histogram
    <3> QED
      BY <1>2, <3>1
  <2> QED
    BY <2>1, <2>2
<1>15. TotalOf(points) <= total /\ (total = n => TotalOf(points) = total)
  <2> DEFINE Op == SumStep(Comparables(type))
             Low == [k \in 0 .. m |-> {v \in Nat : v * n <= up[k] * total}]
             Whole == [k \in 0 .. m |-> {v \in Nat : v = up[k]}]
  <2>1. TotalOf(points) = Fold(Op, 0, points)
    BY <1>14, SumIsFold
  <2>2. FoldTypes(Nat, Buckets(Comparables(type)), Op, 0, points)
    BY <1>14, SumIsFold
  <2>3. ASSUME NEW j \in 1 .. m
        PROVE  \E d \in Nat, f \in Nat : /\ d = up[j] - up[j - 1] /\ up[j] = up[j - 1] + d
                                         /\ points[j].frequency = f
                                         /\ f = (d * total) \div n /\ f * n <= d * total
    <3>1. PICK d \in Nat : d = up[j] - up[j - 1] /\ up[j] = up[j - 1] + d
      BY <1>6
    <3>2. PICK e \in Nat : e = d * total
      OBVIOUS
    <3>3. PICK f \in Nat : f = e \div n /\ f * n <= e
      <4>1. e \div n \in Nat /\ e % n \in 0 .. n - 1 /\ e = n * (e \div n) + (e % n)
        BY Division
      <4>2. PICK f, r : f = e \div n /\ r = e % n
        OBVIOUS
      <4>3. f \in Nat /\ r \in Nat /\ e = n * f + r /\ n * f = f * n /\ f * n \in Nat
        BY <4>1, <4>2
      <4>4. f * n <= e
        BY <4>3
      <4> QED
        BY <4>2, <4>3, <4>4, Zenon
    <3> QED
      BY <1>11, <3>1, <3>2, <3>3
  <2>4. \A j \in 1 .. m : \A v \in Nat : Op[<<v, points[j]>>] = v + points[j].frequency
    <3>1. \A j \in 1 .. m : points[j] \in Buckets(Comparables(type))
      BY <1>14, ElementOfSeq
    <3> QED
      BY <3>1 DEF SumStep
  <2> HIDE DEF Op
  <2>5. TotalOf(points) \in Low[m]
    <3>1. 0 \in Low[0]
      BY <1>5
    <3>2. ASSUME NEW j \in 1 .. m, NEW v \in Nat, v \in Low[j - 1]
          PROVE  Op[<<v, points[j]>>] \in Low[j]
      <4>1. PICK d \in Nat, f \in Nat : /\ up[j] = up[j - 1] + d /\ points[j].frequency = f
                                        /\ f * n <= d * total
        BY <2>3
      <4>2. PICK u \in Nat : u = up[j - 1]
        BY <1>6
      <4>3. v * n <= u * total
        BY <1>5, <3>2, <4>2
      <4>4. (v + f) * n = v * n + f * n /\ (u + d) * total = u * total + d * total
        OBVIOUS
      <4>5. v * n \in Nat /\ f * n \in Nat /\ u * total \in Nat /\ d * total \in Nat
        OBVIOUS
      <4>6. (v + f) * n <= (u + d) * total
        BY <4>1, <4>3, <4>4, <4>5
      <4>7. v + f \in Low[j]
        <5>1. PICK w \in Nat, x \in Nat : w = v + f /\ x = u + d /\ w * n <= x * total
          BY <4>6
        <5>2. up[j] = x /\ j \in 0 .. m
          BY <4>1, <4>2, <5>1
        <5>3. Low[j] = {o \in Nat : o * n <= x * total}
          BY <5>2
        <5> QED
          BY <5>1, <5>3
      <4> QED
        BY <2>4, <4>1, <4>7
    <3> HIDE DEF Low
    <3>3. \A k \in 1 .. Len(points) : \A v \in Nat :
              v \in Low[k - 1] => Op[<<v, points[k]>>] \in Low[k]
      BY <1>14, <3>2
    <3>4. Fold(Op, 0, points) \in Low[Len(points)]
      BY <2>2, <3>1, <3>3, FoldInvariant
    <3> QED
      BY <1>14, <2>1, <3>4
  <2>6. ASSUME total = n PROVE TotalOf(points) \in Whole[m]
    <3>1. 0 \in Whole[0]
      BY <1>5
    <3>2. ASSUME NEW j \in 1 .. m, NEW v \in Nat, v \in Whole[j - 1]
          PROVE  Op[<<v, points[j]>>] \in Whole[j]
      <4>1. PICK d \in Nat, f \in Nat : /\ up[j] = up[j - 1] + d /\ points[j].frequency = f
                                        /\ f = (d * total) \div n
        BY <2>3
      <4>2. f = d
        <5>1. (d * n) \div n = d
          <6>1. PICK e \in Nat : e = d * n
            OBVIOUS
          <6>2. e = n * d + 0
            BY <6>1
          <6>3. e \div n = d
            BY <6>2, DivisionIs
          <6> QED
            BY <6>1, <6>3
        <5> QED
          BY <2>6, <4>1, <5>1
      <4>3. v = up[j - 1]
        BY <1>5, <3>2
      <4>4. v + f \in Whole[j]
        <5>1. j \in 0 .. m /\ v + f \in Nat /\ v + f = up[j]
          BY <4>1, <4>2, <4>3
        <5> QED
          BY <5>1
      <4> QED
        BY <2>4, <4>1, <4>4
    <3> HIDE DEF Whole
    <3>3. \A k \in 1 .. Len(points) : \A v \in Nat :
              v \in Whole[k - 1] => Op[<<v, points[k]>>] \in Whole[k]
      BY <1>14, <3>2
    <3>4. Fold(Op, 0, points) \in Whole[Len(points)]
      BY <2>2, <3>1, <3>3, FoldInvariant
    <3> QED
      BY <1>14, <2>1, <3>4
  <2>7. TotalOf(points) <= total
    <3>1. PICK v \in Nat : v = TotalOf(points) /\ v * n <= n * total
      BY <1>5, <2>5
    <3> SUFFICES ASSUME total < v PROVE FALSE
      BY <3>1
    <3>2. PICK e \in Nat : v = total + 1 + e
      <4>1. v - total - 1 \in Nat /\ v = total + 1 + (v - total - 1)
        OBVIOUS
      <4> QED
        BY <4>1
    <3>3. v * n = n * total + n + e * n
      BY <3>2
    <3>4. n * total \in Nat /\ e * n \in Nat
      OBVIOUS
    <3> QED
      BY <3>1, <3>3, <3>4
  <2>8. ASSUME total = n PROVE TotalOf(points) = total
    BY <1>5, <2>6, <2>8
  <2> QED
    BY <2>7, <2>8
<1>16. Len(points) \in 1 .. max_histogram_buckets
  BY <1>2, <1>14, StatsConfigAssumption
<1> QED
  BY <1>1, <1>3, <1>12, <1>13, <1>15, <1>16, Zenon DEF Summarises, TotalOf
-----------------------------------------------------------------------------
(* The histograms of a table.                                                *)

\* The sample is of the type of the column, is not larger than the column, and has
\* something of a column that has something.
Sampled(s, type) ==
    /\ IsStats(s) /\ s.total_count \in Nat /\ s.reservoir \in Seq(Data(type))
    /\ Len(s.reservoir) <= s.total_count
    /\ s.total_count # 0 => s.reservoir # <<>>

\* So is the sample of no value.
LEMMA NothingSampled ==
    ASSUME NEW type
    PROVE  Sampled(StatsGenerator, type)
<1>1. PICK s : s = StatsGenerator
  OBVIOUS
<1>2. IsStats(s) /\ s.total_count = 0 /\ s.reservoir = <<>>
  BY <1>1 DEF StatsGenerator, IsStats
<1>3. <<>> \in Seq(Data(type)) /\ Len(<<>>) = 0
  OBVIOUS
<1> QED
  BY <1>1, <1>2, <1>3 DEF Sampled

\* And the sample of one value more, which it takes, puts in the place of another
\* one, or leaves aside.
LEMMA SampleFollows ==
    ASSUME NEW type, NEW s, Sampled(s, type), NEW x \in Data(type), NEW draw
    PROVE  Sampled(update(s, x, draw), type)
<1>1. PICK t : t = update(s, x, draw)
  OBVIOUS
<1>2. /\ IsStats(t) /\ t.total_count = s.total_count + 1
      /\ t.reservoir = Sample(s, x, draw)
  <2>1. IsStats(s)
    BY DEF Sampled
  <2> QED
    BY <1>1, <2>1, UpdatedStats
<1>3. PICK r : r = s.reservoir
  OBVIOUS
<1>4. PICK n \in Nat, total \in Nat : n = Len(r) /\ total = s.total_count /\ n <= total
  BY <1>3, LenProperties DEF Sampled
<1>5. r \in Seq(Data(type))
  BY <1>3 DEF Sampled
<1>6. t.reservoir \in Seq(Data(type)) /\ Len(t.reservoir) \in 1 .. n + 1
  <2>1. CASE n < reservoir_capacity
    <3>1. t.reservoir = Append(r, x)
      BY <1>2, <1>3, <1>4, <2>1 DEF Sample
    <3>2. Append(r, x) \in Seq(Data(type)) /\ Len(Append(r, x)) = n + 1
      BY <1>4, <1>5, AppendProperties
    <3> QED
      BY <3>1, <3>2
  <2>2. CASE ~(n < reservoir_capacity)
    <3>1. n \in 1 .. n + 1
      BY <2>2, StatsConfigAssumption
    <3>2. CASE draw < reservoir_capacity
      <4>1. t.reservoir = [r EXCEPT ![draw + 1] = x]
        BY <1>2, <1>3, <1>4, <2>2, <3>2 DEF Sample
      <4>2. [r EXCEPT ![draw + 1] = x] \in Seq(Data(type)) /\ Len([r EXCEPT ![draw + 1] = x]) = n
        <5>1. PICK k : k = draw + 1
          OBVIOUS
        <5>2. r \in [1 .. n -> Data(type)]
          BY <1>4, <1>5, LenProperties, ElementOfSeq
        <5>3. PICK q : q = [r EXCEPT ![k] = x]
          OBVIOUS
        <5>4. q \in [1 .. n -> Data(type)]
          BY <5>2, <5>3
        <5>5. q \in Seq(Data(type)) /\ Len(q) = n
          BY <5>4
        <5> QED
          BY <5>1, <5>3, <5>5
      <4> QED
        BY <3>1, <4>1, <4>2
    <3>3. CASE ~(draw < reservoir_capacity)
      <4>1. t.reservoir = r
        BY <1>2, <1>3, <1>4, <2>2, <3>3 DEF Sample
      <4> QED
        BY <1>4, <1>5, <3>1, <4>1
    <3> QED
      BY <3>2, <3>3
  <2> QED
    BY <2>1, <2>2
<1>7. t.reservoir # <<>>
  <2>1. Len(<<>>) = 0
    OBVIOUS
  <2> QED
    BY <1>4, <1>6, <2>1
<1> QED
  BY <1>1, <1>2, <1>4, <1>6, <1>7 DEF Sampled

\* A sorting has the values of the sample, in order when they have one.
LEMMA SortingFacts ==
    ASSUME NEW type \in DataTypes, NEW sample \in Seq(Data(type)), Comparable(sample),
           NEW sorted \in Sortings(sample)
    PROVE  /\ sorted \in Seq(Comparables(type)) /\ Len(sorted) = Len(sample)
           /\ ToSet(sorted) = ToSet(sample) /\ NonDecreasing(sorted)
<1>1. PICK n \in Nat : n = Len(sample) /\ DOMAIN sample = 1 .. n
  BY LenProperties
<1>2. PICK p \in Bijection(1 .. n, 1 .. n) :
          /\ sorted = [i \in 1 .. n |-> sample[p[i]]]
          /\ Comparable(sample) => NonDecreasing(sorted)
  BY <1>1, Zenon DEF Sortings
<1>3. /\ p \in [1 .. n -> 1 .. n]
      /\ \A t \in 1 .. n : \E i \in 1 .. n : p[i] = t
  BY DEF Bijection, Surjection, Injection
<1>4. \A i \in 1 .. n : sample[i] \in Comparables(type)
  <2>1. \A i \in 1 .. n : sample[i] \in Data(type)
    BY <1>1, ElementOfSeq
  <2> QED
    BY <1>1, <2>1 DEF Comparables, Comparable
<1>5. sorted \in Seq(Comparables(type)) /\ Len(sorted) = n
  <2>1. \A i \in 1 .. n : sorted[i] = sample[p[i]] /\ p[i] \in 1 .. n
    BY <1>2, <1>3
  <2>2. sorted \in [1 .. n -> Comparables(type)]
    BY <1>2, <1>4, <2>1
  <2> QED
    BY <2>2
<1>6. ToSet(sorted) = ToSet(sample)
  <2>1. DOMAIN sorted = 1 .. n
    BY <1>2
  <2>2. ToSet(sorted) = {sorted[i] : i \in 1 .. n} /\ ToSet(sample) = {sample[i] : i \in 1 .. n}
    BY <1>1, <2>1, Zenon DEF ToSet
  <2>3. \A i \in 1 .. n : sorted[i] = sample[p[i]] /\ p[i] \in 1 .. n
    BY <1>2, <1>3
  <2>4. \A t \in 1 .. n : \E i \in 1 .. n : sample[t] = sorted[i]
    <3> SUFFICES ASSUME NEW t \in 1 .. n PROVE \E i \in 1 .. n : sample[t] = sorted[i]
      OBVIOUS
    <3>1. PICK i \in 1 .. n : p[i] = t
      BY <1>3
    <3> QED
      BY <2>3, <3>1
  <2>5. \A v \in ToSet(sorted) : v \in ToSet(sample)
    <3> SUFFICES ASSUME NEW i \in 1 .. n PROVE sorted[i] \in ToSet(sample)
      BY <2>2
    <3>1. sorted[i] = sample[p[i]] /\ p[i] \in 1 .. n
      BY <2>3
    <3> QED
      BY <2>2, <3>1
  <2>6. \A v \in ToSet(sample) : v \in ToSet(sorted)
    <3> SUFFICES ASSUME NEW i \in 1 .. n PROVE sample[i] \in ToSet(sorted)
      BY <2>2
    <3>1. PICK t \in 1 .. n : sample[i] = sorted[t]
      BY <2>4
    <3> QED
      BY <2>2, <3>1
  <2> QED
    BY <2>5, <2>6
<1> QED
  BY <1>1, <1>2, <1>5, <1>6

\* The histogram of the statistics is that of the sorted sample.
LEMMA BuiltHistogram ==
    ASSUME NEW s, NEW sorted, NEW count, NEW k \in DOMAIN build(s, sorted, count),
           build(s, sorted, count)[k].kind = "Histogram"
    PROVE  /\ s.total_count # 0
           /\ build(s, sorted, count)[k].frequency_points = Histogram(sorted, s.total_count)
<1>1. PICK h : h = Histogram(sorted, s.total_count)
  OBVIOUS
<1>2. PICK o, r, c, d, g :
          /\ o = [kind |-> "IsPhysicallyOrdered"]
          /\ r = [kind |-> "Range", lower_bound |-> s.lower_bound[1],
                  upper_bound |-> s.upper_bound[1]]
          /\ c = [kind |-> "Cardinality", count |-> count]
          /\ d = [kind |-> "Density", of |-> Min({count, s.total_count}),
                  among |-> s.total_count]
          /\ g = [kind |-> "Histogram", frequency_points |-> h]
  OBVIOUS
<1>3. PICK T : T = {o, r, c, d, g}
  OBVIOUS
<1>4. s.total_count # 0
  <2> SUFFICES ASSUME s.total_count = 0 PROVE FALSE
    OBVIOUS
  <2>1. build(s, sorted, count) = <<>>
    BY Zenon DEF build
  <2> QED
    BY <2>1
<1>5. PICK w, x, y, z :
          /\ w \in {<<>>, <<o>>} /\ x \in {<<>>, <<r>>} /\ y = <<c, d>> /\ z \in {<<>>, <<g>>}
          /\ build(s, sorted, count) = w \o x \o y \o z
  <2>1. PICK w, x, y, z :
            /\ w = IF s.is_physically_ordered THEN <<o>> ELSE <<>>
            /\ x = IF s.last_element[1].type = "String" THEN <<>> ELSE <<r>>
            /\ y = <<c, d>>
            /\ z = IF s.last_element[1].type = "String" /\ count > max_string_unique_for_histogram
                   THEN <<>> ELSE <<g>>
    OBVIOUS
  <2>2. build(s, sorted, count) = w \o x \o y \o z
    BY <1>1, <1>2, <1>4, <2>1, Zenon DEF build
  <2> QED
    BY <2>1, <2>2
<1>6. build(s, sorted, count) \in Seq(T)
  <2>1. w \in Seq(T) /\ x \in Seq(T) /\ y \in Seq(T) /\ z \in Seq(T)
    <3>1. \A e \in T : <<e>> \in Seq(T)
      OBVIOUS
    <3>2. \A e, f \in T : <<e, f>> \in Seq(T)
      OBVIOUS
    <3>3. <<>> \in Seq(T)
      OBVIOUS
    <3>4. o \in T /\ r \in T /\ c \in T /\ d \in T /\ g \in T
      BY <1>3
    <3>5. w \in Seq(T) /\ x \in Seq(T) /\ z \in Seq(T)
      BY <1>5, <3>1, <3>3, <3>4, Zenon
    <3>6. y \in Seq(T)
      BY <1>5, <3>2, <3>4
    <3> QED
      BY <3>5, <3>6
  <2>2. PICK wx : wx = w \o x
    OBVIOUS
  <2>3. wx \in Seq(T)
    BY <2>1, <2>2, ConcatProperties
  <2>4. PICK wxy : wxy = wx \o y
    OBVIOUS
  <2>5. wxy \in Seq(T)
    BY <2>1, <2>3, <2>4, ConcatProperties
  <2>6. wxy \o z \in Seq(T)
    BY <2>1, <2>5, ConcatProperties
  <2> QED
    BY <1>5, <2>2, <2>4, <2>6
<1>7. PICK e \in T : e = build(s, sorted, count)[k]
  BY <1>6, LenProperties, ElementOfSeq
<1>8. e = g
  BY <1>2, <1>3, <1>7
<1> QED
  BY <1>1, <1>2, <1>4, <1>7, <1>8
\* The samples of the columns, and the histograms that were built of them.
SampleInv ==
    /\ pass \in {"Disk", "Stats"} => column_specs = <<>>
    /\ \A c \in DOMAIN Columns : Sampled(stats[c], Columns[c])
    /\ HistogramCoversSample

\* Nothing is built of nothing.
LEMMA SampleInvInit ==
    ASSUME Init
    PROVE  SampleInv
<1>1. column_specs = <<>> /\ \A c \in DOMAIN Columns : stats[c] = StatsGenerator
  BY DEF Init
<1>2. \A c \in DOMAIN Columns : Sampled(stats[c], Columns[c])
  BY <1>1, NothingSampled
<1>3. DOMAIN column_specs = {}
  BY <1>1
<1>4. HistogramCoversSample
  BY <1>3, Zenon DEF HistogramCoversSample
<1> QED
  BY <1>1, <1>2, <1>4 DEF SampleInv

\* While a column grows, no histogram is built.
LEMMA SamplesRow ==
    ASSUME PassInv, SampleInv, UpdateStats
    PROVE  SampleInv'
<1>1. /\ pass = "Stats" /\ NextIsRow /\ column_specs' = column_specs
  BY DEF UpdateStats
<1>2. PICK draws :
          stats' = [c \in DOMAIN Columns |-> update(stats[c], TheRow.cols[c], draws[c])]
  BY Zenon DEF UpdateStats
<1>3. LinesTaken
  BY DEF PassInv
<1>4. /\ line_no \in Nat /\ line_no + 1 \in 1 .. Len(lines)
      /\ \A n \in 1 .. line_no + 1 : Good(n)
      /\ TheRow = Row(line_no + 1)
  BY <1>1, <1>3, TakesLine
<1>5. PICK n \in 1 .. Len(lines) : n = line_no + 1 /\ Good(n)
  BY <1>4
<1>6. TheRow.cols = Elements(lines[n])
  BY <1>4, <1>5 DEF Row
<1>7. ASSUME NEW c \in DOMAIN Columns PROVE Sampled(stats'[c], Columns[c])
  <2>1. PICK s, x, draw : s = stats[c] /\ x = Elements(lines[n])[c] /\ draw = draws[c]
    OBVIOUS
  <2>2. stats'[c] = update(s, x, draw)
    BY <1>2, <1>6, <2>1
  <2>3. Sampled(s, Columns[c])
    BY <2>1 DEF SampleInv
  <2>4. x \in Data(Columns[c])
    BY <1>3, <1>5, <2>1, ElementTyped DEF LinesTaken
  <2> QED
    BY <2>2, <2>3, <2>4, SampleFollows
<1>8. column_specs' = <<>>
  BY <1>1 DEF SampleInv
<1>9. DOMAIN column_specs' = {}
  BY <1>8
<1>10. HistogramCoversSample'
  BY <1>9, Zenon DEF HistogramCoversSample
<1> QED
  BY <1>7, <1>8, <1>10, Zenon DEF SampleInv, Sampled, IsStats

\* What is built summarises the samples.
LEMMA BuildsHistograms ==
    ASSUME PassInv, SampleInv, BuildStats
    PROVE  SampleInv'
<1>1. pass' = "Sqlite" /\ stats' = stats
  BY DEF BuildStats, Begin
<1>2. PICK sorted, count :
          /\ \A c \in DOMAIN Columns : sorted[c] \in Sortings(stats[c].reservoir)
          /\ column_specs' = [c \in DOMAIN Columns |-> build(stats[c], sorted[c], count[c])]
  BY Zenon DEF BuildStats
<1>3. ASSUME NEW c \in DOMAIN Columns, NEW k \in DOMAIN column_specs'[c],
             column_specs'[c][k].kind = "Histogram", Comparable(stats[c].reservoir)
      PROVE  Summarises(column_specs'[c][k].frequency_points, stats[c].reservoir,
                        stats[c].total_count)
  <2>1. PICK s, t, u : s = stats[c] /\ t = sorted[c] /\ u = count[c]
    OBVIOUS
  <2>2. column_specs'[c] = build(s, t, u)
    BY <1>2, <2>1
  <2>3. s.total_count # 0 /\ column_specs'[c][k].frequency_points = Histogram(t, s.total_count)
    BY <1>3, <2>2, BuiltHistogram
  <2>4. Sampled(s, Columns[c]) /\ Columns[c] \in DataTypes
    <3>1. Columns[c] \in DataTypes
      BY GeneratorAssumption, LenProperties, ElementOfSeq
    <3> QED
      BY <2>1, <3>1 DEF SampleInv
  <2>5. PICK sample, total : sample = s.reservoir /\ total = s.total_count
    OBVIOUS
  <2>6. /\ total \in Nat /\ sample \in Seq(Data(Columns[c])) /\ Len(sample) <= total
        /\ sample # <<>>
    BY <2>3, <2>4, <2>5 DEF Sampled
  <2>7. t \in Sortings(sample) /\ Comparable(sample)
    BY <1>2, <1>3, <2>1, <2>5
  <2>8. /\ t \in Seq(Comparables(Columns[c])) /\ Len(t) = Len(sample)
        /\ ToSet(t) = ToSet(sample) /\ NonDecreasing(t)
    BY <2>4, <2>6, <2>7, SortingFacts
  <2>9. t # <<>> /\ Len(t) <= total
    BY <2>6, <2>8, EmptySeq, LenProperties
  <2>10. Summarises(Histogram(t, total), sample, total)
    BY <2>4, <2>6, <2>8, <2>9, HistogramSummarises
  <2> QED
    BY <2>1, <2>3, <2>5, <2>10
<1>4. DOMAIN column_specs' = DOMAIN Columns
  BY <1>2
<1>5. HistogramCoversSample'
  BY <1>1, <1>3, <1>4, Zenon DEF HistogramCoversSample
<1> QED
  BY <1>1, <1>5 DEF SampleInv, Sampled, IsStats

\* The other steps leave both as they are.
LEMMA SamplesStay ==
    ASSUME SampleInv, UNCHANGED <<stats, column_specs>>,
           pass' \in {"Disk", "Stats"} => pass \in {"Disk", "Stats"}
    PROVE  SampleInv'
<1>1. HistogramCoversSample'
  BY DEF SampleInv, HistogramCoversSample
<1> QED
  BY <1>1 DEF SampleInv, Sampled, IsStats

\* The histogram of a column summarises the sample that was taken of it, for every
\* table, every size of the sample and number of buckets, and every choice of the
\* random numbers, unless there is a NaN in the sample.
THEOREM HistogramAlwaysCovers == Spec => []HistogramCoversSample
<1>1. Init => SampleInv
  BY SampleInvInit
<1>2. PassInv /\ SampleInv /\ [Next]_vars => SampleInv'
  <2> SUFFICES ASSUME PassInv, SampleInv, [Next]_vars PROVE SampleInv'
    OBVIOUS
  <2>1. ASSUME Panic \/ SaveRow \/ CloseFile \/ InsertRow \/ CloseSqlite \/ UNCHANGED vars
        PROVE  SampleInv'
    <3>1. UNCHANGED <<stats, column_specs>>
      BY <2>1 DEF Panic, SaveRow, CloseFile, InsertRow, CloseSqlite, vars, stats_vars
    <3>2. pass' \in {"Disk", "Stats"} => pass \in {"Disk", "Stats"}
      BY <2>1 DEF Panic, SaveRow, CloseFile, InsertRow, CloseSqlite, Execute, vars, Begin
    <3> QED
      BY <3>1, <3>2, SamplesStay
  <2> QED
    BY <2>1, SamplesRow, BuildsHistograms, Zenon DEF Next, Stopped
<1>3. SampleInv => HistogramCoversSample
  BY DEF SampleInv
<1> QED
  BY <1>1, <1>2, <1>3, PassInvariance, PTL DEF Spec
-----------------------------------------------------------------------------
(* What the sort is promised of its order.                                   *)

\* A row without a NaN.
ComparableRow(x, types) == \A i \in DOMAIN types : x[i] \in Comparables(types[i])

\* The order of a column: not both ways, and what is between two values is after the
\* first or before the second.
LEMMA ColumnIsOrder ==
    ASSUME NEW types \in Seq(DataTypes), NEW spec \in SpecsOf(types),
           NEW x, ComparableRow(x, types), NEW y, ComparableRow(y, types),
           NEW z, ComparableRow(z, types)
    PROVE  /\ ~(ColumnLess(x, y, spec) /\ ColumnLess(y, x, spec))
           /\ ColumnLess(x, z, spec) => ColumnLess(x, y, spec) \/ ColumnLess(y, z, spec)
<1>1. PICK type \in DataTypes, c \in DOMAIN types : type = types[spec.column] /\ c = spec.column
  BY SpecFacts
<1>2. PICK u, v, w : u = x[c] /\ v = y[c] /\ w = z[c]
  OBVIOUS
<1>3. u \in Comparables(type) /\ v \in Comparables(type) /\ w \in Comparables(type)
  BY <1>1, <1>2 DEF ComparableRow
<1>4. \A s, t \in Comparables(type) :
          /\ NotGreater(s, t) \/ NotGreater(t, s)
          /\ partial_cmp(s, t) = "Less" <=> ~NotGreater(t, s)
          /\ partial_cmp(s, t) = "Greater" <=> ~NotGreater(s, t)
  BY CmpOrder DEF NotGreater
<1>5. \A s, t, r \in Comparables(type) : NotGreater(s, t) /\ NotGreater(t, r) => NotGreater(s, r)
  BY CmpTransitive
<1>6. \A s, t : ColumnLess(s, t, spec) <=>
          partial_cmp(s[c], t[c]) = IF spec.ascending THEN "Less" ELSE "Greater"
  BY <1>1 DEF ColumnLess
<1>7. CASE spec.ascending
  <2>1. /\ ColumnLess(x, y, spec) <=> ~NotGreater(v, u)
        /\ ColumnLess(y, x, spec) <=> ~NotGreater(u, v)
        /\ ColumnLess(x, z, spec) <=> ~NotGreater(w, u)
        /\ ColumnLess(y, z, spec) <=> ~NotGreater(w, v)
    BY <1>2, <1>3, <1>4, <1>6, <1>7
  <2> QED
    BY <1>3, <1>4, <1>5, <2>1
<1>8. CASE ~spec.ascending
  <2>1. /\ ColumnLess(x, y, spec) <=> ~NotGreater(u, v)
        /\ ColumnLess(y, x, spec) <=> ~NotGreater(v, u)
        /\ ColumnLess(x, z, spec) <=> ~NotGreater(u, w)
        /\ ColumnLess(y, z, spec) <=> ~NotGreater(v, w)
    BY <1>2, <1>3, <1>4, <1>6, <1>8
  <2> QED
    BY <1>3, <1>4, <1>5, <2>1
<1> QED
  BY <1>7, <1>8

\* compare_by_specs is an order of rows that have no NaN, whatever the columns and
\* directions: no two rows are each before the other, and a row between two others
\* is after the first or before the second.
LEMMA ComparisonIsOrder ==
    ASSUME NEW types \in Seq(DataTypes), NEW specs \in Seq(SpecsOf(types)),
           NEW x, ComparableRow(x, types), NEW y, ComparableRow(y, types),
           NEW z, ComparableRow(z, types)
    PROVE  /\ ~(compare_by_specs_less(x, y, specs) /\ compare_by_specs_less(y, x, specs))
           /\ compare_by_specs_less(x, z, specs) =>
                  compare_by_specs_less(x, y, specs) \/ compare_by_specs_less(y, z, specs)
<1>1. PICK n \in Nat : n = Len(specs) /\ DOMAIN specs = 1 .. n
  BY LenProperties
<1> DEFINE Typed(t) == ComparableRow(t, types)
           L(s, t, i) == ColumnLess(s, t, specs[i])
           First(s, t, i) == L(s, t, i) /\ \A j \in 1 .. i - 1 : ~L(s, t, j) /\ ~L(t, s, j)
<1>2. \A i \in 1 .. n : \A s, t, u :
          Typed(s) /\ Typed(t) /\ Typed(u) =>
              ~(L(s, t, i) /\ L(t, s, i)) /\ (L(s, u, i) => L(s, t, i) \/ L(t, u, i))
  <2> SUFFICES ASSUME NEW i \in 1 .. n, NEW s, NEW t, NEW u, Typed(s), Typed(t), Typed(u)
               PROVE  ~(L(s, t, i) /\ L(t, s, i)) /\ (L(s, u, i) => L(s, t, i) \/ L(t, u, i))
    OBVIOUS
  <2>1. PICK spec \in SpecsOf(types) : spec = specs[i]
    BY <1>1, ElementOfSeq
  <2> QED
    BY <2>1, ColumnIsOrder
<1>3. \A s, t : compare_by_specs_less(s, t, specs) <=> \E i \in 1 .. n : First(s, t, i)
  BY <1>1 DEF compare_by_specs_less
<1> HIDE DEF L
<1>4. ~(compare_by_specs_less(x, y, specs) /\ compare_by_specs_less(y, x, specs))
  <2> SUFFICES ASSUME NEW i \in 1 .. n, First(x, y, i), NEW j \in 1 .. n, First(y, x, j)
               PROVE  FALSE
    BY <1>3
  <2>1. i < j => i \in 1 .. j - 1
    OBVIOUS
  <2>2. j < i => j \in 1 .. i - 1
    OBVIOUS
  <2>3. i = j \/ i < j \/ j < i
    OBVIOUS
  <2> QED
    BY <1>2, <2>1, <2>2, <2>3
<1>5. ASSUME NEW i \in 1 .. n, First(x, z, i)
      PROVE  (\E k \in 1 .. n : First(x, y, k)) \/ (\E k \in 1 .. n : First(y, z, k))
  <2>1. CASE \A k \in 1 .. i : ~L(x, y, k) /\ ~L(y, x, k)
    <3>1. i \in 1 .. i /\ \A k \in 1 .. i - 1 : k \in 1 .. i /\ k \in 1 .. n
      OBVIOUS
    <3>2. L(y, z, i)
      BY <1>2, <1>5, <2>1, <3>1
    <3>3. \A k \in 1 .. i - 1 : ~L(y, z, k) /\ ~L(z, y, k)
      BY <1>2, <1>5, <2>1, <3>1
    <3> QED
      BY <3>2, <3>3
  <2>2. CASE \E k \in 1 .. i : L(x, y, k) \/ L(y, x, k)
    <3> DEFINE D == {k \in 1 .. i : L(x, y, k) \/ L(y, x, k)}
    <3>1. PICK m \in D : \A k \in D : m <= k
      <4>1. PICK k \in D : TRUE
        BY <2>2
      <4>2. \A k1 \in D : k1 \in Nat
        OBVIOUS
      <4> HIDE DEF D
      <4>3. \E k1 \in D : \A k2 \in D : k1 <= k2
        BY <4>1, <4>2, LeastNumber
      <4> QED
        BY <4>3
    <3>2. /\ m \in 1 .. i /\ m \in 1 .. n /\ (L(x, y, m) \/ L(y, x, m))
          /\ \A k \in 1 .. m - 1 : /\ k \in 1 .. n /\ k \in 1 .. i - 1
                                   /\ ~L(x, y, k) /\ ~L(y, x, k)
      BY <3>1
    <3>3. CASE L(x, y, m)
      BY <3>2, <3>3
    <3>4. CASE L(y, x, m)
      <4>1. L(y, z, m)
        <5>1. m = i \/ m \in 1 .. i - 1
          BY <3>2
        <5> QED
          BY <1>2, <1>5, <3>2, <3>4, <5>1
      <4>2. \A k \in 1 .. m - 1 : ~L(y, z, k) /\ ~L(z, y, k)
        BY <1>2, <1>5, <3>2
      <4> QED
        BY <3>2, <4>1, <4>2
    <3> QED
      BY <3>2, <3>3, <3>4
  <2> QED
    BY <2>1, <2>2
<1> QED
  BY <1>3, <1>4, <1>5

\* What SortProofs assumes of the order and the keys is what compare_by_specs and
\* encode_sort_key give, for any schema, columns and directions: the comparison
\* orders rows without a NaN, and of two plain rows the smaller has the smaller key.
THEOREM SortPremisesHold ==
    ASSUME NEW types \in Seq(DataTypes), NEW specs \in Seq(SpecsOf(types)),
           NEW rows, \A x \in rows : ComparableRow(x, types)
    PROVE  /\ \A x, y \in rows :
                  compare_by_specs_less(x, y, specs) => ~compare_by_specs_less(y, x, specs)
           /\ \A x, y, z \in rows :
                  compare_by_specs_less(x, z, specs) =>
                      compare_by_specs_less(x, y, specs) \/ compare_by_specs_less(y, z, specs)
           /\ \A x, y \in rows :
                  PlainRow(x, types) /\ PlainRow(y, types)
                      /\ compare_by_specs_less(x, y, specs) =>
                          BytesLess(encode_sort_key(x, specs), encode_sort_key(y, specs))
<1>1. \A x, y \in rows :
          compare_by_specs_less(x, y, specs) => ~compare_by_specs_less(y, x, specs)
  BY ComparisonIsOrder
<1>2. \A x, y, z \in rows :
          compare_by_specs_less(x, z, specs) =>
              compare_by_specs_less(x, y, specs) \/ compare_by_specs_less(y, z, specs)
  BY ComparisonIsOrder
<1>3. \A x, y \in rows :
          PlainRow(x, types) /\ PlainRow(y, types) /\ compare_by_specs_less(x, y, specs) =>
              BytesLess(encode_sort_key(x, specs), encode_sort_key(y, specs))
  BY RowKeyOrder
<1> QED
  BY <1>1, <1>2, <1>3
=============================================================================
