---------------------------- MODULE RowBlocksProofs ---------------------------
(* What the helpers of row.rs and disk.rs compute, for rows and blocks of any *)
(* number: the fold behind offset and DecodeBlocks, blocks packed so that     *)
(* every row is read back, and spills that follow each other on the disk.     *)
(* Induction over the numbers is taken from the well-foundedness of < in the  *)
(* form of SetInduction, which speaks of a set and needs no operator argument.*)
EXTENDS RowBlocks, AnonDisk, SequenceTheorems, WellFoundedInduction, TLAPS

\* Every nonempty set of numbers has a least one.
LEMMA LeastNumber ==
    ASSUME NEW T, T \subseteq Nat, T # {}
    PROVE  \E x \in T : \A y \in T : x <= y
<1> DEFINE Below == {ss \in Nat \X Nat : ss[1] < ss[2]}
<1>1. IsWellFoundedOn(Below, Nat)
  BY NatLessThanWellFounded, Zenon DEF OpToRel
<1>2. \A x, y \in Nat : y < x => <<y, x>> \in Below
  OBVIOUS
<1> HIDE DEF Below
<1>3. PICK x \in T : \A y \in T : ~ (<<y, x>> \in Below)
  BY <1>1, WFMin
<1>4. \A y \in T : ~(y < x)
  BY <1>2, <1>3
<1> QED
  BY <1>3, <1>4

\* Induction over the numbers, for a property given as the set that has it.
LEMMA SetInduction ==
    ASSUME NEW T, 0 \in T, \A n \in Nat : n \in T => n + 1 \in T
    PROVE  \A n \in Nat : n \in T
<1> SUFFICES ASSUME Nat \ T # {} PROVE FALSE
  OBVIOUS
<1>1. PICK m \in Nat \ T : \A y \in Nat \ T : m <= y
  BY LeastNumber
<1>2. m - 1 \in Nat /\ (m - 1) + 1 = m /\ m - 1 < m
  BY <1>1
<1>3. m - 1 \in T
  BY <1>1, <1>2
<1> QED
  BY <1>1, <1>2, <1>3
-----------------------------------------------------------------------------
\* A fold of elements E into values V is well typed.
FoldTypes(V, E, step, base, s) ==
    base \in V /\ step \in [V \X E -> V] /\ s \in Seq(E)

\* What every fold of the model computes: the values after each element.
Fold(step, base, s) ==
    LET value[k \in 0 .. Len(s)] ==
            IF k = 0 THEN base ELSE step[<<value[k - 1], s[k]>>]
    IN  value[Len(s)]

IsFoldOf(value, step, base, s) ==
    /\ DOMAIN value = 0 .. Len(s)
    /\ value[0] = base
    /\ \A k \in 1 .. Len(s) : value[k] = step[<<value[k - 1], s[k]>>]

\* The recursive function exists.
LEMMA FoldExists ==
    ASSUME NEW step, NEW base, NEW E, NEW s \in Seq(E)
    PROVE  \E value : /\ IsFoldOf(value, step, base, s)
                      /\ Fold(step, base, s) = value[Len(s)]
<1> DEFINE Body(g, n) == [k \in 0 .. n |-> IF k = 0 THEN base ELSE step[<<g[k - 1], s[k]>>]]
           T == {n \in Nat : \E g : g = Body(g, n)}
<1>1. 0 \in T
  <2>1. [k \in 0 .. 0 |-> base] = Body([k \in 0 .. 0 |-> base], 0)
    OBVIOUS
  <2> QED
    BY <2>1
<1>2. ASSUME NEW n \in Nat, n \in T PROVE n + 1 \in T
  <2>1. PICK g : g = Body(g, n)
    BY <1>2
  <2>2. \A k \in 0 .. n : g[k] = IF k = 0 THEN base ELSE step[<<g[k - 1], s[k]>>]
    BY <2>1
  <2> DEFINE h == [k \in 0 .. n + 1 |-> IF k \in 0 .. n THEN g[k]
                                        ELSE step[<<g[n], s[n + 1]>>]]
  <2>3. /\ \A k \in 0 .. n : h[k] = g[k]
        /\ h[n + 1] = step[<<g[n], s[n + 1]>>]
        /\ h = [k \in 0 .. n + 1 |-> h[k]]
    OBVIOUS
  <2> HIDE DEF h
  <2>4. ASSUME NEW k \in 0 .. n + 1
        PROVE  h[k] = IF k = 0 THEN base ELSE step[<<h[k - 1], s[k]>>]
    <3>1. CASE k = 0
      <4>1. 0 \in 0 .. n
        OBVIOUS
      <4>2. g[0] = base
        BY <2>2, <4>1, Zenon
      <4>3. h[0] = base
        BY <2>3, <4>1, <4>2, Zenon
      <4> QED
        BY <3>1, <4>3, Zenon
    <3>2. CASE k \in 1 .. n
      <4>1. k \in 0 .. n /\ k - 1 \in 0 .. n /\ k # 0
        BY <3>2
      <4> QED
        BY <2>2, <2>3, <4>1
    <3>3. CASE k = n + 1
      <4>1. k - 1 = n /\ n \in 0 .. n /\ k # 0
        BY <3>3
      <4> QED
        BY <2>3, <3>3, <4>1
    <3> QED
      BY <3>1, <3>2, <3>3
  <2>5. h = [k \in 0 .. n + 1 |-> IF k = 0 THEN base ELSE step[<<h[k - 1], s[k]>>]]
    BY <2>3, <2>4
  <2>6. h = Body(h, n + 1)
    BY <2>5, Zenon
  <2>7. n + 1 \in Nat
    OBVIOUS
  <2> QED
    BY <2>6, <2>7, Zenon
<1> HIDE DEF T
<1>3. Len(s) \in T
  BY <1>1, <1>2, SetInduction
<1> DEFINE value == CHOOSE g : g = Body(g, Len(s))
<1>4. \E g : g = Body(g, Len(s))
  BY <1>3 DEF T
<1>5. value = Body(value, Len(s))
  BY <1>4, Zenon
<1>6. Fold(step, base, s) = value[Len(s)]
  BY Zenon DEF Fold
<1> HIDE DEF value
<1>7. IsFoldOf(value, step, base, s)
  BY <1>5 DEF IsFoldOf
<1> QED
  BY <1>6, <1>7

\* There is only one.
LEMMA FoldUnique ==
    ASSUME NEW step, NEW base, NEW s, NEW t, NEW n \in Nat, n <= Len(s), n <= Len(t),
           Len(s) \in Nat, Len(t) \in Nat,
           \A k \in 1 .. n : s[k] = t[k],
           NEW f, IsFoldOf(f, step, base, s), NEW g, IsFoldOf(g, step, base, t)
    PROVE  f[n] = g[n]
<1> DEFINE T == {k \in Nat : k <= n => f[k] = g[k]}
<1>1. 0 \in T
  BY DEF IsFoldOf
<1>2. ASSUME NEW k \in Nat, k \in T PROVE k + 1 \in T
  <2> SUFFICES ASSUME k + 1 <= n PROVE f[k + 1] = g[k + 1]
    OBVIOUS
  <2>1. f[k] = g[k] /\ k + 1 \in 1 .. n /\ k + 1 \in 1 .. Len(s) /\ k + 1 \in 1 .. Len(t)
        /\ (k + 1) - 1 = k
    BY <1>2
  <2>2. f[k + 1] = step[<<f[k], s[k + 1]>>] /\ g[k + 1] = step[<<g[k], t[k + 1]>>]
    BY <2>1 DEF IsFoldOf
  <2> QED
    BY <2>1, <2>2
<1> HIDE DEF T
<1>3. n \in T
  BY <1>1, <1>2, SetInduction
<1> QED
  BY <1>3 DEF T

\* A fold over no element, and over one more.
LEMMA FoldEmpty ==
    ASSUME NEW step, NEW base
    PROVE  Fold(step, base, <<>>) = base
<1>1. PICK f : IsFoldOf(f, step, base, <<>>) /\ Fold(step, base, <<>>) = f[Len(<<>>)]
  BY FoldExists, EmptySeq
<1> QED
  BY <1>1 DEF IsFoldOf

LEMMA FoldAppend ==
    ASSUME NEW step, NEW base, NEW E, NEW s \in Seq(E), NEW e \in E
    PROVE  Fold(step, base, Append(s, e)) = step[<<Fold(step, base, s), e>>]
<1>1. PICK f : IsFoldOf(f, step, base, s) /\ Fold(step, base, s) = f[Len(s)]
  BY FoldExists
<1> DEFINE t == Append(s, e)
<1>2. /\ t \in Seq(E) /\ Len(t) = Len(s) + 1 /\ Len(s) \in Nat /\ t[Len(s) + 1] = e
      /\ \A k \in 1 .. Len(s) : s[k] = t[k]
  OBVIOUS
<1> HIDE DEF t
<1>3. PICK g : IsFoldOf(g, step, base, t) /\ Fold(step, base, t) = g[Len(t)]
  BY <1>2, FoldExists
<1>4. f[Len(s)] = g[Len(s)]
  BY <1>1, <1>2, <1>3, FoldUnique
<1>5. g[Len(s) + 1] = step[<<g[Len(s)], e>>]
  <2>1. Len(s) + 1 \in 1 .. Len(t) /\ (Len(s) + 1) - 1 = Len(s)
    BY <1>2
  <2> QED
    BY <1>2, <1>3, <2>1 DEF IsFoldOf
<1> QED
  BY <1>1, <1>2, <1>3, <1>4, <1>5 DEF t

\* The values of a fold.
LEMMA FoldType ==
    ASSUME NEW V, NEW E, NEW step, NEW base, NEW s, FoldTypes(V, E, step, base, s)
    PROVE  Fold(step, base, s) \in V
<1>t. base \in V /\ step \in [V \X E -> V] /\ s \in Seq(E)
  BY DEF FoldTypes
<1> USE <1>t
<1>1. PICK f : IsFoldOf(f, step, base, s) /\ Fold(step, base, s) = f[Len(s)]
  BY FoldExists
<1> DEFINE T == {k \in Nat : k <= Len(s) => f[k] \in V}
<1>2. 0 \in T
  BY <1>1 DEF IsFoldOf
<1>3. ASSUME NEW k \in Nat, k \in T PROVE k + 1 \in T
  <2> SUFFICES ASSUME k + 1 <= Len(s) PROVE f[k + 1] \in V
    OBVIOUS
  <2>1. f[k] \in V /\ k + 1 \in 1 .. Len(s) /\ (k + 1) - 1 = k /\ s[k + 1] \in E
    BY <1>3
  <2>2. f[k + 1] = step[<<f[k], s[k + 1]>>]
    BY <1>1, <2>1 DEF IsFoldOf
  <2> QED
    BY <2>1, <2>2
<1> HIDE DEF T
<1>4. Len(s) \in T
  BY <1>2, <1>3, SetInduction, LenProperties
<1> QED
  BY <1>1, <1>4, LenProperties DEF T

\* What holds of the base, and of the value after each element when it holds of
\* the value before, holds of the fold.  Q[k] has the values it holds of after k.
LEMMA FoldInvariant ==
    ASSUME NEW V, NEW E, NEW step, NEW base, NEW s, FoldTypes(V, E, step, base, s),
           NEW Q, base \in Q[0],
           \A k \in 1 .. Len(s) : \A v \in V : v \in Q[k - 1] => step[<<v, s[k]>>] \in Q[k]
    PROVE  Fold(step, base, s) \in Q[Len(s)] /\ Fold(step, base, s) \in V
<1>t. base \in V /\ step \in [V \X E -> V] /\ s \in Seq(E)
  BY DEF FoldTypes
<1> USE <1>t
<1>1. PICK f : IsFoldOf(f, step, base, s) /\ Fold(step, base, s) = f[Len(s)]
  BY FoldExists
<1> DEFINE T == {k \in Nat : k <= Len(s) => f[k] \in V /\ f[k] \in Q[k]}
<1>2. 0 \in T
  BY <1>1 DEF IsFoldOf
<1>3. ASSUME NEW n \in Nat, n \in T PROVE n + 1 \in T
  <2> SUFFICES ASSUME n + 1 <= Len(s) PROVE f[n + 1] \in V /\ f[n + 1] \in Q[n + 1]
    OBVIOUS
  <2>1. PICK k \in 1 .. Len(s) : k = n + 1 /\ k - 1 = n
    BY LenProperties
  <2>2. f[k - 1] \in V /\ f[k - 1] \in Q[k - 1] /\ s[k] \in E
    BY <1>3, <2>1, ElementOfSeq, LenProperties
  <2>3. f[k] = step[<<f[k - 1], s[k]>>]
    BY <1>1 DEF IsFoldOf
  <2> QED
    BY <2>1, <2>2, <2>3
<1> HIDE DEF T
<1>4. Len(s) \in T
  BY <1>2, <1>3, SetInduction, LenProperties
<1> QED
  BY <1>1, <1>4, LenProperties DEF T
-----------------------------------------------------------------------------
\* A nonempty set of positions has a last one, and Max is that.
LEMMA MaxOfPositions ==
    ASSUME NEW n \in Nat, NEW t \in SUBSET (1 .. n), t # {}
    PROVE  Max(t) \in t /\ \A y \in t : y <= Max(t)
<1> DEFINE T == {n - y : y \in t}
<1>1. T \subseteq Nat /\ T # {}
  <2>1. \A y \in t : n - y \in Nat
    OBVIOUS
  <2> QED
    BY <2>1
<1>2. PICK z \in T : \A y \in T : z <= y
  <2> HIDE DEF T
  <2> QED
    BY <1>1, LeastNumber
<1>3. PICK x \in t : z = n - x
  BY <1>2
<1>4. \A y \in t : n - x <= n - y
  BY <1>2, <1>3
<1>5. \A y \in t : x >= y
  BY <1>4
<1>6. \E m \in t : \A y \in t : m >= y
  BY <1>3, <1>5
<1>7. Max(t) \in t /\ \A y \in t : Max(t) >= y
  BY <1>6, Zenon DEF Max
<1> QED
  BY <1>7

\* Max of the positions of a sequence.
LEMMA MaxOfInterval ==
    ASSUME NEW n \in Nat \ {0}
    PROVE  Max(1 .. n) = n /\ (1 .. n) \ {n} = 1 .. n - 1
<1>1. 1 .. n \in SUBSET (1 .. n) /\ n \in 1 .. n /\ 1 .. n # {}
  OBVIOUS
<1>2. Max(1 .. n) \in 1 .. n /\ \A y \in 1 .. n : y <= Max(1 .. n)
  BY <1>1, MaxOfPositions, Zenon
<1>3. Max(1 .. n) = n
  BY <1>1, <1>2
<1> QED
  BY <1>3

\* The recursion of FoldLeft, over the subsets of the positions, is defined.
IsIteration(it, step, base, s) ==
    \A t \in SUBSET (DOMAIN s) :
        it[t] = IF t = {} THEN base ELSE step[<<it[t \ {Max(t)}], s[Max(t)]>>]

LEMMA IterationExists ==
    ASSUME NEW V, NEW E, NEW base, NEW step, NEW s, FoldTypes(V, E, step, base, s)
    PROVE  \E it \in [SUBSET (DOMAIN s) -> V] : IsIteration(it, step, base, s)
<1>t. base \in V /\ step \in [V \X E -> V] /\ s \in Seq(E)
  BY DEF FoldTypes
<1> USE <1>t
<1> DEFINE Equation(it, t) ==
               it[t] = IF t = {} THEN base ELSE step[<<it[t \ {Max(t)}], s[Max(t)]>>]
           T == {n \in Nat : n <= Len(s) =>
                    \E it \in [SUBSET (1 .. n) -> V] :
                        \A t \in SUBSET (1 .. n) : Equation(it, t)}
<1>1. 0 \in T
  <2> DEFINE it == [t \in SUBSET (1 .. 0) |-> base]
  <2>1. \A t \in SUBSET (1 .. 0) : t = {} /\ it[t] = base
    OBVIOUS
  <2>2. it \in [SUBSET (1 .. 0) -> V]
    OBVIOUS
  <2> HIDE DEF it
  <2>3. \A t \in SUBSET (1 .. 0) : Equation(it, t)
    BY <2>1, Zenon
  <2> QED
    BY <2>2, <2>3
<1>2. ASSUME NEW n \in Nat, n \in T PROVE n + 1 \in T
  <2>n. n + 1 \in Nat
    OBVIOUS
  <2> SUFFICES ASSUME n + 1 <= Len(s)
               PROVE  \E it \in [SUBSET (1 .. n + 1) -> V] :
                          \A t \in SUBSET (1 .. n + 1) : Equation(it, t)
    BY <2>n, Zenon
  <2>0. n <= Len(s)
    BY LenProperties
  <2>1. PICK g \in [SUBSET (1 .. n) -> V] : \A t \in SUBSET (1 .. n) : Equation(g, t)
    BY <1>2, <2>0, Zenon
  <2> DEFINE h == [t \in SUBSET (1 .. n + 1) |->
                      IF n + 1 \in t THEN step[<<g[t \ {n + 1}], s[n + 1]>>] ELSE g[t]]
  <2>2. ASSUME NEW t \in SUBSET (1 .. n + 1)
        PROVE  /\ t \ {n + 1} \in SUBSET (1 .. n)
               /\ n + 1 \notin t => t \in SUBSET (1 .. n) /\ h[t] = g[t]
               /\ n + 1 \in t => h[t] = step[<<g[t \ {n + 1}], s[n + 1]>>]
    OBVIOUS
  <2>3. h \in [SUBSET (1 .. n + 1) -> V]
    <3>1. s[n + 1] \in E
      OBVIOUS
    <3> QED
      BY <2>2, <3>1
  <2> HIDE DEF h
  <2>4. ASSUME NEW t \in SUBSET (1 .. n + 1) PROVE Equation(h, t)
    <3>1. CASE n + 1 \in t
      <4>1. Max(t) \in t /\ \A y \in t : y <= Max(t)
        <5>1. n + 1 \in Nat /\ t # {}
          BY <3>1
        <5> QED
          BY <5>1, MaxOfPositions, Zenon
      <4>2. Max(t) = n + 1
        <5>1. Max(t) \in 1 .. n + 1 /\ n + 1 <= Max(t)
          BY <3>1, <4>1, Zenon
        <5> QED
          BY <5>1
      <4>3. t \ {n + 1} \in SUBSET (1 .. n + 1) /\ n + 1 \notin t \ {n + 1}
        OBVIOUS
      <4>4. h[t \ {n + 1}] = g[t \ {n + 1}]
        BY <2>2, <4>3
      <4> QED
        BY <2>2, <3>1, <4>2, <4>4
    <3>2. CASE n + 1 \notin t
      <4>1. t \in SUBSET (1 .. n) /\ h[t] = g[t] /\ Equation(g, t)
        BY <2>1, <2>2, <3>2
      <4>2. t \ {Max(t)} \in SUBSET (1 .. n + 1) /\ n + 1 \notin t \ {Max(t)}
        BY <3>2
      <4>3. h[t \ {Max(t)}] = g[t \ {Max(t)}]
        BY <2>2, <4>2
      <4> QED
        BY <4>1, <4>3, Zenon
    <3> QED
      BY <3>1, <3>2
  <2> QED
    BY <2>3, <2>4
<1> HIDE DEF T
<1>3. Len(s) \in T
  BY <1>1, <1>2, SetInduction, LenProperties
<1>4. DOMAIN s = 1 .. Len(s) /\ Len(s) <= Len(s)
  BY LenProperties
<1>5. \E it \in [SUBSET (1 .. Len(s)) -> V] :
          \A t \in SUBSET (1 .. Len(s)) : Equation(it, t)
  BY <1>3, <1>4, Zenon DEF T
<1> QED
  BY <1>4, <1>5, Zenon DEF IsIteration

\* Of that recursion only the values at the prefixes matter.
IteratesPrefixes(it, V, E, step, base, s) ==
    /\ FoldTypes(V, E, step, base, s)
    /\ it[{}] = base
    /\ \A k \in 1 .. Len(s) :
           it[1 .. k - 1] \in V => it[1 .. k] = step[<<it[1 .. k - 1], s[k]>>]

\* It computes the fold.
LEMMA IterationIsFold ==
    ASSUME NEW V, NEW E, NEW step, NEW base, NEW s, NEW it,
           IteratesPrefixes(it, V, E, step, base, s)
    PROVE  it[DOMAIN s] = Fold(step, base, s)
<1>t. base \in V /\ step \in [V \X E -> V] /\ s \in Seq(E)
  BY DEF FoldTypes, IteratesPrefixes
<1> USE <1>t
<1>1. PICK f : IsFoldOf(f, step, base, s) /\ Fold(step, base, s) = f[Len(s)]
  BY FoldExists
<1> DEFINE T == {n \in Nat : n <= Len(s) => it[1 .. n] = f[n] /\ it[1 .. n] \in V}
<1>2. 0 \in T
  <2>1. 1 .. 0 = {}
    OBVIOUS
  <2> QED
    BY <1>1, <2>1 DEF IsFoldOf, IteratesPrefixes
<1>3. ASSUME NEW n \in Nat, n \in T PROVE n + 1 \in T
  <2> SUFFICES ASSUME n + 1 <= Len(s)
               PROVE  it[1 .. n + 1] = f[n + 1] /\ it[1 .. n + 1] \in V
    OBVIOUS
  <2>1. /\ n + 1 \in 1 .. Len(s) /\ (n + 1) - 1 = n /\ n <= Len(s)
        /\ s[n + 1] \in E
    BY LenProperties
  <2>2. it[1 .. n] = f[n] /\ it[1 .. n] \in V
    BY <1>3, <2>1
  <2>3. it[1 .. n + 1] = step[<<it[1 .. n], s[n + 1]>>]
    <3>1. it[1 .. (n + 1) - 1] \in V
      BY <2>1, <2>2
    <3> QED
      BY <2>1, <3>1 DEF IteratesPrefixes
  <2>4. f[n + 1] = step[<<f[n], s[n + 1]>>]
    BY <1>1, <2>1 DEF IsFoldOf
  <2> QED
    BY <2>1, <2>2, <2>3, <2>4
<1> HIDE DEF T
<1>4. Len(s) \in T
  BY <1>2, <1>3, SetInduction, LenProperties
<1>5. DOMAIN s = 1 .. Len(s) /\ Len(s) <= Len(s)
  BY LenProperties
<1> QED
  BY <1>1, <1>4, <1>5 DEF T
-----------------------------------------------------------------------------
\* The cursor of the packing loops is the sum of the lengths of the rows.
LenStep(R) == [x \in Nat \X R |-> x[1] + x[2].len]

LEMMA OffsetIsFold ==
    ASSUME NEW R, \A r \in R : r.len \in Nat, NEW block, block.rows \in Seq(R)
    PROVE  offset(block) = Fold(LenStep(R), 0, block.rows)
<1> DEFINE s == block.rows
           Body(g) == [t \in SUBSET (DOMAIN s) |->
                          IF t = {} THEN 0 ELSE g[t \ {Max(t)}] + s[Max(t)].len]
           ot == CHOOSE g : g = Body(g)
<1>1. offset(block) = ot[DOMAIN s]
  BY Zenon DEF offset, FoldLeft, MapThenFoldSet
<1>2. FoldTypes(Nat, R, LenStep(R), 0, block.rows)
  BY DEF LenStep, FoldTypes
<1>3. PICK it \in [SUBSET (DOMAIN s) -> Nat] : IsIteration(it, LenStep(R), 0, s)
  BY <1>2, IterationExists, Zenon
<1>4. \A t \in SUBSET (DOMAIN s) : t # {} => Max(t) \in t /\ s[Max(t)] \in R
  <2>1. DOMAIN s = 1 .. Len(s) /\ Len(s) \in Nat
    BY LenProperties
  <2> QED
    BY <2>1, MaxOfPositions, ElementOfSeq
<1>5. it = Body(it)
  <2>1. ASSUME NEW t \in SUBSET (DOMAIN s)
        PROVE  it[t] = IF t = {} THEN 0 ELSE it[t \ {Max(t)}] + s[Max(t)].len
    <3>1. CASE t = {}
      BY <1>3, <3>1 DEF IsIteration
    <3>2. CASE t # {}
      <4>1. it[t] = LenStep(R)[<<it[t \ {Max(t)}], s[Max(t)]>>]
        BY <1>3, <3>2 DEF IsIteration
      <4>2. it[t \ {Max(t)}] \in Nat /\ s[Max(t)] \in R
        BY <1>3, <1>4, <3>2
      <4> QED
        BY <3>2, <4>1, <4>2 DEF LenStep
    <3> QED
      BY <3>1, <3>2
  <2> QED
    BY <1>3, <2>1
<1>6. ot = Body(ot)
  BY <1>5, Zenon
<1> HIDE DEF ot
<1>7. ot[{}] = 0
  BY <1>6
<1>8. ASSUME NEW k \in 1 .. Len(s), ot[1 .. k - 1] \in Nat
      PROVE  ot[1 .. k] = LenStep(R)[<<ot[1 .. k - 1], s[k]>>]
  <2>1. /\ 1 .. k \in SUBSET (DOMAIN s) /\ s[k] \in R
        /\ k \in Nat \ {0} /\ 1 .. k # {}
    BY LenProperties
  <2>2. Max(1 .. k) = k /\ (1 .. k) \ {k} = 1 .. k - 1
    BY <2>1, MaxOfInterval
  <2>3. ot[1 .. k] = ot[1 .. k - 1] + s[k].len
    BY <1>6, <2>1, <2>2
  <2> QED
    BY <1>8, <2>1, <2>3 DEF LenStep
<1>9. IteratesPrefixes(ot, Nat, R, LenStep(R), 0, s)
  BY <1>2, <1>7, <1>8 DEF IteratesPrefixes
<1>10. ot[DOMAIN s] = Fold(LenStep(R), 0, s)
  BY <1>9, IterationIsFold
<1> QED
  BY <1>1, <1>10, Zenon

\* A row more in the block.
LEMMA OffsetOfBlock ==
    ASSUME NEW R, \A r \in R : r.len \in Nat, NEW block, block.rows \in Seq(R)
    PROVE  /\ offset(block) \in Nat
           /\ block.rows = <<>> => offset(block) = 0
           /\ \A row \in R : offset(AddRow(block, row)) = offset(block) + row.len
<1>1. offset(block) = Fold(LenStep(R), 0, block.rows)
  BY OffsetIsFold
<1>2. offset(block) \in Nat
  <2>1. FoldTypes(Nat, R, LenStep(R), 0, block.rows)
    BY DEF LenStep, FoldTypes
  <2>2. Fold(LenStep(R), 0, block.rows) \in Nat
    BY <2>1, FoldType, Zenon
  <2> QED
    BY <1>1, <2>2
<1>3. ASSUME NEW row \in R PROVE offset(AddRow(block, row)) = offset(block) + row.len
  <2>1. AddRow(block, row).rows = Append(block.rows, row)
    BY DEF AddRow
  <2>2. Append(block.rows, row) \in Seq(R)
    OBVIOUS
  <2>3. offset(AddRow(block, row)) = Fold(LenStep(R), 0, Append(block.rows, row))
    BY <2>1, <2>2, OffsetIsFold
  <2>4. Fold(LenStep(R), 0, Append(block.rows, row))
            = LenStep(R)[<<Fold(LenStep(R), 0, block.rows), row>>]
    BY FoldAppend
  <2> QED
    BY <1>1, <1>2, <2>3, <2>4 DEF LenStep
<1>4. block.rows = <<>> => offset(block) = 0
  BY <1>1, FoldEmpty
<1> QED
  BY <1>2, <1>3, <1>4
-----------------------------------------------------------------------------
\* What is read back from blocks is the concatenation of what each yields.
Decodable(B, R) == \A b \in B : decode_block(b) \in Seq(R)

DecodeStep(B, R) == [x \in Seq(R) \X B |-> x[1] \o decode_block(x[2])]

LEMMA DecodeIsFold ==
    ASSUME NEW B, NEW R, Decodable(B, R), NEW blocks \in Seq(B)
    PROVE  /\ FoldTypes(Seq(R), B, DecodeStep(B, R), <<>>, blocks)
           /\ DecodeBlocks(blocks) = Fold(DecodeStep(B, R), <<>>, blocks)
<1> DEFINE Body(g) == [t \in SUBSET (DOMAIN blocks) |->
                          IF t = {} THEN <<>>
                          ELSE g[t \ {Max(t)}] \o decode_block(blocks[Max(t)])]
           ot == CHOOSE g : g = Body(g)
<1>1. DecodeBlocks(blocks) = ot[DOMAIN blocks]
  BY Zenon DEF DecodeBlocks, FoldLeft, MapThenFoldSet
<1>2. FoldTypes(Seq(R), B, DecodeStep(B, R), <<>>, blocks)
  <2>1. <<>> \in Seq(R)
    OBVIOUS
  <2>2. DecodeStep(B, R) \in [Seq(R) \X B -> Seq(R)]
    BY ConcatProperties DEF DecodeStep, Decodable
  <2> QED
    BY <2>1, <2>2 DEF FoldTypes
<1>3. PICK it \in [SUBSET (DOMAIN blocks) -> Seq(R)] :
          IsIteration(it, DecodeStep(B, R), <<>>, blocks)
  BY <1>2, IterationExists, Zenon
<1>4. \A t \in SUBSET (DOMAIN blocks) : t # {} => Max(t) \in t /\ blocks[Max(t)] \in B
  <2>1. DOMAIN blocks = 1 .. Len(blocks) /\ Len(blocks) \in Nat
    BY LenProperties
  <2> QED
    BY <2>1, MaxOfPositions, ElementOfSeq
<1>5. it = Body(it)
  <2>1. ASSUME NEW t \in SUBSET (DOMAIN blocks)
        PROVE  it[t] = IF t = {} THEN <<>>
                       ELSE it[t \ {Max(t)}] \o decode_block(blocks[Max(t)])
    <3>1. CASE t = {}
      BY <1>3, <3>1 DEF IsIteration
    <3>2. CASE t # {}
      <4>1. it[t] = DecodeStep(B, R)[<<it[t \ {Max(t)}], blocks[Max(t)]>>]
        BY <1>3, <3>2 DEF IsIteration
      <4>2. it[t \ {Max(t)}] \in Seq(R) /\ blocks[Max(t)] \in B
        BY <1>3, <1>4, <3>2
      <4> QED
        BY <3>2, <4>1, <4>2 DEF DecodeStep
    <3> QED
      BY <3>1, <3>2
  <2> QED
    BY <1>3, <2>1
<1>6. ot = Body(ot)
  BY <1>5, Zenon
<1> HIDE DEF ot
<1>7. ot[{}] = <<>>
  BY <1>6
<1>8. ASSUME NEW k \in 1 .. Len(blocks), ot[1 .. k - 1] \in Seq(R)
      PROVE  ot[1 .. k] = DecodeStep(B, R)[<<ot[1 .. k - 1], blocks[k]>>]
  <2>1. /\ 1 .. k \in SUBSET (DOMAIN blocks) /\ blocks[k] \in B
        /\ k \in Nat \ {0} /\ 1 .. k # {}
    <3>1. DOMAIN blocks = 1 .. Len(blocks) /\ Len(blocks) \in Nat
      BY LenProperties
    <3>2. blocks[k] \in B
      BY ElementOfSeq
    <3>3. 1 .. k \in SUBSET (1 .. Len(blocks))
      BY <3>1
    <3>4. k \in Nat \ {0} /\ 1 \in 1 .. k
      BY <3>1
    <3> QED
      BY <3>1, <3>2, <3>3, <3>4, Zenon
  <2>2. Max(1 .. k) = k /\ (1 .. k) \ {k} = 1 .. k - 1
    BY <2>1, MaxOfInterval
  <2>3. ot[1 .. k] = ot[1 .. k - 1] \o decode_block(blocks[k])
    BY <1>6, <2>1, <2>2
  <2> QED
    BY <1>8, <2>1, <2>3 DEF DecodeStep
<1>9. IteratesPrefixes(ot, Seq(R), B, DecodeStep(B, R), <<>>, blocks)
  BY <1>2, <1>7, <1>8 DEF IteratesPrefixes
<1>10. ot[DOMAIN blocks] = Fold(DecodeStep(B, R), <<>>, blocks)
  BY <1>9, IterationIsFold
<1> QED
  BY <1>1, <1>2, <1>10, Zenon

\* The rows of one block more.
LEMMA DecodeAppend ==
    ASSUME NEW B, NEW R, Decodable(B, R), NEW blocks \in Seq(B)
    PROVE  /\ DecodeBlocks(blocks) \in Seq(R)
           /\ DecodeBlocks(<<>>) = <<>>
           /\ \A b \in B : DecodeBlocks(Append(blocks, b))
                               = DecodeBlocks(blocks) \o decode_block(b)
<1>1. /\ FoldTypes(Seq(R), B, DecodeStep(B, R), <<>>, blocks)
      /\ DecodeBlocks(blocks) = Fold(DecodeStep(B, R), <<>>, blocks)
  BY DecodeIsFold
<1>2. DecodeBlocks(blocks) \in Seq(R)
  BY <1>1, FoldType
<1>3. DecodeBlocks(<<>>) = <<>>
  <2>1. <<>> \in Seq(B)
    OBVIOUS
  <2>2. DecodeBlocks(<<>>) = Fold(DecodeStep(B, R), <<>>, <<>>)
    BY <2>1, DecodeIsFold
  <2> QED
    BY <2>2, FoldEmpty
<1>4. ASSUME NEW b \in B
      PROVE  DecodeBlocks(Append(blocks, b)) = DecodeBlocks(blocks) \o decode_block(b)
  <2>1. Append(blocks, b) \in Seq(B)
    OBVIOUS
  <2>2. DecodeBlocks(Append(blocks, b)) = Fold(DecodeStep(B, R), <<>>, Append(blocks, b))
    BY <2>1, DecodeIsFold
  <2>3. Fold(DecodeStep(B, R), <<>>, Append(blocks, b))
            = DecodeStep(B, R)[<<DecodeBlocks(blocks), b>>]
    BY <1>1, FoldAppend
  <2> QED
    BY <1>2, <2>2, <2>3 DEF DecodeStep
<1> QED
  BY <1>2, <1>3, <1>4

\* The rows of two runs of blocks, one after the other.
LEMMA DecodeConcat ==
    ASSUME NEW B, NEW R, Decodable(B, R), NEW s \in Seq(B), NEW t \in Seq(B)
    PROVE  DecodeBlocks(s \o t) = DecodeBlocks(s) \o DecodeBlocks(t)
<1> DEFINE T == {n \in Nat : \A u \in Seq(B) : Len(u) = n =>
                    DecodeBlocks(s \o u) = DecodeBlocks(s) \o DecodeBlocks(u)}
<1>1. 0 \in T
  <2>1. ASSUME NEW u \in Seq(B), Len(u) = 0
        PROVE  DecodeBlocks(s \o u) = DecodeBlocks(s) \o DecodeBlocks(u)
    <3>1. u = <<>> /\ s \o u = s
      BY <2>1, EmptySeq, ConcatEmptySeq
    <3>2. DecodeBlocks(s) \in Seq(R) /\ DecodeBlocks(u) = <<>>
      BY <3>1, DecodeAppend
    <3> QED
      BY <3>1, <3>2, ConcatEmptySeq
  <2> QED
    BY <2>1
<1>2. ASSUME NEW n \in Nat, n \in T PROVE n + 1 \in T
  <2>1. ASSUME NEW u \in Seq(B), Len(u) = n + 1
        PROVE  DecodeBlocks(s \o u) = DecodeBlocks(s) \o DecodeBlocks(u)
    <3>1. PICK v \in Seq(B), b \in B : u = Append(v, b)
      BY <2>1, SequenceEmptyOrAppend
    <3>2. Len(v) = n
      BY <2>1, <3>1
    <3>3. DecodeBlocks(s \o v) = DecodeBlocks(s) \o DecodeBlocks(v)
      BY <1>2, <3>2
    <3>4. s \o u = Append(s \o v, b) /\ s \o v \in Seq(B)
      <4>1. u = v \o <<b>> /\ <<b>> \in Seq(B) /\ s \o v \in Seq(B)
        BY <3>1, AppendIsConcat, ConcatProperties
      <4> QED
        BY <4>1, ConcatAssociative, AppendIsConcat
    <3>5. DecodeBlocks(s \o u) = DecodeBlocks(s \o v) \o decode_block(b)
      BY <3>4, DecodeAppend
    <3>6. DecodeBlocks(u) = DecodeBlocks(v) \o decode_block(b)
      BY <3>1, DecodeAppend
    <3>7. /\ DecodeBlocks(s) \in Seq(R) /\ DecodeBlocks(v) \in Seq(R)
          /\ decode_block(b) \in Seq(R)
      BY DecodeAppend DEF Decodable
    <3>8. (DecodeBlocks(s) \o DecodeBlocks(v)) \o decode_block(b)
              = DecodeBlocks(s) \o (DecodeBlocks(v) \o decode_block(b))
      BY <3>7, ConcatAssociative
    <3> QED
      BY <3>3, <3>5, <3>6, <3>8, Zenon
  <2> QED
    BY <2>1
<1> HIDE DEF T
<1>3. Len(t) \in T
  BY <1>1, <1>2, SetInduction, LenProperties
<1> QED
  BY <1>3 DEF T
-----------------------------------------------------------------------------
\* The blocks the packing loops build: the rows keep off the counter, which
\* counts them without wrapping.
SizedRows(R) == \A r \in R : r.len \in Nat \ {0}

PackedBlocks(R) ==
    {b \in [rows : Seq(R), row_count : Nat] :
        b.row_count = Len(b.rows) /\ Len(b.rows) <= offset(b) /\ offset(b) <= usable}

\* An empty block is packed, and stays so with one row more that fits.
LEMMA PackedBlock ==
    ASSUME NEW R, SizedRows(R), usable < CountLimit
    PROVE  /\ EmptyBlock \in PackedBlocks(R) /\ offset(EmptyBlock) = 0
           /\ \A b \in PackedBlocks(R), row \in R :
                  offset(b) + row.len <= usable => AddRow(b, row) \in PackedBlocks(R)
<1>0. \A r \in R : r.len \in Nat
  BY DEF SizedRows
<1>1. EmptyBlock \in PackedBlocks(R) /\ offset(EmptyBlock) = 0
  <2>1. EmptyBlock \in [rows : Seq(R), row_count : Nat]
    BY DEF EmptyBlock
  <2>2. EmptyBlock.rows = <<>> /\ EmptyBlock.row_count = 0 /\ EmptyBlock.rows \in Seq(R)
    BY DEF EmptyBlock
  <2>3. offset(EmptyBlock) = 0
    BY <1>0, <2>2, OffsetOfBlock
  <2>4. 0 <= usable /\ Len(<<>>) = 0
    BY BlockSizeAssumption DEF usable, CountBytes
  <2> QED
    BY <2>1, <2>2, <2>3, <2>4 DEF PackedBlocks
<1>2. ASSUME NEW b \in PackedBlocks(R), NEW row \in R, offset(b) + row.len <= usable
      PROVE  AddRow(b, row) \in PackedBlocks(R)
  <2>1. /\ b.rows \in Seq(R) /\ b.row_count = Len(b.rows) /\ Len(b.rows) \in Nat
        /\ Len(b.rows) <= offset(b) /\ row.len \in Nat \ {0}
    BY LenProperties DEF PackedBlocks, SizedRows
  <2>2. offset(b) \in Nat /\ offset(AddRow(b, row)) = offset(b) + row.len
    BY <1>0, <2>1, OffsetOfBlock
  <2>3. usable \in Nat
    BY BlockSizeAssumption DEF usable, CountBytes
  <2>4. /\ Append(b.rows, row) \in Seq(R) /\ Len(Append(b.rows, row)) = Len(b.rows) + 1
    BY <2>1
  <2>5. (Len(b.rows) + 1) % CountLimit = Len(b.rows) + 1
    <3> DEFINE k == Len(b.rows) + 1
    <3>1. k < CountLimit /\ k \in Nat
      BY <1>2, <2>1, <2>2, <2>3 DEF CountLimit
    <3> HIDE DEF k
    <3>2. k % CountLimit = k
      BY <3>1 DEF CountLimit
    <3> QED
      BY <3>2 DEF k
  <2>6. AddRow(b, row) = [rows |-> Append(b.rows, row), row_count |-> Len(b.rows) + 1]
    BY <2>1, <2>5 DEF AddRow
  <2>7. AddRow(b, row) \in [rows : Seq(R), row_count : Nat]
    BY <2>1, <2>4, <2>6
  <2>8. /\ AddRow(b, row).row_count = Len(AddRow(b, row).rows)
        /\ Len(AddRow(b, row).rows) = Len(b.rows) + 1
    BY <2>4, <2>6
  <2>9. Len(b.rows) + 1 <= offset(AddRow(b, row)) /\ offset(AddRow(b, row)) <= usable
    BY <1>2, <2>1, <2>2, <2>3
  <2> QED
    BY <2>7, <2>8, <2>9 DEF PackedBlocks
<1> QED
  BY <1>1, <1>2

\* What is decoded from a packed block is what was copied into it.
LEMMA DecodePacked ==
    ASSUME NEW R, SizedRows(R)
    PROVE  /\ \A b \in PackedBlocks(R) : decode_block(b) = b.rows
           /\ Decodable(PackedBlocks(R), R)
<1>1. ASSUME NEW b \in PackedBlocks(R) PROVE decode_block(b) = b.rows
  <2>1. b.rows \in Seq(R) /\ b.row_count = Len(b.rows) /\ offset(b) <= usable
    BY DEF PackedBlocks
  <2>2. ~(offset(b) > usable)
    <3>1. \A r \in R : r.len \in Nat
      BY DEF SizedRows
    <3>2. offset(b) \in Nat /\ usable \in Nat
      BY <2>1, <3>1, OffsetOfBlock, BlockSizeAssumption DEF usable, CountBytes
    <3> QED
      BY <2>1, <3>2
  <2>3. decode_block(b) = [i \in 1 .. Len(b.rows) |-> b.rows[i]]
    BY <2>1, <2>2 DEF decode_block
  <2> QED
    BY <2>1, <2>3
<1> QED
  BY <1>1 DEF PackedBlocks, Decodable
-----------------------------------------------------------------------------
\* A block more at the end of two runs of blocks.
LEMMA AppendLater ==
    ASSUME NEW B, NEW s \in Seq(B), NEW t \in Seq(B), NEW b \in B
    PROVE  s \o Append(t, b) = Append(s \o t, b)
<1>1. t \o <<b>> = Append(t, b) /\ (s \o t) \o <<b>> = Append(s \o t, b)
  BY AppendIsConcat, ConcatProperties
<1>2. <<b>> \in Seq(B)
  OBVIOUS
<1>3. (s \o t) \o <<b>> = s \o (t \o <<b>>)
  BY <1>2, ConcatAssociative
<1> QED
  BY <1>1, <1>3, Zenon

\* What rows_to_blocks builds: blocks, at least one, and no empty block after
\* the first row.
FilledBlocks(R) == {b \in PackedBlocks(R) : b.rows # <<>>}

PartialBlocks(R) == {<<EmptyBlock>>} \cup (Seq(FilledBlocks(R)) \ {<<>>})

FittingRows(R) == {r \in R : r.len <= usable}

PackStep(R) == [x \in PartialBlocks(R) \X FittingRows(R) |-> PackRow(x[1], x[2])]

\* What it has built before a row and after it.
PacksRow(blocks, row, packed, R) ==
    /\ packed \in Seq(FilledBlocks(R)) \ {<<>>}
    /\ DecodeBlocks(packed) = Append(DecodeBlocks(blocks), row)

\* One iteration of the packing loop.
LEMMA PackRowFacts ==
    ASSUME NEW R, SizedRows(R), usable < CountLimit,
           NEW blocks \in PartialBlocks(R), NEW row \in FittingRows(R)
    PROVE  PacksRow(blocks, row, PackRow(blocks, row), R)
<1> DEFINE B == PackedBlocks(R)
           F == FilledBlocks(R)
<1>1. row \in R /\ row.len <= usable /\ row.len \in Nat
  BY DEF FittingRows, SizedRows
<1>2. /\ EmptyBlock \in B /\ offset(EmptyBlock) = 0
      /\ \A b \in B : offset(b) + row.len <= usable => AddRow(b, row) \in B
  BY <1>1, PackedBlock
<1>3. Decodable(B, R) /\ \A b \in B : decode_block(b) = b.rows
  BY DecodePacked
<1>4. F \subseteq B /\ \A b \in F : b \in B /\ b.rows # <<>>
  BY DEF FilledBlocks
<1>5. blocks \in Seq(B) /\ blocks # <<>>
  <2>1. CASE blocks = <<EmptyBlock>>
    BY <1>2, <2>1
  <2>2. CASE blocks \in Seq(F) \ {<<>>}
    BY <1>4, <2>2
  <2> QED
    BY <2>1, <2>2 DEF PartialBlocks
<1>6. PICK v \in Seq(B), b \in B : blocks = Append(v, b)
  <2> HIDE DEF B, F
  <2> QED
    BY <1>5, SequenceEmptyOrAppend
<1>7. Last(blocks) = b /\ Front(blocks) = v
  <2> HIDE DEF B, F
  <2> QED
    BY <1>6 DEF Last, Front
<1>8. \/ v = <<>> /\ b = EmptyBlock
      \/ v \in Seq(F) /\ b \in F
  <2> HIDE DEF B, F
  <2>1. CASE blocks = <<EmptyBlock>>
    <3>1. Last(blocks) = EmptyBlock /\ Front(blocks) = <<>>
      BY <2>1 DEF Last, Front
    <3> QED
      BY <1>7, <3>1
  <2>2. CASE blocks \in Seq(F) \ {<<>>}
    <3>1. PICK w \in Seq(F), c \in F : blocks = Append(w, c)
      BY <2>2, SequenceEmptyOrAppend
    <3>2. Front(blocks) = w /\ Last(blocks) = c
      BY <3>1 DEF Last, Front
    <3> QED
      BY <1>7, <3>1, <3>2
  <2>3. <<EmptyBlock>> = blocks \/ blocks \in Seq(F) \ {<<>>}
    BY DEF PartialBlocks, F
  <2> QED
    BY <2>1, <2>2, <2>3
<1>9. /\ b.rows \in Seq(R) /\ offset(b) \in Nat
      /\ DecodeBlocks(blocks) = DecodeBlocks(v) \o b.rows /\ DecodeBlocks(v) \in Seq(R)
  <2>1. b.rows \in Seq(R)
    BY DEF PackedBlocks
  <2>2. \A r \in R : r.len \in Nat
    BY DEF SizedRows
  <2>3. offset(b) \in Nat
    BY <2>1, <2>2, OffsetOfBlock
  <2> HIDE DEF B, F
  <2>4. DecodeBlocks(blocks) = DecodeBlocks(v) \o decode_block(b) /\ DecodeBlocks(v) \in Seq(R)
    BY <1>3, <1>6, DecodeAppend
  <2> QED
    BY <1>3, <2>1, <2>3, <2>4
<1>10. ASSUME NEW c \in B, offset(c) + row.len <= usable
       PROVE  /\ AddRow(c, row) \in F /\ AddRow(c, row) \in B
              /\ decode_block(AddRow(c, row)) = Append(c.rows, row)
  <2>1. AddRow(c, row) \in B /\ AddRow(c, row).rows = Append(c.rows, row)
    BY <1>2, <1>10 DEF AddRow
  <2>2. c.rows \in Seq(R)
    BY DEF PackedBlocks
  <2>3. Append(c.rows, row) # <<>>
    BY <1>1, <2>2
  <2>4. AddRow(c, row) \in F
    BY <2>1, <2>3 DEF FilledBlocks
  <2> QED
    BY <1>3, <2>1, <2>4
<1> HIDE DEF B, F
<1>11. CASE offset(b) + row.len > usable
  <2> DEFINE c == AddRow(EmptyBlock, row)
  <2>1. c \in F /\ c \in B /\ decode_block(c) = Append(<<>>, row)
    <3>1. EmptyBlock \in B /\ offset(EmptyBlock) + row.len <= usable /\ EmptyBlock.rows = <<>>
      BY <1>1, <1>2 DEF EmptyBlock
    <3> QED
      BY <1>10, <3>1
  <2>2. b # EmptyBlock
    BY <1>1, <1>2, <1>11, BlockSizeAssumption DEF usable, CountBytes
  <2>3. blocks \in Seq(F)
    BY <1>6, <1>8, <2>2
  <2>4. PackRow(blocks, row) = Append(blocks, c)
    BY <1>7, <1>11, Zenon DEF PackRow
  <2> HIDE DEF c
  <2>5. Append(blocks, c) \in Seq(F) \ {<<>>}
    BY <2>1, <2>3
  <2>6. DecodeBlocks(Append(blocks, c)) = DecodeBlocks(blocks) \o decode_block(c)
    BY <1>3, <1>5, <2>1, DecodeAppend
  <2>7. DecodeBlocks(blocks) \in Seq(R)
    BY <1>3, <1>5, DecodeAppend
  <2>8. DecodeBlocks(blocks) \o Append(<<>>, row) = Append(DecodeBlocks(blocks), row)
    <3>1. Append(<<>>, row) = <<row>>
      OBVIOUS
    <3> QED
      BY <1>1, <2>7, <3>1, AppendIsConcat
  <2> QED
    BY <2>1, <2>4, <2>5, <2>6, <2>8 DEF PacksRow, F
<1>12. CASE ~(offset(b) + row.len > usable)
  <2> DEFINE c == AddRow(b, row)
  <2>1. offset(b) + row.len <= usable
    BY <1>1, <1>9, <1>12, BlockSizeAssumption DEF usable, CountBytes
  <2>2. c \in F /\ c \in B /\ decode_block(c) = Append(b.rows, row)
    BY <1>10, <2>1
  <2>3. v \in Seq(F)
    BY <1>8
  <2>4. PackRow(blocks, row) = Append(v, c)
    BY <1>7, <1>12, Zenon DEF PackRow
  <2> HIDE DEF c
  <2>5. Append(v, c) \in Seq(F) \ {<<>>}
    BY <2>2, <2>3
  <2>6. DecodeBlocks(Append(v, c)) = DecodeBlocks(v) \o decode_block(c)
    BY <1>3, <1>6, <2>2, DecodeAppend
  <2>7. DecodeBlocks(v) \o Append(b.rows, row) = Append(DecodeBlocks(v) \o b.rows, row)
    BY <1>1, <1>9, AppendLater
  <2> QED
    BY <1>9, <2>2, <2>4, <2>5, <2>6, <2>7 DEF PacksRow, F
<1> QED
  BY <1>11, <1>12

\* The loop is a fold.
LEMMA PackIsFold ==
    ASSUME NEW R, SizedRows(R), usable < CountLimit, NEW rows \in Seq(FittingRows(R))
    PROVE  /\ FoldTypes(PartialBlocks(R), FittingRows(R), PackStep(R), <<EmptyBlock>>, rows)
           /\ rows_to_blocks(rows) = Fold(PackStep(R), <<EmptyBlock>>, rows)
<1> DEFINE V == PartialBlocks(R)
           E == FittingRows(R)
           Body(g) == [t \in SUBSET (DOMAIN rows) |->
                          IF t = {} THEN <<EmptyBlock>>
                          ELSE PackRow(g[t \ {Max(t)}], rows[Max(t)])]
           ot == CHOOSE g : g = Body(g)
<1>1. rows_to_blocks(rows) = ot[DOMAIN rows]
  BY Zenon DEF rows_to_blocks, FoldLeft, MapThenFoldSet
<1>2. FoldTypes(V, E, PackStep(R), <<EmptyBlock>>, rows)
  <2>1. \A blocks \in V, row \in E : PackRow(blocks, row) \in V
    BY PackRowFacts DEF PacksRow, PartialBlocks
  <2>2. <<EmptyBlock>> \in V
    BY DEF PartialBlocks
  <2> HIDE DEF V, E
  <2>3. PackStep(R) \in [V \X E -> V]
    BY <2>1 DEF PackStep, V, E
  <2> QED
    BY <2>2, <2>3 DEF FoldTypes, E
<1>3. PICK it \in [SUBSET (DOMAIN rows) -> V] :
          IsIteration(it, PackStep(R), <<EmptyBlock>>, rows)
  BY <1>2, IterationExists, Zenon
<1>4. \A t \in SUBSET (DOMAIN rows) : t # {} => Max(t) \in t /\ rows[Max(t)] \in E
  <2>1. DOMAIN rows = 1 .. Len(rows) /\ Len(rows) \in Nat
    BY LenProperties
  <2> HIDE DEF E
  <2> QED
    BY <2>1, MaxOfPositions, ElementOfSeq DEF E
<1>s. \A x \in V, r \in E : PackStep(R)[<<x, r>>] = PackRow(x, r)
  BY DEF PackStep
<1>r. rows \in Seq(E)
  OBVIOUS
<1> HIDE DEF V, E
<1>5. it = Body(it)
  <2>1. ASSUME NEW t \in SUBSET (DOMAIN rows)
        PROVE  it[t] = IF t = {} THEN <<EmptyBlock>>
                       ELSE PackRow(it[t \ {Max(t)}], rows[Max(t)])
    <3>1. CASE t = {}
      BY <1>3, <3>1 DEF IsIteration
    <3>2. CASE t # {}
      <4>1. it[t] = PackStep(R)[<<it[t \ {Max(t)}], rows[Max(t)]>>]
        BY <1>3, <3>2 DEF IsIteration
      <4>2. it[t \ {Max(t)}] \in V /\ rows[Max(t)] \in E
        BY <1>3, <1>4, <3>2
      <4> QED
        BY <3>2, <4>1, <4>2, <1>s
    <3> QED
      BY <3>1, <3>2
  <2> QED
    BY <1>3, <2>1
<1>6. ot = Body(ot)
  BY <1>5, Zenon
<1> HIDE DEF ot
<1>7. ot[{}] = <<EmptyBlock>>
  BY <1>6
<1>8. ASSUME NEW k \in 1 .. Len(rows), ot[1 .. k - 1] \in V
      PROVE  ot[1 .. k] = PackStep(R)[<<ot[1 .. k - 1], rows[k]>>]
  <2>1. /\ 1 .. k \in SUBSET (DOMAIN rows) /\ rows[k] \in E
        /\ k \in Nat \ {0} /\ 1 .. k # {}
    <3>1. DOMAIN rows = 1 .. Len(rows) /\ Len(rows) \in Nat
      BY <1>r, LenProperties
    <3>2. rows[k] \in E
      BY <1>r, ElementOfSeq
    <3> QED
      BY <3>1, <3>2
  <2>2. Max(1 .. k) = k /\ (1 .. k) \ {k} = 1 .. k - 1
    BY <2>1, MaxOfInterval
  <2>3. ot[1 .. k] = PackRow(ot[1 .. k - 1], rows[k])
    BY <1>6, <2>1, <2>2
  <2> QED
    BY <1>8, <2>1, <2>3, <1>s
<1>9. IteratesPrefixes(ot, V, E, PackStep(R), <<EmptyBlock>>, rows)
  BY <1>2, <1>7, <1>8 DEF IteratesPrefixes
<1>10. ot[DOMAIN rows] = Fold(PackStep(R), <<EmptyBlock>>, rows)
  BY <1>9, IterationIsFold
<1> QED
  BY <1>1, <1>2, <1>10, Zenon DEF V, E

\* Blocks that hold the rows of a sequence and no others, in their order.
Holds(blocks, rows, R) ==
    /\ blocks \in PartialBlocks(R)
    /\ DecodeBlocks(blocks) = rows
    /\ rows # <<>> => blocks \in Seq(FilledBlocks(R)) \ {<<>>}

\* What is read back from the blocks of rows_to_blocks is what was packed.
LEMMA RowsPacked ==
    ASSUME NEW R, SizedRows(R), usable < CountLimit, NEW rows \in Seq(R), Packable(rows)
    PROVE  Holds(rows_to_blocks(rows), rows, R)
<1> DEFINE E == FittingRows(R)
           T == {n \in Nat : \A u \in Seq(E) : Len(u) = n => Holds(rows_to_blocks(u), u, R)}
<1>1. 0 \in T
  <2>1. ASSUME NEW u \in Seq(E), Len(u) = 0 PROVE Holds(rows_to_blocks(u), u, R)
    <3>1. u = <<>>
      BY <2>1, EmptySeq
    <3>2. rows_to_blocks(u) = <<EmptyBlock>>
      BY <3>1, PackIsFold, FoldEmpty
    <3>3. DecodeBlocks(<<EmptyBlock>>) = <<>>
      <4>1. /\ EmptyBlock \in PackedBlocks(R) /\ decode_block(EmptyBlock) = <<>>
            /\ Decodable(PackedBlocks(R), R)
        BY PackedBlock, DecodePacked DEF EmptyBlock
      <4>2. <<>> \in Seq(PackedBlocks(R))
        OBVIOUS
      <4>3. DecodeBlocks(<<>>) = <<>>
        BY <4>1, <4>2, DecodeAppend
      <4>4. DecodeBlocks(Append(<<>>, EmptyBlock)) = DecodeBlocks(<<>>) \o decode_block(EmptyBlock)
        BY <4>1, <4>2, DecodeAppend
      <4> QED
        BY <4>1, <4>3, <4>4
    <3> QED
      BY <3>1, <3>2, <3>3 DEF Holds, PartialBlocks
  <2> QED
    BY <2>1
<1>2. ASSUME NEW n \in Nat, n \in T PROVE n + 1 \in T
  <2>1. ASSUME NEW u \in Seq(E), Len(u) = n + 1 PROVE Holds(rows_to_blocks(u), u, R)
    <3> HIDE DEF E
    <3>0. u # <<>>
      BY <2>1, EmptySeq
    <3>1. PICK v \in Seq(E), row \in E : u = Append(v, row)
      BY <2>1, <3>0, SequenceEmptyOrAppend
    <3>2. Len(v) = n
      BY <2>1, <3>1
    <3>3. Holds(rows_to_blocks(v), v, R)
      BY <1>2, <3>2
    <3>4. rows_to_blocks(u) = PackRow(rows_to_blocks(v), row)
      <4>1. /\ rows_to_blocks(v) = Fold(PackStep(R), <<EmptyBlock>>, v)
            /\ rows_to_blocks(u) = Fold(PackStep(R), <<EmptyBlock>>, u)
        BY <3>1, PackIsFold DEF E
      <4>2. Fold(PackStep(R), <<EmptyBlock>>, u) = PackStep(R)[<<rows_to_blocks(v), row>>]
        BY <3>1, <4>1, FoldAppend
      <4>3. rows_to_blocks(v) \in PartialBlocks(R) /\ row \in FittingRows(R)
        BY <3>3 DEF Holds, E
      <4> QED
        BY <4>1, <4>2, <4>3 DEF PackStep
    <3>5. PacksRow(rows_to_blocks(v), row, rows_to_blocks(u), R)
      BY <3>3, <3>4, PackRowFacts DEF Holds, E
    <3> QED
      BY <3>1, <3>3, <3>5 DEF Holds, PacksRow, PartialBlocks
  <2> QED
    BY <2>1
<1>3. rows \in Seq(E)
  BY DEF Packable, FittingRows
<1> HIDE DEF T, E
<1>4. Len(rows) \in T
  BY <1>1, <1>2, <1>3, SetInduction, LenProperties
<1> QED
  BY <1>3, <1>4 DEF T
-----------------------------------------------------------------------------
\* Sequences of rows one after the other.
ConcatStep(R) == [x \in Seq(R) \X Seq(R) |-> x[1] \o x[2]]

LEMMA FlattenIsFold ==
    ASSUME NEW R, NEW runs \in Seq(Seq(R))
    PROVE  /\ FoldTypes(Seq(R), Seq(R), ConcatStep(R), <<>>, runs)
           /\ FlattenSeq(runs) = Fold(ConcatStep(R), <<>>, runs)
<1> DEFINE S == Seq(R)
<1>0. \A x, y \in S : x \o y \in S /\ <<>> \o y = y
  BY ConcatEmptySeq
<1>1. FoldTypes(S, S, ConcatStep(R), <<>>, runs)
  <2>1. <<>> \in S
    OBVIOUS
  <2> HIDE DEF S
  <2>2. ConcatStep(R) \in [S \X S -> S]
    BY <1>0 DEF ConcatStep, S
  <2> QED
    BY <2>1, <2>2 DEF FoldTypes, S
<1>2. runs \in Seq(S) /\ DOMAIN runs = 1 .. Len(runs) /\ Len(runs) \in Nat
  BY LenProperties
<1>3. \A i \in 1 .. Len(runs) : runs[i] \in S
  BY ElementOfSeq
<1>4. CASE Len(runs) = 0
  <2>1. runs = <<>>
    BY <1>4, EmptySeq
  <2> QED
    BY <1>1, <1>4, <2>1, FoldEmpty DEF FlattenSeq
<1>5. CASE Len(runs) # 0
  <2>1. PICK f : /\ IsFoldOf(f, ConcatStep(R), <<>>, runs)
                 /\ Fold(ConcatStep(R), <<>>, runs) = f[Len(runs)]
    BY <1>2, FoldExists, Zenon
  <2> DEFINE Body(g) == [i \in 1 .. Len(runs) |->
                            IF i = 1 THEN runs[i] ELSE g[i - 1] \o runs[i]]
             flatten == CHOOSE g : g = Body(g)
             P == {n \in Nat : n <= Len(runs) => f[n] \in S}
  <2>2. FlattenSeq(runs) = flatten[Len(runs)]
    BY <1>5, Zenon DEF FlattenSeq
  <2>3. \A k \in 1 .. Len(runs) : f[k] = ConcatStep(R)[<<f[k - 1], runs[k]>>]
    BY <2>1 DEF IsFoldOf
  <2>s. \A x, y \in S : ConcatStep(R)[<<x, y>>] = x \o y
    BY DEF ConcatStep
  <2>4. 0 \in P
    <3>1. f[0] = <<>> /\ <<>> \in S
      BY <2>1 DEF IsFoldOf
    <3> QED
      BY <3>1
  <2>5. ASSUME NEW n \in Nat, n \in P PROVE n + 1 \in P
    <3> SUFFICES ASSUME n + 1 <= Len(runs) PROVE f[n + 1] \in S
      OBVIOUS
    <3>1. PICK k \in Nat : k = n + 1
      OBVIOUS
    <3>2. k \in 1 .. Len(runs) /\ k - 1 = n /\ f[k - 1] \in S
      BY <1>2, <2>5, <3>1
    <3>3. runs[k] \in S
      BY <1>3, <3>2
    <3> HIDE DEF S
    <3>4. f[k] \in S
      <4>1. f[k] = f[k - 1] \o runs[k]
        BY <2>3, <2>s, <3>2, <3>3
      <4>2. f[k - 1] \o runs[k] \in S
        BY <1>0, <3>2, <3>3, Zenon
      <4> QED
        BY <4>1, <4>2, Zenon
    <3> QED
      BY <3>1, <3>4
  <2> HIDE DEF P
  <2>6. \A n \in Nat : n \in P
    BY <2>4, <2>5, SetInduction
  <2>7. \A n \in 0 .. Len(runs) : f[n] \in S
    BY <2>6 DEF P
  <2> HIDE DEF S
  <2>8. ASSUME NEW k \in 1 .. Len(runs)
        PROVE  f[k] = IF k = 1 THEN runs[k] ELSE f[k - 1] \o runs[k]
    <3>1. f[k] = f[k - 1] \o runs[k]
      <4>1. k - 1 \in 0 .. Len(runs)
        BY <1>2
      <4>2. f[k - 1] \in S /\ runs[k] \in S
        BY <1>3, <2>7, <4>1
      <4> QED
        BY <2>3, <2>s, <4>2
    <3>2. k = 1 => f[k - 1] = <<>>
      BY <2>1 DEF IsFoldOf
    <3> QED
      BY <1>0, <1>3, <3>1, <3>2
  <2> DEFINE w == [k \in 1 .. Len(runs) |-> f[k]]
  <2>9. w = Body(w)
    <3>1. ASSUME NEW k \in 1 .. Len(runs)
          PROVE  w[k] = IF k = 1 THEN runs[k] ELSE w[k - 1] \o runs[k]
      <4>1. CASE k = 1
        BY <2>8, <4>1
      <4>2. CASE k # 1
        <5>1. k - 1 \in 1 .. Len(runs)
          BY <1>2, <4>2
        <5>2. w[k] = f[k] /\ w[k - 1] = f[k - 1]
          BY <5>1
        <5> QED
          BY <2>8, <4>2, <5>2
      <4> QED
        BY <4>1, <4>2
    <3> HIDE DEF w
    <3>2. w \in [1 .. Len(runs) -> {w[k] : k \in 1 .. Len(runs)}]
      BY DEF w
    <3> QED
      BY <3>1, <3>2
  <2>10. flatten = Body(flatten)
    BY <2>9, Zenon
  <2> HIDE DEF flatten, w
  <2>11. \A k \in 1 .. Len(runs) :
             flatten[k] = IF k = 1 THEN runs[k] ELSE flatten[k - 1] \o runs[k]
    BY <2>10, Zenon
  <2> DEFINE Q == {n \in Nat : n + 1 <= Len(runs) => flatten[n + 1] = f[n + 1]}
  <2>12. 0 \in Q
    <3>1. 0 + 1 = 1 /\ 1 \in 1 .. Len(runs)
      BY <1>2, <1>5
    <3>2. flatten[1] = f[1]
      BY <2>8, <2>11, <3>1
    <3> QED
      BY <3>1, <3>2
  <2>13. ASSUME NEW n \in Nat, n \in Q PROVE n + 1 \in Q
    <3> SUFFICES ASSUME (n + 1) + 1 <= Len(runs) PROVE flatten[(n + 1) + 1] = f[(n + 1) + 1]
      OBVIOUS
    <3>1. PICK k \in Nat : k = (n + 1) + 1
      OBVIOUS
    <3>2. k \in 1 .. Len(runs) /\ k # 1 /\ k - 1 = n + 1 /\ n + 1 <= Len(runs)
      BY <1>2, <3>1
    <3>3. flatten[k - 1] = f[k - 1]
      BY <2>13, <3>2
    <3>4. flatten[k] = f[k]
      BY <2>8, <2>11, <3>2, <3>3
    <3> QED
      BY <3>1, <3>4
  <2> HIDE DEF Q
  <2>14. \A n \in Nat : n \in Q
    BY <2>12, <2>13, SetInduction
  <2>15. PICK n \in Nat : n + 1 = Len(runs)
    <3>1. Len(runs) - 1 \in Nat /\ (Len(runs) - 1) + 1 = Len(runs)
      BY <1>2, <1>5
    <3> QED
      BY <3>1
  <2>16. flatten[Len(runs)] = f[Len(runs)]
    BY <2>14, <2>15 DEF Q
  <2> QED
    BY <1>1, <2>1, <2>2, <2>16, Zenon DEF S
<1> QED
  BY <1>4, <1>5

\* A run more, at the end.
LEMMA FlattenAppend ==
    ASSUME NEW R, NEW runs \in Seq(Seq(R)), NEW run \in Seq(R)
    PROVE  /\ FlattenSeq(runs) \in Seq(R)
           /\ FlattenSeq(<<>>) = <<>>
           /\ FlattenSeq(Append(runs, run)) = FlattenSeq(runs) \o run
<1> DEFINE S == Seq(R)
<1>1. /\ FoldTypes(S, S, ConcatStep(R), <<>>, runs)
      /\ FlattenSeq(runs) = Fold(ConcatStep(R), <<>>, runs)
  BY FlattenIsFold
<1>2. /\ FlattenSeq(<<>>) = Fold(ConcatStep(R), <<>>, <<>>)
      /\ FlattenSeq(Append(runs, run)) = Fold(ConcatStep(R), <<>>, Append(runs, run))
  <2>1. <<>> \in Seq(Seq(R)) /\ Append(runs, run) \in Seq(Seq(R))
    OBVIOUS
  <2> QED
    BY <2>1, FlattenIsFold
<1>s. \A x, y \in S : ConcatStep(R)[<<x, y>>] = x \o y
  BY DEF ConcatStep
<1>3. run \in S /\ runs \in Seq(S)
  OBVIOUS
<1> HIDE DEF S
<1>4. FlattenSeq(runs) \in S
  BY <1>1, FoldType, Zenon
<1>5. Fold(ConcatStep(R), <<>>, Append(runs, run))
          = ConcatStep(R)[<<Fold(ConcatStep(R), <<>>, runs), run>>]
  BY <1>3, FoldAppend
<1>6. FlattenSeq(Append(runs, run)) = FlattenSeq(runs) \o run
  BY <1>1, <1>2, <1>3, <1>4, <1>5, <1>s
<1>7. FlattenSeq(<<>>) = <<>>
  BY <1>2, FoldEmpty
<1> QED
  BY <1>4, <1>6, <1>7 DEF S

\* Runs after other runs.
LEMMA FlattenConcat ==
    ASSUME NEW R, NEW s \in Seq(Seq(R)), NEW t \in Seq(Seq(R))
    PROVE  FlattenSeq(s \o t) = FlattenSeq(s) \o FlattenSeq(t)
<1> DEFINE B == Seq(R)
           T == {n \in Nat : \A u \in Seq(B) : Len(u) = n =>
                    FlattenSeq(s \o u) = FlattenSeq(s) \o FlattenSeq(u)}
<1>f. \A u \in Seq(B) : \A b \in B :
          /\ FlattenSeq(u) \in Seq(R) /\ FlattenSeq(<<>>) = <<>>
          /\ FlattenSeq(Append(u, b)) = FlattenSeq(u) \o b
  BY FlattenAppend
<1>s. s \in Seq(B) /\ t \in Seq(B) /\ <<>> \in B
  OBVIOUS
<1>c. \A a, b, c \in B : (a \o b) \o c = a \o (b \o c)
  BY ConcatAssociative
<1>e. \A b \in B : b \in Seq(R)
  OBVIOUS
<1> HIDE DEF B
<1>1. 0 \in T
  <2>1. ASSUME NEW u \in Seq(B), Len(u) = 0
        PROVE  FlattenSeq(s \o u) = FlattenSeq(s) \o FlattenSeq(u)
    <3>1. u = <<>> /\ s \o u = s
      BY <1>s, <2>1, EmptySeq, ConcatEmptySeq
    <3>2. FlattenSeq(s) \in Seq(R) /\ FlattenSeq(u) = <<>>
      BY <1>f, <1>s, <3>1
    <3> QED
      BY <3>1, <3>2, ConcatEmptySeq
  <2> QED
    BY <2>1
<1>2. ASSUME NEW n \in Nat, n \in T PROVE n + 1 \in T
  <2>1. ASSUME NEW u \in Seq(B), Len(u) = n + 1
        PROVE  FlattenSeq(s \o u) = FlattenSeq(s) \o FlattenSeq(u)
    <3>1. PICK v \in Seq(B), b \in B : u = Append(v, b)
      <4>1. u # <<>>
        BY <2>1
      <4>2. \A S : \A q \in Seq(S) : q # <<>> => \E p \in Seq(S), e \in S : q = Append(p, e)
        BY SequenceEmptyOrAppend
      <4> QED
        BY <4>1, <4>2, Zenon
    <3>2. Len(v) = n
      BY <2>1, <3>1
    <3>3. FlattenSeq(s \o v) = FlattenSeq(s) \o FlattenSeq(v)
      BY <1>2, <3>2
    <3>4. s \o u = Append(s \o v, b) /\ s \o v \in Seq(B)
      <4>1. u = v \o <<b>> /\ <<b>> \in Seq(B) /\ s \o v \in Seq(B)
        BY <1>s, <3>1, AppendIsConcat, ConcatProperties
      <4> QED
        BY <1>s, <4>1, ConcatAssociative, AppendIsConcat
    <3>5. FlattenSeq(s \o u) = FlattenSeq(s \o v) \o b
      BY <1>f, <3>4
    <3>6. FlattenSeq(u) = FlattenSeq(v) \o b
      BY <1>f, <3>1
    <3>7. FlattenSeq(s) \in B /\ FlattenSeq(v) \in B
      BY <1>f, <1>s DEF B
    <3>8. (FlattenSeq(s) \o FlattenSeq(v)) \o b = FlattenSeq(s) \o (FlattenSeq(v) \o b)
      BY <1>c, <3>7, Zenon
    <3> QED
      BY <3>3, <3>5, <3>6, <3>8, Zenon
  <2> QED
    BY <2>1
<1> HIDE DEF T
<1>3. Len(t) \in T
  BY <1>1, <1>2, <1>s, SetInduction, LenProperties
<1> QED
  BY <1>3, <1>s DEF T

\* The elements of two sequences, one after the other.
LEMMA ToSetConcat ==
    ASSUME NEW R, NEW s \in Seq(R), NEW t \in Seq(R)
    PROVE  ToSet(s \o t) = ToSet(s) \cup ToSet(t)
<1> DEFINE u == s \o t
<1>1. PICK m \in Nat, n \in Nat : m = Len(s) /\ n = Len(t)
  BY LenProperties
<1>2. /\ DOMAIN s = 1 .. m /\ DOMAIN t = 1 .. n /\ DOMAIN u = 1 .. m + n
      /\ \A i \in 1 .. m + n : u[i] = IF i <= m THEN s[i] ELSE t[i - m]
  BY <1>1, ConcatProperties, LenProperties
<1> HIDE DEF u
<1>3. /\ \A i \in 1 .. m : i \in 1 .. m + n /\ u[i] = s[i]
      /\ \A i \in 1 .. n : m + i \in 1 .. m + n /\ u[m + i] = t[i]
  BY <1>2
<1>4. \A i \in 1 .. m + n : i \in 1 .. m \/ \E j \in 1 .. n : i = m + j
  <2>1. \A i \in 1 .. m + n : i \in 1 .. m \/ (i - m \in 1 .. n /\ i = m + (i - m))
    OBVIOUS
  <2> QED
    BY <2>1
<1>5. \A x : x \in ToSet(u) <=> x \in ToSet(s) \/ x \in ToSet(t)
  <2>1. ASSUME NEW x \in ToSet(u) PROVE x \in ToSet(s) \/ x \in ToSet(t)
    <3>1. PICK i \in 1 .. m + n : x = u[i]
      BY <1>2 DEF ToSet
    <3>2. CASE i \in 1 .. m
      BY <1>2, <1>3, <3>1, <3>2 DEF ToSet
    <3>3. CASE \E j \in 1 .. n : i = m + j
      BY <1>2, <1>3, <3>1, <3>3 DEF ToSet
    <3> QED
      BY <1>4, <3>2, <3>3
  <2>2. ASSUME NEW x, x \in ToSet(s) PROVE x \in ToSet(u)
    BY <1>2, <1>3, <2>2 DEF ToSet
  <2>3. ASSUME NEW x, x \in ToSet(t) PROVE x \in ToSet(u)
    BY <1>2, <1>3, <2>3 DEF ToSet
  <2> QED
    BY <2>1, <2>2, <2>3
<1> QED
  BY <1>5 DEF u

\* The rows of some runs are those of every one of them.
LEMMA FlattenRows ==
    ASSUME NEW R, NEW runs \in Seq(Seq(R))
    PROVE  \A row : row \in ToSet(FlattenSeq(runs)) <=>
                        \E i \in DOMAIN runs : row \in ToSet(runs[i])
<1> DEFINE S == Seq(R)
           Same(u) == \A row : row \in ToSet(FlattenSeq(u)) <=>
                                   \E i \in DOMAIN u : row \in ToSet(u[i])
           T == {n \in Nat : \A u \in Seq(S) : Len(u) = n => Same(u)}
<1>1. 0 \in T
  <2>1. ASSUME NEW u \in Seq(S), Len(u) = 0 PROVE Same(u)
    <3>1. u = <<>> /\ DOMAIN u = {}
      BY <2>1, EmptySeq
    <3>2. FlattenSeq(u) = <<>> /\ ToSet(<<>>) = {}
      BY <3>1, FlattenAppend DEF ToSet
    <3> QED
      BY <3>1, <3>2
  <2> QED
    BY <2>1
<1>2. ASSUME NEW n \in Nat, n \in T PROVE n + 1 \in T
  <2>1. ASSUME NEW u \in Seq(S), Len(u) = n + 1 PROVE Same(u)
    <3> HIDE DEF S
    <3>0. u # <<>>
      BY <2>1, EmptySeq
    <3>1. PICK v \in Seq(S), run \in S : u = Append(v, run)
      BY <3>0, SequenceEmptyOrAppend
    <3>2. /\ Len(v) = n /\ DOMAIN v = 1 .. n /\ DOMAIN u = 1 .. n + 1
          /\ \A i \in 1 .. n : u[i] = v[i]
          /\ u[n + 1] = run
      BY <2>1, <3>1
    <3>3. Same(v)
      BY <1>2, <3>2
    <3>4. ToSet(FlattenSeq(u)) = ToSet(FlattenSeq(v)) \cup ToSet(run)
      <4>1. FlattenSeq(v) \in Seq(R) /\ FlattenSeq(u) = FlattenSeq(v) \o run /\ run \in Seq(R)
        BY <3>1, FlattenAppend DEF S
      <4> QED
        BY <4>1, ToSetConcat
    <3>5. \A i \in 1 .. n + 1 : i \in 1 .. n \/ i = n + 1
      OBVIOUS
    <3>6. n + 1 \in 1 .. n + 1 /\ \A i \in 1 .. n : i \in 1 .. n + 1
      OBVIOUS
    <3>7. ASSUME NEW row
          PROVE  (\E i \in DOMAIN u : row \in ToSet(u[i]))
                     <=> (\E i \in DOMAIN v : row \in ToSet(v[i])) \/ row \in ToSet(run)
      BY <3>2, <3>5, <3>6, Zenon
    <3> QED
      BY <3>3, <3>4, <3>7
  <2> QED
    BY <2>1
<1> HIDE DEF T
<1>3. Len(runs) \in T
  BY <1>1, <1>2, SetInduction, LenProperties
<1> QED
  BY <1>3 DEF T

\* A row less in one of the runs.
ShorterAt(runs, rest, i) ==
    /\ Len(rest) = Len(runs) /\ i \in 1 .. Len(runs)
    /\ Len(runs[i]) = Len(rest[i]) + 1
    /\ \A j \in 1 .. Len(runs) : j # i => rest[j] = runs[j]

LEMMA FlattenShorter ==
    ASSUME NEW R, NEW runs \in Seq(Seq(R)), NEW rest \in Seq(Seq(R)), NEW i,
           ShorterAt(runs, rest, i)
    PROVE  Len(FlattenSeq(runs)) = Len(FlattenSeq(rest)) + 1
<1> DEFINE S == Seq(R)
           T == {n \in Nat : \A u, v \in Seq(S), k \in Nat : Len(u) = n /\ ShorterAt(u, v, k) =>
                    Len(FlattenSeq(u)) = Len(FlattenSeq(v)) + 1}
<1>1. 0 \in T
  BY DEF ShorterAt
<1>2. ASSUME NEW n \in Nat, n \in T PROVE n + 1 \in T
  <2>1. ASSUME NEW u \in Seq(S), NEW v \in Seq(S), NEW k \in Nat,
               Len(u) = n + 1, ShorterAt(u, v, k)
        PROVE  Len(FlattenSeq(u)) = Len(FlattenSeq(v)) + 1
    <3> HIDE DEF S
    <3>0. u # <<>> /\ v # <<>> /\ Len(v) = n + 1
      BY <2>1, EmptySeq DEF ShorterAt
    <3>1. PICK u0 \in Seq(S), a \in S : u = Append(u0, a)
      BY <3>0, SequenceEmptyOrAppend
    <3>2. PICK v0 \in Seq(S), b \in S : v = Append(v0, b)
      BY <3>0, SequenceEmptyOrAppend
    <3>3. /\ Len(u0) = n /\ \A j \in 1 .. n : u[j] = u0[j]
          /\ u[n + 1] = a
      BY <2>1, <3>1
    <3>4. /\ Len(v0) = n /\ \A j \in 1 .. n : v[j] = v0[j]
          /\ v[n + 1] = b
      BY <3>0, <3>2
    <3>5. /\ FlattenSeq(u0) \in S /\ FlattenSeq(v0) \in S
          /\ FlattenSeq(u) = FlattenSeq(u0) \o a /\ FlattenSeq(v) = FlattenSeq(v0) \o b
      BY <3>1, <3>2, FlattenAppend DEF S
    <3>6. /\ Len(FlattenSeq(u)) = Len(FlattenSeq(u0)) + Len(a)
          /\ Len(FlattenSeq(v)) = Len(FlattenSeq(v0)) + Len(b)
          /\ Len(FlattenSeq(u0)) \in Nat /\ Len(FlattenSeq(v0)) \in Nat
          /\ Len(a) \in Nat /\ Len(b) \in Nat
      BY <3>5, ConcatProperties, LenProperties DEF S
    <3>7. CASE k = n + 1
      <4>1. \A j \in 1 .. n : j \in 1 .. Len(u) /\ j # k
        BY <2>1, <3>7
      <4>2. \A j \in 1 .. n : u0[j] = v0[j]
        BY <2>1, <3>3, <3>4, <4>1 DEF ShorterAt
      <4>3. u0 = v0
        BY <3>3, <3>4, <4>2, SeqEqual
      <4>4. Len(a) = Len(b) + 1
        BY <2>1, <3>3, <3>4, <3>7 DEF ShorterAt
      <4> QED
        BY <3>6, <4>3, <4>4
    <3>8. CASE k # n + 1
      <4>1. k \in 1 .. n /\ n + 1 \in 1 .. Len(u)
        BY <2>1, <3>8 DEF ShorterAt
      <4>2. a = b
        BY <2>1, <3>3, <3>4, <3>8, <4>1 DEF ShorterAt
      <4>3. ShorterAt(u0, v0, k)
        <5>1. /\ Len(u[k]) = Len(v[k]) + 1
              /\ \A j \in 1 .. n + 1 : j # k => v[j] = u[j]
          BY <2>1 DEF ShorterAt
        <5>2. \A j \in 1 .. n : j \in 1 .. n + 1
          OBVIOUS
        <5> QED
          BY <3>3, <3>4, <4>1, <5>1, <5>2 DEF ShorterAt
      <4>4. Len(FlattenSeq(u0)) = Len(FlattenSeq(v0)) + 1
        BY <1>2, <3>3, <4>3
      <4> QED
        BY <3>6, <4>2, <4>4
    <3> QED
      BY <3>7, <3>8
  <2> QED
    BY <2>1
<1> HIDE DEF T
<1>3. Len(runs) \in T
  BY <1>1, <1>2, SetInduction, LenProperties
<1>4. i \in Nat
  BY LenProperties DEF ShorterAt
<1> QED
  BY <1>3, <1>4 DEF T
-----------------------------------------------------------------------------
\* The disk of a query: every block written is below the cursor.
SoundDisk(disk, B) ==
    /\ disk \in [pages : {disk.pages}, next_anon_block : Nat]
    /\ disk.pages \in [DOMAIN disk.pages -> B]
    /\ \A b \in DOMAIN disk.pages : b \in Nat /\ b < disk.next_anon_block

\* A spill takes the next blocks, fills them, and leaves the others alone.
LEMMA SpillExtends ==
    ASSUME NEW B, NEW disk, SoundDisk(disk, B), NEW blocks \in Seq(B)
    PROVE  LET next == disk.next_anon_block
               spilled == Spill(disk, blocks)
           IN  /\ SoundDisk(spilled, B)
               /\ spilled.next_anon_block = next + Len(blocks)
               /\ DOMAIN spilled.pages = DOMAIN disk.pages
                                           \cup (next .. next + Len(blocks) - 1)
               /\ \A b \in DOMAIN disk.pages : spilled.pages[b] = disk.pages[b]
               /\ \A i \in 1 .. Len(blocks) : spilled.pages[next + i - 1] = blocks[i]
<1> DEFINE next == disk.next_anon_block
           spilled == Spill(disk, blocks)
           written == next .. next + Len(blocks) - 1
           page(b) == IF b \in written THEN blocks[b - next + 1] ELSE disk.pages[b]
<1>1. next \in Nat /\ Len(blocks) \in Nat
  BY LenProperties DEF SoundDisk
<1>2. PICK D \in SUBSET Nat : disk.pages \in [D -> B]
  BY DEF SoundDisk
<1>3. spilled = [pages |-> [b \in D \cup written |-> page(b)],
                 next_anon_block |-> next + Len(blocks)]
  <2>1. disk \in [pages : {disk.pages}, next_anon_block : Nat] /\ DOMAIN disk.pages = D
    BY <1>2 DEF SoundDisk
  <2> DEFINE moved == alloc_anon_blocks(disk, Len(blocks))
  <2>2. moved = [pages |-> disk.pages, next_anon_block |-> next + Len(blocks)]
    BY <1>1, <2>1 DEF alloc_anon_blocks
  <2>3. spilled = write_blocks(moved, next, blocks)
    BY Zenon DEF Spill
  <2> HIDE DEF moved, spilled, next
  <2>4. spilled = [moved EXCEPT !.pages =
                      [b \in DOMAIN moved.pages \cup written |->
                          IF b \in written THEN blocks[b - next + 1]
                          ELSE moved.pages[b]]]
    BY <2>3 DEF write_blocks
  <2> QED
    BY <2>1, <2>2, <2>4
<1>4. \A b \in D \cup written : page(b) \in B
  <2>1. ASSUME NEW b \in written PROVE b - next + 1 \in 1 .. Len(blocks)
    BY <1>1
  <2> QED
    BY <1>1, <1>2, <2>1, ElementOfSeq
<1>5. \A b \in D : b < next
  BY <1>2 DEF SoundDisk
<1>6. D \cup written \in SUBSET Nat
  <2>1. \A b \in written : b \in Nat
    BY <1>1
  <2> QED
    BY <2>1
<1>7. SoundDisk(spilled, B)
  <2>1. [b \in D \cup written |-> page(b)] \in [D \cup written -> B]
    BY <1>4
  <2> HIDE DEF page, spilled
  <2>2. next + Len(blocks) \in Nat
    BY <1>1
  <2>3. /\ spilled \in [pages : {spilled.pages}, next_anon_block : Nat]
        /\ spilled.pages \in [DOMAIN spilled.pages -> B]
    <3> HIDE DEF written, next
    <3> QED
      BY <1>3, <2>1, <2>2
  <2>4. \A b \in D \cup written : b < next + Len(blocks)
    BY <1>1, <1>5, <1>6
  <2>5. DOMAIN spilled.pages = D \cup written /\ spilled.next_anon_block = next + Len(blocks)
    BY <1>3
  <2> QED
    BY <1>6, <2>3, <2>4, <2>5 DEF SoundDisk
<1>p. spilled.pages = [b \in D \cup written |-> page(b)]
  <2> HIDE DEF spilled, page, written, next
  <2> QED
    BY <1>3
<1>8. \A b \in D : spilled.pages[b] = disk.pages[b]
  <2>1. \A b \in D : b \notin written
    BY <1>1, <1>5, <1>6
  <2> HIDE DEF spilled, written, next
  <2> SUFFICES ASSUME NEW b \in D PROVE spilled.pages[b] = disk.pages[b]
    OBVIOUS
  <2>2. b \notin written /\ b \in D \cup written
    BY <2>1
  <2>3. page(b) = disk.pages[b]
    BY <2>2
  <2> HIDE DEF page
  <2>4. spilled.pages[b] = page(b)
    BY <1>p, <2>2
  <2> QED
    BY <2>3, <2>4
<1>9. ASSUME NEW i \in 1 .. Len(blocks)
      PROVE  spilled.pages[next + i - 1] = blocks[i]
  <2> DEFINE b == next + i - 1
  <2>1. b \in written /\ b - next + 1 = i
    BY <1>1
  <2> HIDE DEF spilled, written, next, b
  <2>2. page(b) = blocks[i]
    BY <2>1
  <2> HIDE DEF page
  <2>3. spilled.pages[b] = page(b)
    BY <1>p, <2>1
  <2> QED
    BY <2>2, <2>3 DEF b
<1>10. /\ DOMAIN spilled.pages = DOMAIN disk.pages \cup written
       /\ spilled.next_anon_block = next + Len(blocks)
  BY <1>2, <1>3
<1>11. \A b \in DOMAIN disk.pages : spilled.pages[b] = disk.pages[b]
  BY <1>2, <1>8
<1> QED
  BY <1>7, <1>9, <1>10, <1>11, Zenon

\* The blocks read from a region that was written.
LEMMA ReadWritten ==
    ASSUME NEW B, NEW disk, SoundDisk(disk, B), NEW start \in Nat, NEW count \in Nat,
           Readable(disk, start, count)
    PROVE  /\ read_blocks(disk, start, count) \in Seq(B)
           /\ Len(read_blocks(disk, start, count)) = count
<1>1. PICK D \in SUBSET Nat : disk.pages \in [D -> B]
  BY DEF SoundDisk
<1>2. \A i \in 1 .. count : start + i - 1 \in D
  <2>1. \A i \in 1 .. count : start + i - 1 \in start .. start + count - 1
    OBVIOUS
  <2> QED
    BY <1>1, <2>1 DEF Readable
<1>3. \A i \in 1 .. count : disk.pages[start + i - 1] \in B
  BY <1>1, <1>2
<1> QED
  BY <1>3 DEF read_blocks

\* A spill can be read back, and does not change what was readable before.
LEMMA ReadAfterSpill ==
    ASSUME NEW B, NEW disk, SoundDisk(disk, B), NEW blocks \in Seq(B)
    PROVE  LET next == disk.next_anon_block
               spilled == Spill(disk, blocks)
           IN  /\ Readable(spilled, next, Len(blocks))
               /\ read_blocks(spilled, next, Len(blocks)) = blocks
               /\ \A start, count \in Nat :
                     Readable(disk, start, count) =>
                         /\ Readable(spilled, start, count)
                         /\ read_blocks(spilled, start, count)
                                = read_blocks(disk, start, count)
<1> DEFINE next == disk.next_anon_block
           spilled == Spill(disk, blocks)
<1>1. /\ DOMAIN spilled.pages = DOMAIN disk.pages \cup (next .. next + Len(blocks) - 1)
      /\ \A b \in DOMAIN disk.pages : spilled.pages[b] = disk.pages[b]
      /\ \A i \in 1 .. Len(blocks) : spilled.pages[next + i - 1] = blocks[i]
  BY SpillExtends
<1>2. next \in Nat /\ Len(blocks) \in Nat
  BY LenProperties DEF SoundDisk
<1> HIDE DEF next, spilled
<1>3. Readable(spilled, next, Len(blocks))
  BY <1>1 DEF Readable
<1>4. read_blocks(spilled, next, Len(blocks)) = blocks
  <2>1. read_blocks(spilled, next, Len(blocks)) = [i \in 1 .. Len(blocks) |-> blocks[i]]
    BY <1>1 DEF read_blocks
  <2> QED
    BY <2>1
<1>5. ASSUME NEW start \in Nat, NEW count \in Nat, Readable(disk, start, count)
      PROVE  /\ Readable(spilled, start, count)
             /\ read_blocks(spilled, start, count) = read_blocks(disk, start, count)
  <2>1. \A i \in 1 .. count : start + i - 1 \in DOMAIN disk.pages
    <3>1. \A i \in 1 .. count : start + i - 1 \in start .. start + count - 1
      OBVIOUS
    <3> QED
      BY <1>5, <3>1 DEF Readable
  <2> QED
    BY <1>1, <1>5, <2>1 DEF Readable, read_blocks
<1> QED
  BY <1>3, <1>4, <1>5 DEF next, spilled

AdjoiningReads(disk, start, m, n) ==
    /\ read_blocks(disk, start, m + n)
           = read_blocks(disk, start, m) \o read_blocks(disk, start + m, n)
    /\ Readable(disk, start, m + n) <=>
           Readable(disk, start, m) /\ Readable(disk, start + m, n)

\* Reading two regions that adjoin each other is reading both at once.
LEMMA ReadAdjacent ==
    ASSUME NEW disk, NEW start \in Nat, NEW m \in Nat, NEW n \in Nat
    PROVE  AdjoiningReads(disk, start, m, n)
<1>1. start .. start + (m + n) - 1
          = (start .. start + m - 1) \cup (start + m .. (start + m) + n - 1)
  OBVIOUS
<1>2. Readable(disk, start, m + n) <=>
          Readable(disk, start, m) /\ Readable(disk, start + m, n)
  BY <1>1 DEF Readable
<1> DEFINE s == read_blocks(disk, start, m)
           t == read_blocks(disk, start + m, n)
<1>3. /\ s = [i \in 1 .. m |-> disk.pages[start + i - 1]]
      /\ t = [i \in 1 .. n |-> disk.pages[(start + m) + i - 1]]
  BY DEF read_blocks
<1>4. Len(s) = m /\ Len(t) = n
  BY <1>3
<1>5. /\ \E S : s \o t \in Seq(S)
      /\ Len(s \o t) = m + n
      /\ \A i \in 1 .. m + n : (s \o t)[i] = IF i <= m THEN s[i] ELSE t[i - m]
  <2> DEFINE B == {disk.pages[b] : b \in Nat}
  <2>1. /\ \A i \in 1 .. m : start + i - 1 \in Nat
        /\ \A i \in 1 .. n : (start + m) + i - 1 \in Nat
    OBVIOUS
  <2>2. /\ \A i \in 1 .. m : disk.pages[start + i - 1] \in B
        /\ \A i \in 1 .. n : disk.pages[(start + m) + i - 1] \in B
    BY <2>1
  <2> HIDE DEF B
  <2>3. s \in Seq(B) /\ t \in Seq(B)
    <3>1. s \in [1 .. m -> B]
      BY <1>3, <2>2, Zenon
    <3>2. t \in [1 .. n -> B]
      BY <1>3, <2>2, Zenon
    <3> HIDE DEF s, t
    <3> QED
      BY <3>1, <3>2
  <2> HIDE DEF s, t
  <2>4. /\ s \o t \in Seq(B) /\ Len(s \o t) = m + n
        /\ \A i \in 1 .. m + n : (s \o t)[i] = IF i <= m THEN s[i] ELSE t[i - m]
    BY <1>4, <2>3, ConcatProperties
  <2> QED
    BY <2>4
<1>6. ASSUME NEW i \in 1 .. m + n
      PROVE  (IF i <= m THEN s[i] ELSE t[i - m]) = disk.pages[start + i - 1]
  <2>1. CASE i <= m
    BY <1>3, <2>1
  <2>2. CASE ~(i <= m)
    <3>1. i - m \in 1 .. n /\ (start + m) + (i - m) - 1 = start + i - 1
      BY <2>2
    <3>2. t[i - m] = disk.pages[(start + m) + (i - m) - 1]
      BY <1>3, <3>1
    <3> QED
      BY <2>2, <3>1, <3>2
  <2> QED
    BY <2>1, <2>2
<1>7. s \o t = [i \in 1 .. m + n |-> disk.pages[start + i - 1]]
  <2> DEFINE u == s \o t
  <2> HIDE DEF s, t
  <2>1. \A i \in 1 .. m + n : u[i] = disk.pages[start + i - 1]
    BY <1>5, <1>6
  <2>2. PICK S : u \in Seq(S)
    BY <1>5
  <2>3. Len(u) = m + n
    BY <1>5
  <2> HIDE DEF u
  <2>4. u = [i \in 1 .. m + n |-> u[i]]
    BY <2>2, <2>3
  <2> QED
    BY <2>1, <2>4 DEF u
<1> QED
  BY <1>2, <1>7 DEF read_blocks, AdjoiningReads
-----------------------------------------------------------------------------
\* The memory of some rows is a sum, in whatever order they are.
MemStep(R) == [x \in Nat \X R |-> x[1] + x[2].mem]

\* MemoryOf adds up the rows from the first to the last.
LEMMA MemoryIsFold ==
    ASSUME NEW R, \A r \in R : r.mem \in Nat, NEW rows \in Seq(R)
    PROVE  /\ FoldTypes(Nat, R, MemStep(R), 0, rows)
           /\ MemoryOf(rows) = Fold(MemStep(R), 0, rows)
<1> DEFINE Body(g) == [t \in SUBSET (DOMAIN rows) |->
                          IF t = {} THEN 0 ELSE g[t \ {Max(t)}] + rows[Max(t)].mem]
           ot == CHOOSE g : g = Body(g)
<1>1. MemoryOf(rows) = ot[DOMAIN rows]
  BY Zenon DEF MemoryOf, FoldLeft, MapThenFoldSet
<1>2. FoldTypes(Nat, R, MemStep(R), 0, rows)
  BY DEF MemStep, FoldTypes
<1>3. PICK it \in [SUBSET (DOMAIN rows) -> Nat] : IsIteration(it, MemStep(R), 0, rows)
  BY <1>2, IterationExists, Zenon
<1>4. \A t \in SUBSET (DOMAIN rows) : t # {} => Max(t) \in t /\ rows[Max(t)] \in R
  <2>1. DOMAIN rows = 1 .. Len(rows) /\ Len(rows) \in Nat
    BY LenProperties
  <2> QED
    BY <2>1, MaxOfPositions, ElementOfSeq
<1>5. it = Body(it)
  <2>1. ASSUME NEW t \in SUBSET (DOMAIN rows)
        PROVE  it[t] = IF t = {} THEN 0 ELSE it[t \ {Max(t)}] + rows[Max(t)].mem
    <3>1. CASE t = {}
      BY <1>3, <3>1 DEF IsIteration
    <3>2. CASE t # {}
      <4>1. it[t] = MemStep(R)[<<it[t \ {Max(t)}], rows[Max(t)]>>]
        BY <1>3, <3>2 DEF IsIteration
      <4>2. it[t \ {Max(t)}] \in Nat /\ rows[Max(t)] \in R
        BY <1>3, <1>4, <3>2
      <4> QED
        BY <3>2, <4>1, <4>2 DEF MemStep
    <3> QED
      BY <3>1, <3>2
  <2> QED
    BY <1>3, <2>1
<1>6. ot = Body(ot)
  BY <1>5, Zenon
<1> HIDE DEF ot
<1>7. ot[{}] = 0
  BY <1>6
<1>8. ASSUME NEW k \in 1 .. Len(rows), ot[1 .. k - 1] \in Nat
      PROVE  ot[1 .. k] = MemStep(R)[<<ot[1 .. k - 1], rows[k]>>]
  <2>1. /\ 1 .. k \in SUBSET (DOMAIN rows) /\ rows[k] \in R
        /\ k \in Nat \ {0} /\ 1 .. k # {}
    BY LenProperties
  <2>2. Max(1 .. k) = k /\ (1 .. k) \ {k} = 1 .. k - 1
    BY <2>1, MaxOfInterval
  <2>3. ot[1 .. k] = ot[1 .. k - 1] + rows[k].mem
    BY <1>6, <2>1, <2>2
  <2> QED
    BY <1>8, <2>1, <2>3 DEF MemStep
<1>9. IteratesPrefixes(ot, Nat, R, MemStep(R), 0, rows)
  BY <1>2, <1>7, <1>8 DEF IteratesPrefixes
<1>10. ot[DOMAIN rows] = Fold(MemStep(R), 0, rows)
  BY <1>9, IterationIsFold
<1> QED
  BY <1>1, <1>2, <1>10, Zenon

\* A row more.
LEMMA MemoryAppend ==
    ASSUME NEW R, \A r \in R : r.mem \in Nat, NEW rows \in Seq(R)
    PROVE  /\ MemoryOf(rows) \in Nat /\ MemoryOf(<<>>) = 0
           /\ \A row \in R : MemoryOf(Append(rows, row)) = MemoryOf(rows) + row.mem
<1>1. /\ FoldTypes(Nat, R, MemStep(R), 0, rows)
      /\ MemoryOf(rows) = Fold(MemStep(R), 0, rows)
  BY MemoryIsFold
<1>2. MemoryOf(rows) \in Nat
  <2>1. Fold(MemStep(R), 0, rows) \in Nat
    BY <1>1, FoldType, Zenon
  <2> QED
    BY <1>1, <2>1
<1>3. MemoryOf(<<>>) = 0
  <2>1. <<>> \in Seq(R)
    OBVIOUS
  <2> QED
    BY <2>1, MemoryIsFold, FoldEmpty
<1>4. ASSUME NEW row \in R PROVE MemoryOf(Append(rows, row)) = MemoryOf(rows) + row.mem
  <2>1. Append(rows, row) \in Seq(R)
    OBVIOUS
  <2>2. MemoryOf(Append(rows, row)) = Fold(MemStep(R), 0, Append(rows, row))
    BY <2>1, MemoryIsFold
  <2>3. Fold(MemStep(R), 0, Append(rows, row)) = MemStep(R)[<<MemoryOf(rows), row>>]
    BY <1>1, FoldAppend
  <2> QED
    BY <1>2, <2>2, <2>3 DEF MemStep
<1> QED
  BY <1>2, <1>3, <1>4

\* The sums over the subsets of the positions.
SumsMemory(sum, rows) ==
    /\ sum \in [SUBSET (DOMAIN rows) -> Nat] /\ sum[{}] = 0
    /\ \A t \in SUBSET (DOMAIN rows) : \A x \in t : sum[t] = sum[t \ {x}] + rows[x].mem

\* MemoryOf is such a sum over all positions.
LEMMA MemorySum ==
    ASSUME NEW R, \A r \in R : r.mem \in Nat, NEW rows \in Seq(R)
    PROVE  \E sum : SumsMemory(sum, rows) /\ MemoryOf(rows) = sum[DOMAIN rows]
<1>1. /\ FoldTypes(Nat, R, MemStep(R), 0, rows)
      /\ MemoryOf(rows) = Fold(MemStep(R), 0, rows)
  BY MemoryIsFold
<1>2. PICK sum \in [SUBSET (DOMAIN rows) -> Nat] : IsIteration(sum, MemStep(R), 0, rows)
  BY <1>1, IterationExists, Zenon
<1>3. /\ DOMAIN rows = 1 .. Len(rows) /\ Len(rows) \in Nat
      /\ \A i \in DOMAIN rows : rows[i] \in R /\ rows[i].mem \in Nat
  BY LenProperties, ElementOfSeq
<1>4. sum[{}] = 0
  BY <1>2 DEF IsIteration
<1>5. ASSUME NEW t \in SUBSET (DOMAIN rows), t # {}
      PROVE  /\ Max(t) \in t /\ \A y \in t : y <= Max(t)
             /\ sum[t] = sum[t \ {Max(t)}] + rows[Max(t)].mem
  <2>1. Max(t) \in t /\ \A y \in t : y <= Max(t)
    BY <1>3, <1>5, MaxOfPositions
  <2>2. sum[t] = MemStep(R)[<<sum[t \ {Max(t)}], rows[Max(t)]>>]
    BY <1>2, <1>5 DEF IsIteration
  <2>3. sum[t \ {Max(t)}] \in Nat /\ rows[Max(t)] \in R
    BY <1>2, <1>3, <2>1
  <2> QED
    BY <2>1, <2>2, <2>3 DEF MemStep
<1> DEFINE Sums(t) == \A x \in t : sum[t] = sum[t \ {x}] + rows[x].mem
           T == {n \in Nat : n <= Len(rows) => \A t \in SUBSET (1 .. n) : Sums(t)}
<1>6. 0 \in T
  <2>1. 1 .. 0 = {}
    OBVIOUS
  <2> QED
    BY <2>1
<1>7. ASSUME NEW n \in Nat, n \in T PROVE n + 1 \in T
  <2>n. n + 1 \in Nat
    OBVIOUS
  <2> SUFFICES ASSUME n + 1 <= Len(rows), NEW t \in SUBSET (1 .. n + 1), NEW x \in t
               PROVE  sum[t] = sum[t \ {x}] + rows[x].mem
    BY <2>n, Zenon
  <2>0. /\ n <= Len(rows) /\ t \in SUBSET (DOMAIN rows) /\ t # {}
        /\ x \in DOMAIN rows
    BY <1>3
  <2>1. CASE n + 1 \notin t
    <3>1. t \in SUBSET (1 .. n)
      BY <2>1
    <3> QED
      BY <1>7, <2>0, <3>1
  <2>2. CASE n + 1 \in t
    <3>1. Max(t) = n + 1
      <4>1. Max(t) \in 1 .. n + 1 /\ n + 1 <= Max(t)
        BY <1>5, <2>0, <2>2
      <4> QED
        BY <4>1
    <3>2. sum[t] = sum[t \ {n + 1}] + rows[n + 1].mem
      BY <1>5, <2>0, <3>1
    <3>3. CASE x = n + 1
      BY <3>2, <3>3
    <3>4. CASE x # n + 1
      <4> DEFINE u == t \ {n + 1}
                 v == t \ {x}
      <4>1. u \in SUBSET (1 .. n) /\ x \in u
        BY <3>4
      <4>2. sum[u] = sum[u \ {x}] + rows[x].mem
        BY <1>7, <2>0, <4>1
      <4>3. v \in SUBSET (DOMAIN rows) /\ v # {} /\ n + 1 \in v /\ v \subseteq 1 .. n + 1
        BY <2>0, <2>2, <3>4
      <4>4. Max(v) = n + 1
        <5>1. Max(v) \in 1 .. n + 1 /\ n + 1 <= Max(v)
          BY <1>5, <4>3
        <5> QED
          BY <5>1
      <4>5. sum[v] = sum[v \ {n + 1}] + rows[n + 1].mem
        BY <1>5, <4>3, <4>4
      <4>6. u \ {x} = v \ {n + 1}
        OBVIOUS
      <4>7. /\ u \in SUBSET (DOMAIN rows) /\ v \ {n + 1} \in SUBSET (DOMAIN rows)
            /\ n + 1 \in DOMAIN rows
        BY <2>0, <2>2
      <4>8. /\ sum[u] \in Nat /\ sum[v] \in Nat /\ sum[v \ {n + 1}] \in Nat
            /\ rows[x].mem \in Nat /\ rows[n + 1].mem \in Nat
        BY <1>2, <1>3, <2>0, <4>3, <4>7
      <4>9. sum[u] = sum[v \ {n + 1}] + rows[x].mem /\ sum[t] = sum[u] + rows[n + 1].mem
        BY <3>2, <4>2, <4>6
      <4> HIDE DEF u, v
      <4>10. sum[t] = sum[v] + rows[x].mem
        BY <4>5, <4>8, <4>9
      <4> QED
        BY <4>10 DEF v
    <3> QED
      BY <3>3, <3>4
  <2> QED
    BY <2>1, <2>2
<1> HIDE DEF T
<1>8. Len(rows) \in T
  BY <1>3, <1>6, <1>7, SetInduction
<1>9. SumsMemory(sum, rows)
  <2>0. Len(rows) <= Len(rows)
    BY <1>3
  <2>1. \A t \in SUBSET (DOMAIN rows) : Sums(t)
    BY <1>3, <1>8, <2>0, Zenon DEF T
  <2> QED
    BY <1>2, <1>4, <2>1 DEF SumsMemory
<1>10. MemoryOf(rows) = sum[DOMAIN rows]
  <2>1. ASSUME NEW k \in 1 .. Len(rows)
        PROVE  sum[1 .. k] = MemStep(R)[<<sum[1 .. k - 1], rows[k]>>]
    <3>1. 1 .. k \in SUBSET (DOMAIN rows) /\ 1 .. k # {} /\ k \in Nat \ {0}
      <4>1. k \in Nat \ {0} /\ k \in 1 .. k
        OBVIOUS
      <4>2. \A i \in 1 .. k : i \in 1 .. Len(rows)
        BY <1>3
      <4> QED
        BY <1>3, <4>1, <4>2
    <3>2. Max(1 .. k) = k /\ (1 .. k) \ {k} = 1 .. k - 1
      BY <3>1, MaxOfInterval
    <3>3. sum[1 .. k] = MemStep(R)[<<sum[(1 .. k) \ {Max(1 .. k)}], rows[Max(1 .. k)]>>]
      BY <1>2, <3>1 DEF IsIteration
    <3> QED
      BY <3>2, <3>3
  <2>2. IteratesPrefixes(sum, Nat, R, MemStep(R), 0, rows)
    BY <1>1, <1>4, <2>1 DEF IteratesPrefixes
  <2>3. sum[DOMAIN rows] = Fold(MemStep(R), 0, rows)
    BY <2>2, IterationIsFold
  <2> QED
    BY <1>1, <2>3
<1> QED
  BY <1>9, <1>10
-----------------------------------------------------------------------------
\* A sequence with an element more.
LEMMA AppendedSeq ==
    ASSUME NEW S, NEW s \in Seq(S), NEW e \in S, NEW n \in Nat, n = Len(s)
    PROVE  LET t == Append(s, e)
           IN  /\ t \in Seq(S) /\ t # <<>> /\ Len(t) = n + 1
               /\ DOMAIN s = 1 .. n /\ s = [i \in 1 .. n |-> s[i]]
               /\ DOMAIN t = 1 .. n + 1 /\ t = [i \in 1 .. n + 1 |-> t[i]]
               /\ t[n + 1] = e /\ \A i \in 1 .. n : t[i] = s[i]
<1> DEFINE t == Append(s, e)
<1>1. t \in Seq(S) /\ Len(t) = n + 1 /\ DOMAIN t = 1 .. n + 1
  OBVIOUS
<1>2. t[n + 1] = e /\ \A i \in 1 .. n : t[i] = s[i]
  OBVIOUS
<1>3. DOMAIN s = 1 .. n
  OBVIOUS
<1> HIDE DEF t
<1>4. t # <<>>
  BY <1>1, EmptySeq
<1>5. t = [i \in 1 .. n + 1 |-> t[i]] /\ s = [i \in 1 .. n |-> s[i]]
  BY <1>1, <1>3
<1> QED
  BY <1>1, <1>2, <1>3, <1>4, <1>5 DEF t

\* A sequence of one row.
LEMMA OneRow ==
    ASSUME NEW R, NEW row \in R
    PROVE  <<row>> \in Seq(R) /\ Len(<<row>>) = 1 /\ ToSet(<<row>>) = {row}
<1>1. <<row>> \in Seq(R) /\ Len(<<row>>) = 1
  OBVIOUS
<1>2. ToSet(<<row>>) = {row}
  BY DEF ToSet
<1> QED
  BY <1>1, <1>2

\* A row more at the end.
LEMMA RowAppended ==
    ASSUME NEW R, NEW s \in Seq(R), NEW row \in R
    PROVE  /\ Append(s, row) \in Seq(R) /\ Len(Append(s, row)) = Len(s) + 1
           /\ ToSet(Append(s, row)) = ToSet(s) \cup {row}
<1>1. PICK one \in Seq(R) : one = <<row>> /\ ToSet(one) = {row}
  BY OneRow
<1>2. ToSet(s \o one) = ToSet(s) \cup ToSet(one)
  BY ToSetConcat
<1>3. Append(s, row) = s \o one
  BY <1>1, AppendIsConcat
<1>4. Append(s, row) \in Seq(R) /\ Len(Append(s, row)) = Len(s) + 1
  BY AppendProperties
<1> QED
  BY <1>1, <1>2, <1>3, <1>4

\* A row more in front.
LEMMA RowInFront ==
    ASSUME NEW R, NEW s \in Seq(R), NEW row \in R
    PROVE  /\ <<row>> \o s \in Seq(R) /\ Len(<<row>> \o s) = Len(s) + 1
           /\ ToSet(<<row>> \o s) = ToSet(s) \cup {row}
<1>1. PICK one \in Seq(R) : one = <<row>> /\ Len(one) = 1 /\ ToSet(one) = {row}
  BY OneRow
<1>2. ToSet(one \o s) = ToSet(one) \cup ToSet(s)
  BY ToSetConcat
<1>3. one \o s \in Seq(R) /\ Len(one \o s) = Len(one) + Len(s) /\ Len(s) \in Nat
  BY ConcatProperties, LenProperties
<1> QED
  BY <1>1, <1>2, <1>3

\* A row more is pulled.
LEMMA RowPulled ==
    ASSUME NEW R, NEW s \in Seq(R), NEW n \in Nat, n < Len(s)
    PROVE  ToSet(SubSeq(s, 1, n + 1)) = ToSet(SubSeq(s, 1, n)) \cup {s[n + 1]}
<1>0. n + 1 \in 1 .. Len(s) /\ n \in 0 .. Len(s) /\ Len(s) \in Nat
  BY LenProperties
<1>1. SubSeq(s, 1, n) \in Seq(R)
  <2>1. \A j \in 1 .. n : s[j] \in R
    BY <1>0, ElementOfSeq
  <2> QED
    BY <2>1, SubSeqProperties
<1>2. PICK m \in Nat \ {0} : m = n + 1 /\ m - 1 = n
  OBVIOUS
<1>3. s[n + 1] \in R
  BY <1>0, ElementOfSeq
<1>4. SubSeq(s, 1, m) = Append(SubSeq(s, 1, n), s[m])
  <2>1. 1 \in 1 .. Len(s) /\ m \in 1 .. Len(s)
    BY <1>0, <1>2
  <2>2. SubSeq(s, 1, m) = SubSeq(s, 1, m - 1) \o <<s[m]>>
    BY <2>1, SubSeqRecursiveSecond
  <2>3. Append(SubSeq(s, 1, n), s[m]) = SubSeq(s, 1, n) \o <<s[m]>>
    BY <1>1, <1>2, <1>3, AppendIsConcat
  <2> QED
    BY <1>2, <2>2, <2>3, Zenon
<1>5. ToSet(SubSeq(s, 1, m)) = ToSet(SubSeq(s, 1, n)) \cup {s[m]}
  <2>1. PICK t \in Seq(R), row \in R : t = SubSeq(s, 1, n) /\ row = s[m]
    BY <1>1, <1>2, <1>3
  <2>2. \A u \in Seq(R), r \in R : ToSet(Append(u, r)) = ToSet(u) \cup {r}
    BY RowAppended
  <2>3. ToSet(Append(t, row)) = ToSet(t) \cup {row}
    BY <2>1, <2>2, Zenon
  <2> QED
    BY <1>4, <2>1, <2>3, Zenon
<1> QED
  BY <1>2, <1>5, Zenon
-----------------------------------------------------------------------------
\* A row takes at least a byte, and the counter of a block can count the rows
\* the block has room for.
RowsSized(R) == usable < CountLimit /\ SizedRows(R)

\* Blocks of a run on the disk, and the rows that are read from them.
Stored(R, store, at, n) ==
    /\ at \in Nat /\ n \in Nat
    /\ \A b \in at .. at + n - 1 : b \in DOMAIN store.pages /\ store.pages[b] \in FilledBlocks(R)

RunRows(store, at, n) == DecodeBlocks(read_blocks(store, at, n))

YieldsRows(R, store, at, n) ==
    /\ read_blocks(store, at, n) \in Seq(FilledBlocks(R)) /\ Len(read_blocks(store, at, n)) = n
    /\ Readable(store, at, n)
    /\ RunRows(store, at, n) \in Seq(R)
    /\ RunRows(store, at, n) = <<>> <=> n = 0

\* What the proofs use of blocks.
LEMMA BlockFacts ==
    ASSUME NEW R, RowsSized(R)
    PROVE  /\ Decodable(FilledBlocks(R), R)
           /\ \A b \in FilledBlocks(R) : decode_block(b) \in Seq(R) /\ decode_block(b) # <<>>
           /\ FilledBlocks(R) \subseteq PackedBlocks(R)
           /\ EmptyBlock \in PackedBlocks(R)
<1>1. Decodable(PackedBlocks(R), R) /\ \A b \in PackedBlocks(R) : decode_block(b) = b.rows
  BY DecodePacked DEF RowsSized
<1>2. FilledBlocks(R) \subseteq PackedBlocks(R) /\ \A b \in FilledBlocks(R) : b.rows # <<>>
  BY DEF FilledBlocks
<1>3. EmptyBlock \in PackedBlocks(R)
  BY PackedBlock DEF RowsSized
<1> QED
  BY <1>1, <1>2, <1>3 DEF Decodable

\* What is read from the blocks of a run are rows, and at least one if there
\* is a block.
LEMMA StoredYields ==
    ASSUME NEW R, RowsSized(R), NEW store, NEW at, NEW n, Stored(R, store, at, n)
    PROVE  YieldsRows(R, store, at, n)
<1>0. at \in Nat /\ n \in Nat
  BY DEF Stored
<1> DEFINE s == read_blocks(store, at, n)
<1>1. s = [i \in 1 .. n |-> store.pages[at + i - 1]]
  BY DEF read_blocks
<1>2. \A i \in 1 .. n : store.pages[at + i - 1] \in FilledBlocks(R)
  <2>1. \A i \in 1 .. n : at + i - 1 \in at .. at + n - 1
    BY <1>0
  <2> QED
    BY <2>1 DEF Stored
<1>3. s \in Seq(FilledBlocks(R)) /\ Len(s) = n
  <2>1. s \in [1 .. n -> FilledBlocks(R)]
    BY <1>1, <1>2, Zenon
  <2> HIDE DEF s
  <2> QED
    BY <1>0, <2>1
<1>4. Readable(store, at, n)
  BY DEF Stored, Readable
<1> HIDE DEF s
<1>5. DecodeBlocks(s) \in Seq(R) /\ DecodeBlocks(<<>>) = <<>>
  BY <1>3, BlockFacts, DecodeAppend
<1>6. n # 0 => DecodeBlocks(s) # <<>>
  <2> SUFFICES ASSUME n # 0 PROVE DecodeBlocks(s) # <<>>
    OBVIOUS
  <2>1. s # <<>>
    BY <1>3, EmptySeq
  <2>2. PICK v \in Seq(FilledBlocks(R)), b \in FilledBlocks(R) : s = Append(v, b)
    BY <1>3, <2>1, SequenceEmptyOrAppend
  <2>3. /\ DecodeBlocks(s) = DecodeBlocks(v) \o decode_block(b)
        /\ DecodeBlocks(v) \in Seq(R)
    BY <2>2, BlockFacts, DecodeAppend
  <2>4. decode_block(b) \in Seq(R) /\ decode_block(b) # <<>>
    BY BlockFacts
  <2> QED
    BY <2>3, <2>4, ConcatEqualIffEmpty
<1>7. n = 0 => DecodeBlocks(s) = <<>>
  BY <1>3, <1>5, EmptySeq
<1> QED
  BY <1>3, <1>4, <1>5, <1>6, <1>7 DEF YieldsRows, RunRows, s

\* A run in two parts.
Splits(R, store, at, m, n) ==
    /\ Stored(R, store, at, m) /\ Stored(R, store, at + m, n)
    /\ RunRows(store, at, m + n) = RunRows(store, at, m) \o RunRows(store, at + m, n)

\* The rows of a run are those of its first blocks, then those of the others.
LEMMA SplitRun ==
    ASSUME NEW R, RowsSized(R), NEW store, NEW at, NEW m \in Nat, NEW n \in Nat,
           Stored(R, store, at, m + n)
    PROVE  Splits(R, store, at, m, n)
<1>0. at \in Nat
  BY DEF Stored
<1>1. Stored(R, store, at, m)
  <2>1. \A b \in at .. at + m - 1 : b \in at .. at + (m + n) - 1
    BY <1>0
  <2> QED
    BY <1>0, <2>1 DEF Stored
<1>2. Stored(R, store, at + m, n)
  <2>1. \A b \in at + m .. (at + m) + n - 1 : b \in at .. at + (m + n) - 1
    BY <1>0
  <2>2. at + m \in Nat
    BY <1>0
  <2> QED
    BY <2>1, <2>2 DEF Stored
<1>3. AdjoiningReads(store, at, m, n)
  BY <1>0, ReadAdjacent
<1> DEFINE s == read_blocks(store, at, m)
           t == read_blocks(store, at + m, n)
<1>4. s \in Seq(FilledBlocks(R))
  BY <1>1, StoredYields DEF YieldsRows
<1>5. t \in Seq(FilledBlocks(R))
  <2>1. YieldsRows(R, store, at + m, n)
    BY <1>2, StoredYields
  <2> QED
    BY <2>1 DEF YieldsRows
<1>6. read_blocks(store, at, m + n) = s \o t
  BY <1>3 DEF AdjoiningReads
<1> HIDE DEF s, t
<1>7. DecodeBlocks(s \o t) = DecodeBlocks(s) \o DecodeBlocks(t)
  BY <1>4, <1>5, DecodeConcat, BlockFacts
<1> QED
  BY <1>1, <1>2, <1>6, <1>7 DEF Splits, RunRows, s, t

\* A run on the disk.
Run == [start_block : Nat, num_blocks : Nat]

RunOnDisk(R, store, run) == run \in Run /\ Stored(R, store, run.start_block, run.num_blocks)

\* The lesser of two numbers.
LEMMA MinOfTwo ==
    ASSUME NEW a \in Nat, NEW b \in Nat
    PROVE  Min({a, b}) = IF a <= b THEN a ELSE b
<1> DEFINE m == IF a <= b THEN a ELSE b
<1>1. m \in {a, b} /\ \A y \in {a, b} : m <= y
  OBVIOUS
<1>2. Min({a, b}) \in {a, b} /\ \A y \in {a, b} : Min({a, b}) <= y
  <2> HIDE DEF m
  <2> QED
    BY <1>1, Zenon DEF Min
<1> QED
  BY <1>1, <1>2

\* Runs that have been written stay where and as they are.
LEMMA SpillKeepsRun ==
    ASSUME NEW R, RowsSized(R), NEW store, SoundDisk(store, PackedBlocks(R)),
           NEW blocks \in Seq(PackedBlocks(R)), NEW run, RunOnDisk(R, store, run)
    PROVE  /\ RunOnDisk(R, Spill(store, blocks), run)
           /\ RunRows(Spill(store, blocks), run.start_block, run.num_blocks)
                  = RunRows(store, run.start_block, run.num_blocks)
<1> DEFINE spilled == Spill(store, blocks)
<1>1. PICK at \in Nat, n \in Nat : at = run.start_block /\ n = run.num_blocks
  BY DEF RunOnDisk, Run
<1>2. Stored(R, store, at, n) /\ run \in Run
  BY <1>1 DEF RunOnDisk
<1>3. /\ DOMAIN store.pages \subseteq DOMAIN spilled.pages
      /\ \A b \in DOMAIN store.pages : spilled.pages[b] = store.pages[b]
  BY SpillExtends
<1>4. Readable(store, at, n)
  BY <1>2, StoredYields DEF YieldsRows
<1>5. read_blocks(spilled, at, n) = read_blocks(store, at, n)
  <2>1. \A start, count \in Nat : Readable(store, start, count) =>
            read_blocks(spilled, start, count) = read_blocks(store, start, count)
    BY ReadAfterSpill
  <2> HIDE DEF spilled
  <2> QED
    BY <1>4, <2>1
<1> HIDE DEF spilled
<1>6. Stored(R, spilled, at, n)
  BY <1>2, <1>3 DEF Stored
<1> QED
  BY <1>1, <1>2, <1>5, <1>6 DEF RunOnDisk, RunRows, spilled

\* A run that is written now can be read.
LEMMA SpillAddsRun ==
    ASSUME NEW R, RowsSized(R), NEW store, SoundDisk(store, PackedBlocks(R)),
           NEW rows \in Seq(R), rows # <<>>, Packable(rows)
    PROVE  LET blocks == rows_to_blocks(rows)
               run == [start_block |-> store.next_anon_block, num_blocks |-> Len(blocks)]
           IN  /\ blocks \in Seq(PackedBlocks(R))
               /\ RunOnDisk(R, Spill(store, blocks), run)
               /\ RunRows(Spill(store, blocks), run.start_block, run.num_blocks) = rows
<1> DEFINE blocks == rows_to_blocks(rows)
           run == [start_block |-> store.next_anon_block, num_blocks |-> Len(blocks)]
           spilled == Spill(store, blocks)
<1>1. blocks \in Seq(FilledBlocks(R)) /\ DecodeBlocks(blocks) = rows
  BY RowsPacked DEF RowsSized, Holds
<1>2. blocks \in Seq(PackedBlocks(R))
  BY <1>1, BlockFacts, SeqMonotonic
<1>3. PICK at \in Nat, n \in Nat : at = store.next_anon_block /\ n = Len(blocks)
  BY <1>1, LenProperties DEF SoundDisk
<1>4. run \in Run /\ run.start_block = at /\ run.num_blocks = n
  BY <1>3 DEF Run
<1> HIDE DEF blocks, run
<1>5. /\ Readable(spilled, at, n) /\ read_blocks(spilled, at, n) = blocks
  BY <1>2, <1>3, ReadAfterSpill
<1>6. \A i \in 1 .. n : spilled.pages[at + i - 1] = blocks[i]
  BY <1>2, <1>3, SpillExtends
<1>7. \A i \in 1 .. n : blocks[i] \in FilledBlocks(R)
  BY <1>1, <1>3, ElementOfSeq
<1> HIDE DEF spilled
<1>8. Stored(R, spilled, at, n)
  <2>1. ASSUME NEW b \in at .. at + n - 1
        PROVE  b \in DOMAIN spilled.pages /\ spilled.pages[b] \in FilledBlocks(R)
    <3>1. PICK i \in 1 .. n : b = at + i - 1
      <4>1. (b - at) + 1 \in 1 .. n /\ b = at + ((b - at) + 1) - 1
        OBVIOUS
      <4> QED
        BY <4>1
    <3> QED
      BY <1>5, <1>6, <1>7, <3>1 DEF Readable
  <2> QED
    BY <2>1 DEF Stored
<1> QED
  BY <1>1, <1>2, <1>4, <1>5, <1>8 DEF RunOnDisk, RunRows, spilled, blocks, run
=============================================================================
