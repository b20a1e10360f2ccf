---------------------------- MODULE SessionProofs -----------------------------
(* The monitor, for any suite, any results, pipes of any capacity and any    *)
(* descriptors it is started with: its verdicts are right, it follows its    *)
(* suite, no process and no descriptor of a session outlives it, and the     *)
(* database finds its pipes (monitor/src/main.rs).  SessionIInv, at the end, *)
(* is the inductive invariant; each of its parts has a section here.  The    *)
(* first section is about remap_fds alone.                                   *)
EXTENDS Session, NaturalsInduction, SequenceTheorems, FiniteSetTheorems,
        WellFoundedInduction, TLAPS

(* remap_fds puts every descriptor in its place, for any list of mappings    *)
(* (monitor/src/fd_mapper.rs).  The two loops go through states in which     *)
(* some ends have been moved away and some moved back; IInv describes them.  *)

\* The source, the target and the temporary descriptor of mapping i.
Source(i) == mappings[i].source
Target(i) == mappings[i].target
Temporary(i) == remap_base + i - 1

TypeOK == /\ mappings \in Seq(FdMapping)
          /\ original \in Tables
          /\ table \in Tables
          /\ remapped \in 0 .. 2 * Count

\* How many mappings have been moved away, and how many of them back.
Away == IF remapped < Count THEN remapped ELSE Count
Back == IF remapped < Count THEN 0 ELSE remapped - Count

\* A mapping that is under way is at its temporary descriptor.
TemporariesHold ==
    \A i \in Back + 1 .. Away : table[Temporary(i)] = Flagged(original[Source(i)], FALSE)

\* A mapping that has been moved back is at its target, with its flag.
TargetsHold ==
    \A i \in 1 .. Back :
        table[Target(i)] = Flagged(original[Source(i)], mappings[i].close_on_exec)

\* Every other descriptor is closed if it was a source or a temporary one that
\* is no longer used, and as it was otherwise.
OthersHold ==
    \A fd \in Fds :
        (\A i \in 1 .. Back : fd # Target(i)) /\ (\A i \in Back + 1 .. Away : fd # Temporary(i))
            => table[fd] = IF \/ \E i \in 1 .. Away : fd = Source(i)
                              \/ \E i \in 1 .. Back : fd = Temporary(i)
                           THEN Closed ELSE original[fd]

IInv == TypeOK /\ Remappable /\ TemporariesHold /\ TargetsHold /\ OthersHold
-----------------------------------------------------------------------------
\* A non-empty set of natural numbers with an upper bound has a largest element.
LEMMA MaxExists ==
    ASSUME NEW S \in SUBSET Nat, S # {}, NEW bound \in Nat, \A s \in S : s <= bound
    PROVE  Max(S) \in S /\ \A s \in S : s <= Max(S)
<1> DEFINE Bounds == {n \in Nat : \A s \in S : s <= n}
           Less == OpToRel(<, Nat)
<1>1. PICK least \in Bounds : \A n \in Bounds : ~(<<n, least>> \in Less)
  <2>1. Bounds \subseteq Nat /\ Bounds # {}
    OBVIOUS
  <2> QED
    BY <2>1, NatLessThanWellFounded, WFMin
<1>2. \A n \in Bounds : ~(n < least)
  BY <1>1 DEF OpToRel
<1>3. least \in S
  <2>1. SUFFICES ASSUME least \notin S PROVE FALSE
    OBVIOUS
  <2>2. least > 0
    <3>1. PICK s \in S : s <= least /\ s # least
      BY <2>1
    <3> QED
      BY <3>1
  <2>3. least - 1 \in Bounds
    BY <2>1, <2>2
  <2> QED
    BY <1>2, <2>3
<1>4. \E x \in S : \A y \in S : x >= y
  BY <1>3
<1> QED
  BY <1>4 DEF Max

\* The fields of a mapping.
LEMMA MappingFields ==
    ASSUME mappings \in Seq(FdMapping)
    PROVE  /\ Count \in Nat /\ DOMAIN mappings = 1 .. Count
           /\ \A i \in 1 .. Count : /\ Source(i) \in Fds /\ Target(i) \in Fds
                                    /\ mappings[i].close_on_exec \in BOOLEAN
<1>1. Count \in Nat /\ DOMAIN mappings = 1 .. Count
  BY DEF Count
<1>2. \A i \in 1 .. Count : mappings[i] \in FdMapping
  BY DEF Count
<1> QED
  BY <1>1, <1>2 DEF FdMapping, Source, Target

\* The temporary descriptors are above every source and every target.
LEMMA BaseIsAbove ==
    ASSUME mappings \in Seq(FdMapping)
    PROVE  /\ remap_base \in Nat \ {0}
           /\ \A i \in 1 .. Count : Source(i) < remap_base /\ Target(i) < remap_base
<1> DEFINE S == {0} \cup Named
<1>1. \A i \in 1 .. Count : Source(i) \in Fds /\ Target(i) \in Fds
  BY MappingFields
<1>2. DOMAIN mappings = 1 .. Count
  BY MappingFields
<1>3. S \in SUBSET Nat /\ \A s \in S : s <= MaxFd
  BY <1>1, <1>2, FdAssumption DEF Named, Fds, Source, Target
<1>4. Max(S) \in Nat /\ \A s \in S : s <= Max(S)
  <2> HIDE DEF S
  <2>1. S # {}
    BY DEF S
  <2> QED
    BY <1>3, <2>1, MaxExists, FdAssumption
<1>5. \A i \in 1 .. Count : Source(i) \in S /\ Target(i) \in S
  BY <1>2 DEF Named, Source, Target
<1>6. remap_base = Max(S) + 1
  BY DEF remap_base
<1>7. Max(S) + 1 \in Nat \ {0} /\ \A s \in S : s < Max(S) + 1
  <2> HIDE DEF S
  <2> QED
    BY <1>3, <1>4
<1> QED
  <2> HIDE DEF S
  <2> QED
    BY <1>5, <1>6, <1>7

\* What Flagged does to an open entry.
LEMMA FlaggedEntry ==
    ASSUME NEW entry \in OpenEntry, NEW flag \in BOOLEAN
    PROVE  /\ Flagged(entry, flag) \in OpenEntry
           /\ Flagged(entry, flag) # Closed
           /\ \A other \in BOOLEAN : Flagged(Flagged(entry, other), flag) = Flagged(entry, flag)
BY FdAssumption DEF Flagged, OpenEntry, Closed
-----------------------------------------------------------------------------
\* The first loop changes two entries: the source is closed, the temporary
\* descriptor has what the source has had from the beginning.
LEMMA MoveAwayEffect ==
    ASSUME IInv, MoveAway
    PROVE  /\ table' \in Tables
           /\ remapped + 1 \in 1 .. Count
           /\ \A fd \in Fds :
                  table'[fd] = IF fd = Source(remapped + 1) THEN Closed
                               ELSE IF fd = Temporary(remapped + 1)
                               THEN Flagged(original[Source(remapped + 1)], FALSE)
                               ELSE table[fd]
<1> DEFINE k == remapped + 1
           entry == original[Source(k)]
<1>1. /\ mappings \in Seq(FdMapping) /\ original \in Tables /\ table \in Tables
      /\ Count \in Nat /\ remapped \in Nat /\ remapped < Count /\ k \in 1 .. Count
  BY MappingFields DEF IInv, TypeOK, MoveAway
<1>2. /\ Source(k) \in Fds /\ Source(k) < remap_base /\ remap_base \in Nat
      /\ Temporary(k) \in Fds /\ Source(k) # Temporary(k)
  BY <1>1, MappingFields, BaseIsAbove, FdAssumption
     DEF IInv, Remappable, Temporary, Fds
<1>3. Away = remapped /\ Back = 0
  BY <1>1 DEF Away, Back
<1>4. table[Source(k)] = entry
  <2>1. \A i \in 1 .. Away : Source(k) # Source(i) /\ Source(k) # Temporary(i)
    BY <1>1, <1>2, <1>3, MappingFields DEF IInv, Remappable, Source, Temporary
  <2> QED
    BY <1>2, <1>3, <2>1 DEF IInv, OthersHold
<1>5. entry \in OpenEntry /\ entry # Closed
  BY <1>1, <1>2, MappingFields DEF IInv, Remappable, Tables, Source
<1>6. table' = close(dup2(table, Source(k), Temporary(k)), Source(k))
  BY <1>1, <1>2 DEF MoveAway, Source, Temporary
<1>7. dup2(table, Source(k), Temporary(k)) = [table EXCEPT ![Temporary(k)] = Flagged(entry, FALSE)]
  BY <1>2, <1>4, <1>5 DEF dup2, Lookup, With
<1>8. table' = [[table EXCEPT ![Temporary(k)] = Flagged(entry, FALSE)]
                   EXCEPT ![Source(k)] = Closed]
  BY <1>2, <1>6, <1>7 DEF close, With
<1>9. Flagged(entry, FALSE) \in OpenEntry
  BY <1>5, FlaggedEntry
<1> HIDE DEF entry
<1>10. table' \in Tables
  BY <1>1, <1>2, <1>8, <1>9 DEF Tables
<1>11. \A fd \in Fds : table'[fd] = IF fd = Source(k) THEN Closed
                                  ELSE IF fd = Temporary(k) THEN Flagged(entry, FALSE)
                                  ELSE table[fd]
  BY <1>1, <1>2, <1>8 DEF Tables
<1> QED
  BY <1>1, <1>10, <1>11 DEF entry

\* The second loop changes two entries as well: the target has what the source
\* had, with its flag, and the temporary descriptor is closed.
LEMMA MoveBackEffect ==
    ASSUME IInv, MoveBack
    PROVE  LET k == remapped - Count + 1
           IN  /\ table' \in Tables
               /\ k \in 1 .. Count
               /\ \A fd \in Fds :
                      table'[fd] = IF fd = Target(k)
                                   THEN Flagged(original[Source(k)], mappings[k].close_on_exec)
                                   ELSE IF fd = Temporary(k) THEN Closed ELSE table[fd]
<1> DEFINE k == remapped - Count + 1
           entry == original[Source(k)]
           flag == mappings[k].close_on_exec
<1>1. /\ mappings \in Seq(FdMapping) /\ original \in Tables /\ table \in Tables
      /\ Count \in Nat /\ remapped \in Nat /\ remapped >= Count /\ k \in 1 .. Count
  BY MappingFields DEF IInv, TypeOK, MoveBack
<1>2. /\ Target(k) \in Fds /\ Target(k) < remap_base /\ remap_base \in Nat
      /\ Temporary(k) \in Fds /\ Target(k) # Temporary(k) /\ flag \in BOOLEAN
      /\ Source(k) \in Fds
  BY <1>1, MappingFields, BaseIsAbove, FdAssumption
     DEF IInv, Remappable, Temporary, Fds
<1>3. Away = Count /\ Back = k - 1
  BY <1>1 DEF Away, Back
<1>4. table[Temporary(k)] = Flagged(entry, FALSE)
  <2>1. k \in Back + 1 .. Away
    BY <1>1, <1>3
  <2> HIDE DEF k
  <2> QED
    BY <2>1 DEF IInv, TemporariesHold
<1>5. entry \in OpenEntry
  BY <1>1, <1>2, MappingFields DEF IInv, Remappable, Tables, Source
<1>6. /\ table[Temporary(k)] \in OpenEntry /\ table[Temporary(k)] # Closed
      /\ Flagged(table[Temporary(k)], FALSE) = Flagged(entry, FALSE)
      /\ Flagged(Flagged(entry, FALSE), flag) = Flagged(entry, flag)
      /\ Flagged(entry, FALSE) # Closed /\ Flagged(entry, flag) \in OpenEntry
  BY <1>2, <1>4, <1>5, FlaggedEntry
<1>7. table' = SetCloexec(close(dup2(table, Temporary(k), Target(k)), Temporary(k)),
                         Target(k), flag)
  BY <1>1, <1>2 DEF MoveBack, Target, Temporary
<1> DEFINE copied == [table EXCEPT ![Target(k)] = Flagged(entry, FALSE)]
           cleared == [copied EXCEPT ![Temporary(k)] = Closed]
<1>8. dup2(table, Temporary(k), Target(k)) = copied
  BY <1>2, <1>6 DEF dup2, Lookup, With
<1>9. close(copied, Temporary(k)) = cleared
  BY <1>2 DEF close, With
<1>10. cleared[Target(k)] = Flagged(entry, FALSE)
  BY <1>1, <1>2 DEF Tables
<1> HIDE DEF entry, flag
<1>11. table' = [cleared EXCEPT ![Target(k)] = Flagged(entry, flag)]
  <2> HIDE DEF cleared, copied
  <2> QED
    BY <1>2, <1>6, <1>7, <1>8, <1>9, <1>10 DEF SetCloexec, Lookup, With
<1>12. table' \in Tables
  <2>1. copied \in Tables
    BY <1>1, <1>2, <1>4, <1>6 DEF Tables
  <2>2. cleared \in Tables
    <3> HIDE DEF copied
    <3> QED
      BY <1>2, <2>1 DEF Tables
  <2> HIDE DEF cleared
  <2> QED
    BY <1>2, <1>6, <1>11, <2>2 DEF Tables
<1>13. \A fd \in Fds : table'[fd] = IF fd = Target(k) THEN Flagged(entry, flag)
                                  ELSE IF fd = Temporary(k) THEN Closed ELSE table[fd]
  BY <1>1, <1>2, <1>11 DEF Tables
<1> QED
  BY <1>1, <1>12, <1>13 DEF entry, flag
-----------------------------------------------------------------------------
\* An iteration of the first loop keeps the invariant.
LEMMA MoveAwayKeepsIInv ==
    ASSUME IInv, MoveAway, RemapStep
    PROVE  IInv'
<1> DEFINE k == remapped + 1
<1>1. /\ mappings' = mappings /\ original' = original /\ remapped' = k
      /\ mappings \in Seq(FdMapping) /\ Count \in Nat /\ Count' = Count
      /\ remapped \in Nat /\ k \in 1 .. Count
  BY MoveAwayEffect, MappingFields DEF RemapStep, Count, IInv, TypeOK
<1>2. /\ remap_base' = remap_base /\ remap_base \in Nat
      /\ \A i : Source(i)' = Source(i) /\ Target(i)' = Target(i) /\ Temporary(i)' = Temporary(i)
  BY <1>1, BaseIsAbove DEF remap_base, Named, Source, Target, Temporary
<1>3. Away = remapped /\ Back = 0 /\ Away' = k /\ Back' = 0
  BY <1>1 DEF Away, Back
<1>4. /\ table' \in Tables
      /\ \A fd \in Fds :
             table'[fd] = IF fd = Source(k) THEN Closed
                          ELSE IF fd = Temporary(k) THEN Flagged(original[Source(k)], FALSE)
                          ELSE table[fd]
  BY MoveAwayEffect
<1>5. \A i \in 1 .. Count : /\ Source(i) \in Fds /\ Source(i) < remap_base
                           /\ Temporary(i) \in Fds
  BY <1>1, <1>2, MappingFields, BaseIsAbove, FdAssumption
     DEF IInv, Remappable, Temporary, Fds
<1>6. \A i, j \in 1 .. Count : Source(i) # Temporary(j) /\ (i # j => Temporary(i) # Temporary(j))
  BY <1>2, <1>5, MappingFields DEF Temporary, Fds
<1>7. TypeOK'
  BY <1>1, <1>4 DEF IInv, TypeOK
<1>8. Remappable'
  BY <1>1, <1>2 DEF IInv, Remappable
<1>9. k - 1 = remapped
  BY <1>1
<1> HIDE DEF k
<1>10. TemporariesHold'
  <2> SUFFICES ASSUME NEW i \in 0 + 1 .. k
               PROVE  table'[Temporary(i)] = Flagged(original[Source(i)], FALSE)
    BY <1>1, <1>2, <1>3 DEF TemporariesHold
  <2>1. CASE i = k
    BY <1>1, <1>4, <1>5, <1>6, <2>1
  <2>2. CASE i # k
    <3>1. i \in Back + 1 .. Away /\ i \in 1 .. Count
      BY <1>1, <1>3, <1>9, <2>2
    <3>2. Temporary(i) # Temporary(k) /\ Temporary(i) # Source(k) /\ Temporary(i) \in Fds
      BY <1>1, <1>5, <1>6, <2>2, <3>1
    <3> QED
      BY <1>4, <3>1, <3>2 DEF IInv, TemporariesHold
  <2> QED
    BY <2>1, <2>2
<1>11. TargetsHold'
  BY <1>3 DEF TargetsHold
<1>12. OthersHold'
  <2> SUFFICES ASSUME NEW fd \in Fds, \A i \in 1 .. k : fd # Temporary(i)
               PROVE  table'[fd] = IF \E i \in 1 .. k : fd = Source(i)
                                   THEN Closed ELSE original[fd]
    BY <1>1, <1>2, <1>3 DEF OthersHold
  <2>1. table[fd] = IF \E i \in 1 .. remapped : fd = Source(i) THEN Closed ELSE original[fd]
    <3>1. \A i \in Back + 1 .. Away : fd # Temporary(i)
      BY <1>1, <1>3, <1>9
    <3> QED
      BY <1>3, <3>1 DEF IInv, OthersHold
  <2>2. table'[fd] = IF fd = Source(k) THEN Closed ELSE table[fd]
    <3>1. fd # Temporary(k)
      BY <1>1
    <3> QED
      BY <1>4, <3>1
  <2>3. (\E i \in 1 .. k : fd = Source(i)) <=>
            fd = Source(k) \/ \E i \in 1 .. remapped : fd = Source(i)
    BY <1>1, <1>9
  <2> QED
    BY <2>1, <2>2, <2>3
<1> QED
  BY <1>7, <1>8, <1>10, <1>11, <1>12 DEF IInv

\* An iteration of the second loop keeps the invariant.
LEMMA MoveBackKeepsIInv ==
    ASSUME IInv, MoveBack, RemapStep
    PROVE  IInv'
<1> DEFINE k == remapped - Count + 1
<1>1. /\ mappings' = mappings /\ original' = original /\ remapped' = remapped + 1
      /\ mappings \in Seq(FdMapping) /\ Count \in Nat /\ Count' = Count
      /\ remapped \in Nat /\ k \in 1 .. Count
  BY MoveBackEffect, MappingFields DEF RemapStep, Count, IInv, TypeOK
<1>2. /\ remap_base' = remap_base /\ remap_base \in Nat
      /\ \A i : Source(i)' = Source(i) /\ Target(i)' = Target(i) /\ Temporary(i)' = Temporary(i)
  BY <1>1, BaseIsAbove DEF remap_base, Named, Source, Target, Temporary
<1>3. Away = Count /\ Back = k - 1 /\ Away' = Count /\ Back' = k
  BY <1>1 DEF Away, Back
<1>4. /\ table' \in Tables
      /\ \A fd \in Fds :
             table'[fd] = IF fd = Target(k)
                          THEN Flagged(original[Source(k)], mappings[k].close_on_exec)
                          ELSE IF fd = Temporary(k) THEN Closed ELSE table[fd]
  BY MoveBackEffect
<1>5. \A i \in 1 .. Count : /\ Target(i) \in Fds /\ Target(i) < remap_base
                           /\ Temporary(i) \in Fds /\ Source(i) < remap_base
  BY <1>1, <1>2, MappingFields, BaseIsAbove, FdAssumption
     DEF IInv, Remappable, Temporary, Fds
<1>6. \A i, j \in 1 .. Count : i # j => Target(i) # Target(j) /\ Temporary(i) # Temporary(j)
  BY <1>1, <1>2, MappingFields DEF IInv, Remappable, Target, Temporary
<1>7. \A i, j \in 1 .. Count : Target(i) # Temporary(j) /\ Source(i) # Temporary(j)
  BY <1>2, <1>5, MappingFields DEF Temporary, Fds
<1>8. TypeOK'
  BY <1>1, <1>4 DEF IInv, TypeOK
<1>9. Remappable'
  BY <1>1, <1>2 DEF IInv, Remappable
<1> HIDE DEF k
<1>10. TemporariesHold'
  <2> SUFFICES ASSUME NEW i \in k + 1 .. Count
               PROVE  table'[Temporary(i)] = Flagged(original[Source(i)], FALSE)
    BY <1>1, <1>2, <1>3 DEF TemporariesHold
  <2>1. i \in 1 .. Count /\ i # k /\ i \in Back + 1 .. Away
    BY <1>1, <1>3
  <2>2. Temporary(i) # Temporary(k) /\ Temporary(i) # Target(k) /\ Temporary(i) \in Fds
    BY <1>1, <1>5, <1>6, <1>7, <2>1
  <2> QED
    BY <1>4, <2>1, <2>2 DEF IInv, TemporariesHold
<1>11. TargetsHold'
  <2> SUFFICES ASSUME NEW i \in 1 .. k
               PROVE  table'[Target(i)] = Flagged(original[Source(i)], mappings[i].close_on_exec)
    BY <1>1, <1>2, <1>3 DEF TargetsHold
  <2>1. CASE i = k
    BY <1>1, <1>4, <1>5, <2>1
  <2>2. CASE i # k
    <3>1. i \in 1 .. Back /\ i \in 1 .. Count
      BY <1>1, <1>3, <2>2
    <3>2. Target(i) # Target(k) /\ Target(i) # Temporary(k) /\ Target(i) \in Fds
      BY <1>1, <1>5, <1>6, <1>7, <2>2, <3>1
    <3> QED
      BY <1>4, <3>1, <3>2 DEF IInv, TargetsHold
  <2> QED
    BY <2>1, <2>2
<1>12. OthersHold'
  <2> SUFFICES ASSUME NEW fd \in Fds, \A i \in 1 .. k : fd # Target(i),
                      \A i \in k + 1 .. Count : fd # Temporary(i)
               PROVE  table'[fd] = IF \/ \E i \in 1 .. Count : fd = Source(i)
                                      \/ \E i \in 1 .. k : fd = Temporary(i)
                                   THEN Closed ELSE original[fd]
    BY <1>1, <1>2, <1>3 DEF OthersHold
  <2>1. CASE fd = Temporary(k)
    BY <1>1, <1>4, <2>1
  <2>2. CASE fd # Temporary(k)
    <3>1. /\ \A i \in 1 .. Back : fd # Target(i)
          /\ \A i \in Back + 1 .. Away : fd # Temporary(i)
      BY <1>1, <1>3, <2>2
    <3>2. table[fd] = IF \/ \E i \in 1 .. Away : fd = Source(i)
                         \/ \E i \in 1 .. Back : fd = Temporary(i)
                      THEN Closed ELSE original[fd]
      BY <3>1 DEF IInv, OthersHold
    <3>3. table'[fd] = table[fd]
      BY <1>1, <1>4, <2>2
    <3>4. (\E i \in 1 .. Back : fd = Temporary(i)) <=> (\E i \in 1 .. k : fd = Temporary(i))
      BY <1>1, <1>3, <2>2
    <3> QED
      BY <1>3, <3>2, <3>3, <3>4
  <2> QED
    BY <2>1, <2>2
<1> QED
  BY <1>8, <1>9, <1>10, <1>11, <1>12 DEF IInv
-----------------------------------------------------------------------------
\* The invariant holds when remap_fds begins.
LEMMA RemapInitIInv == RemapInit => IInv
<1> SUFFICES ASSUME RemapInit PROVE IInv
  OBVIOUS
<1>1. mappings \in Seq(FdMapping) /\ Count \in Nat /\ remapped = 0 /\ table = original
  BY MappingFields DEF RemapInit
<1>2. Away = 0 /\ Back = 0
  BY <1>1 DEF Away, Back
<1>3. TypeOK /\ Remappable
  BY <1>1 DEF RemapInit, TypeOK
<1> QED
  BY <1>1, <1>2, <1>3 DEF IInv, TemporariesHold, TargetsHold, OthersHold

\* When both loops are done the invariant says what remap_fds promises.
LEMMA IInvImpliesInPlace == IInv => RemapInPlace
<1> SUFFICES ASSUME IInv, remapped = 2 * Count
             PROVE  /\ \A i \in DOMAIN mappings :
                           table[mappings[i].target] =
                               Flagged(original[mappings[i].source], mappings[i].close_on_exec)
                    /\ \A fd \in Fds \ {mappings[i].target : i \in DOMAIN mappings} :
                           table[fd] = IF fd \in Named
                                          \/ fd \in remap_base .. remap_base + Count - 1
                                       THEN Closed ELSE original[fd]
  BY DEF RemapInPlace
<1>1. /\ mappings \in Seq(FdMapping) /\ Count \in Nat /\ DOMAIN mappings = 1 .. Count
      /\ remap_base \in Nat
  BY MappingFields, BaseIsAbove DEF IInv, TypeOK
<1>2. Away = Count /\ Back = Count
  BY <1>1 DEF Away, Back
<1>3. ASSUME NEW i \in DOMAIN mappings
      PROVE  table[mappings[i].target] =
                 Flagged(original[mappings[i].source], mappings[i].close_on_exec)
  BY <1>1, <1>2 DEF IInv, TargetsHold, Source, Target
<1>4. ASSUME NEW fd \in Fds \ {mappings[i].target : i \in DOMAIN mappings}
      PROVE  table[fd] = IF fd \in Named \/ fd \in remap_base .. remap_base + Count - 1
                         THEN Closed ELSE original[fd]
  <2>1. \A i \in 1 .. Count : fd # Target(i)
    BY <1>1 DEF Target
  <2>2. table[fd] = IF \/ \E i \in 1 .. Count : fd = Source(i)
                       \/ \E i \in 1 .. Count : fd = Temporary(i)
                    THEN Closed ELSE original[fd]
    BY <1>1, <1>2, <2>1 DEF IInv, OthersHold
  <2>3. (\E i \in 1 .. Count : fd = Source(i)) <=> fd \in Named
    BY <1>1, <2>1 DEF Named, Source, Target
  <2>4. (\E i \in 1 .. Count : fd = Temporary(i)) <=> fd \in remap_base .. remap_base + Count - 1
    <3>1. ASSUME fd \in remap_base .. remap_base + Count - 1
          PROVE  \E i \in 1 .. Count : fd = Temporary(i)
      <4>1. fd - remap_base + 1 \in 1 .. Count /\ fd = Temporary(fd - remap_base + 1)
        BY <1>1, <3>1 DEF Temporary
      <4> QED
        BY <4>1
    <3> QED
      BY <1>1, <3>1 DEF Temporary
  <2> QED
    BY <2>2, <2>3, <2>4
<1> QED
  BY <1>3, <1>4

\* IInv is an invariant of remap_fds.
LEMMA RemapKeepsIInv ==
    ASSUME IInv, [RemapStep]_remap_vars
    PROVE  IInv'
<1>1. ASSUME RemapStep PROVE IInv'
  <2>1. CASE MoveAway
    BY <1>1, <2>1, MoveAwayKeepsIInv
  <2>2. CASE MoveBack
    BY <1>1, <2>2, MoveBackKeepsIInv
  <2> QED
    BY <1>1, <2>1, <2>2 DEF RemapStep
<1>2. ASSUME UNCHANGED remap_vars PROVE IInv'
  <2>1. /\ Count' = Count /\ remap_base' = remap_base /\ Away' = Away /\ Back' = Back
        /\ \A i : /\ Source(i)' = Source(i) /\ Target(i)' = Target(i)
                  /\ Temporary(i)' = Temporary(i)
    BY <1>2 DEF remap_vars, Away, Back, Count, Source, Target, Temporary, remap_base, Named
  <2>2. TypeOK' /\ Remappable'
    BY <1>2, <2>1 DEF remap_vars, IInv, TypeOK, Remappable
  <2>3. TemporariesHold' /\ TargetsHold' /\ OthersHold'
    BY <1>2, <2>1 DEF remap_vars, IInv, TemporariesHold, TargetsHold, OthersHold
  <2> QED
    BY <2>2, <2>3 DEF IInv
<1> QED
  BY <1>1, <1>2

\* So IInv always holds.
LEMMA RemapInvariance == RemapSpec => []IInv
BY RemapInitIInv, RemapKeepsIInv, PTL DEF RemapSpec

\* remap_fds puts every descriptor in its place and touches no other, whatever
\* the number of mappings and the overlap of their sources and targets.
THEOREM RemapPutsInPlace == RemapSpec => []RemapInPlace
BY RemapInvariance, IInvImpliesInPlace, PTL
-----------------------------------------------------------------------------
(* The monitor.                                                              *)

MonitorStates == {"Start", "StartDb", "AwaitExec", "SendQuery", "ReadCommand", "SendLimit",
                  "BySorting", "Presorted", "WaitDb", "WaitDisk", "Finished", "Aborted"}
DbStates == {"None", "Remap", "ReadQuery", "AskLimit", "ReadLimit", "Validate", "Rows",
             "Exited", "Failed", "Killed", "NotExecuted"}
QueryConfigs == [disabled : BOOLEAN, sort_before_check : BOOLEAN, expected : Seq(Rows)]
Runs == [query : Nat, complete : BOOLEAN, result : Seq(Rows), verdict : {"Ok", "Err"}]

Lines == Rows \cup {End, "get_memory_limit", "validate"}

DataTypeOK ==
    /\ suite \in Seq(QueryConfigs)
    /\ q \in Nat \ {0}
    /\ monitor \in MonitorStates
    /\ db \in DbStates
    /\ disk \in {"None", "Serving", "Exited"}
    /\ to_db \in Seq({"query", "limit"}) /\ to_monitor \in Seq(Lines)
    /\ result \in Seq(Rows) /\ seen \in Seq(Lines)
    /\ printed \in 0 .. Len(result) + 1
    /\ db_result \in {"Running", "Ok", "Err"}
    /\ monitor = "WaitDisk" => db_result # "Running"
    /\ monitor = "WaitDb" => db_result = "Ok"
    /\ runs \in Seq(Runs)

\* A query is under way.
Busy == monitor \notin {"Start", "Finished", "Aborted"}
-----------------------------------------------------------------------------
\* The files that the monitor itself holds ends of, in each of its states.
ToDisk == {Rd("disk_outbound"), Wr("disk_inbound")}
ToDb == {Rd("db_to_monitor"), Wr("monitor_to_db")}
Kept == IF monitor \in {"Start", "Finished", "Aborted"} THEN {}
        ELSE IF monitor = "StartDb" THEN ToDisk
        ELSE IF monitor = "AwaitExec" THEN ToDb \cup OfTheChild
        ELSE ToDb

OwnFds == /\ DOMAIN monitor_fds = Fds
          /\ \A fd \in Fds : monitor_fds[fd].cloexec => monitor_fds[fd].file \in Kept

Processes ==
    /\ monitor \in {"Start", "StartDb", "Finished"} => db = "None" \/ DbEnded
    /\ monitor = "WaitDisk" => DbEnded
    /\ monitor \in {"Start", "StartDb", "AwaitExec", "Finished"} => db_result # "Err"
    /\ monitor \in {"Start", "Finished"} => disk # "Serving"
    /\ monitor = "Aborted" /\ db_result = "Err" => DbEnded /\ disk # "Serving"
-----------------------------------------------------------------------------
\* The queries that have been run are the enabled ones before q, and q itself
\* when the monitor has aborted with a verdict on it.
Reached == IF monitor = "Aborted" /\ db_result = "Err" THEN q ELSE q - 1

SuiteSoFar ==
    /\ q <= Len(suite) + 1
    /\ Busy \/ Reached = q => q <= Len(suite) /\ ~suite[q].disabled
    /\ monitor = "Finished" => q = Len(suite) + 1
    /\ \A i \in DOMAIN runs : runs[i].query \in 1 .. Reached /\ ~suite[runs[i].query].disabled
    /\ \A i, j \in DOMAIN runs : i < j => runs[i].query < runs[j].query
    /\ \A n \in 1 .. Reached : ~suite[n].disabled => \E i \in DOMAIN runs : runs[i].query = n
    /\ \A i \in DOMAIN runs : runs[i].verdict = "Err" => i = Len(runs) /\ Reached = q
-----------------------------------------------------------------------------
\* The n-th line that follows "validate".
Line(n) == IF n <= Len(result) THEN result[n] ELSE End

IsRight == /\ printed = Len(result) + 1
           /\ IF Query.sort_before_check THEN SameRows(result, Query.expected)
              ELSE result = Query.expected

BeforeQuery == /\ to_db = <<>> /\ to_monitor = <<>> /\ printed = 0 /\ seen = <<>>
               /\ DbEnded \/ db \in {"Remap", "ReadQuery"}

BeforeLimit ==
    /\ printed = 0
    /\ \/ DbEnded /\ to_monitor = <<>>
       \/ DbEnded /\ to_db = <<>> /\ to_monitor = <<"get_memory_limit">>
       \/ db \in {"Remap", "ReadQuery"} /\ to_db = <<"query">> /\ to_monitor = <<>>
       \/ db = "AskLimit" /\ to_db = <<>> /\ to_monitor = <<>>
       \/ db = "ReadLimit" /\ to_db = <<>> /\ to_monitor = <<"get_memory_limit">>

AskedForLimit == /\ to_db = <<>> /\ to_monitor = <<>> /\ printed = 0
                 /\ DbEnded \/ db = "ReadLimit"

BeforeValidate ==
    \/ /\ printed = 0 /\ to_monitor = <<>>
       /\ \/ DbEnded
          \/ db = "ReadLimit" /\ to_db = <<"limit">>
          \/ db = "Validate" /\ to_db = <<>>
    \/ /\ DbEnded \/ db = "Rows"
       /\ Len(to_monitor) = printed + 1 /\ to_monitor[1] = "validate"
       /\ \A i \in 1 .. printed : to_monitor[i + 1] = Line(i)

\* What has been printed has been seen or is in the pipe, and what has been seen
\* gave no reason to stop.
Validating ==
    /\ DbEnded \/ db = "Rows"
    /\ Len(seen) + Len(to_monitor) = printed
    /\ \A i \in 1 .. Len(seen) : seen[i] = Line(i) /\ seen[i] # End
    /\ \A i \in 1 .. Len(to_monitor) : to_monitor[i] = Line(Len(seen) + i)
    /\ Len(seen) <= Len(Query.expected)
    /\ IF monitor = "BySorting" THEN Query.sort_before_check
       ELSE /\ ~Query.sort_before_check
            /\ \A i \in 1 .. Len(seen) : seen[i] = Query.expected[i]

Dialogue ==
    /\ monitor \in {"AwaitExec", "SendQuery"} => BeforeQuery
    /\ monitor = "ReadCommand" => seen = <<>> /\ (BeforeLimit \/ BeforeValidate)
    /\ monitor = "SendLimit" => seen = <<>> /\ AskedForLimit
    /\ monitor \in {"BySorting", "Presorted"} => Validating
    /\ monitor = "WaitDb" => db_result = "Ok" /\ IsRight
    /\ monitor = "WaitDisk" => db_result = IF IsRight THEN "Ok" ELSE "Err"
-----------------------------------------------------------------------------
\* The line PrintRow prints.
LEMMA LineIsPrinted ==
    ASSUME result \in Seq(Rows), printed \in 0 .. Len(result)
    PROVE  /\ (IF printed < Len(result) THEN result[printed + 1] ELSE End) = Line(printed + 1)
           /\ Line(printed + 1) \in Lines
<1>1. printed < Len(result) => result[printed + 1] \in Rows
  OBVIOUS
<1>2. Rows \subseteq Lines /\ End \in Lines
  BY DEF Lines
<1>3. Line(printed + 1) = IF printed < Len(result) THEN result[printed + 1] ELSE End
  BY DEF Line
<1> QED
  BY <1>1, <1>2, <1>3

\* What Judge and GoOn assign is of the right type.
ControlTypeOK ==
    /\ monitor \in MonitorStates /\ db \in DbStates
    /\ db_result \in {"Running", "Ok", "Err"}
    /\ monitor = "WaitDisk" => db_result # "Running"
    /\ monitor = "WaitDb" => db_result = "Ok"

\* What the monitor assigns when it judges or goes on is of the right type.
LEMMA ControlTypes ==
    ASSUME DataTypeOK
    PROVE  /\ \A outcome \in {"Ok", "Err"} : Judge(outcome) => ControlTypeOK'
           /\ \A next \in MonitorStates \ {"WaitDb", "WaitDisk"} : GoOn(next) => ControlTypeOK'
<1> USE DEF DataTypeOK, ControlTypeOK, MonitorStates, DbStates
<1>1. ASSUME NEW outcome \in {"Ok", "Err"}, Judge(outcome) PROVE ControlTypeOK'
  BY <1>1 DEF Judge
<1>2. ASSUME NEW next \in MonitorStates \ {"WaitDb", "WaitDisk"}, GoOn(next) PROVE ControlTypeOK'
  BY <1>2 DEF GoOn
<1> QED
  BY <1>1, <1>2

\* A line that is read is one, and so are those that are left.
LEMMA LinesRead ==
    ASSUME NEW S, NEW pipe \in Seq(S), pipe # <<>>
    PROVE  Head(pipe) \in S /\ Tail(pipe) \in Seq(S)
OBVIOUS

\* A line that is written keeps the pipe a sequence of lines.
LEMMA LinesWritten ==
    ASSUME NEW S, NEW pipe \in Seq(S), NEW line \in S
    PROVE  Append(pipe, line) \in Seq(S)
OBVIOUS

\* The variables have their types at the start,
LEMMA DataTypeInit == Init => DataTypeOK
<1> SUFFICES ASSUME Init PROVE DataTypeOK
  OBVIOUS
<1>1. suite \in Seq(QueryConfigs)
  BY SessionAssumption DEF Init, QueryConfigs
<1> QED
  BY <1>1 DEF Init, DataTypeOK, MonitorStates, DbStates

\* and every step keeps them.
LEMMA DataTypeStep ==
    ASSUME DataTypeOK, [Next]_vars
    PROVE  DataTypeOK'
<1> USE DEF DataTypeOK, MonitorStates, DbStates, Lines
<1>1. ASSUME Skip PROVE DataTypeOK'
  BY <1>1 DEF Skip, data_vars
<1>2. ASSUME StartDisk PROVE DataTypeOK'
  BY <1>2 DEF StartDisk, data_vars
<1>3. ASSUME Fork PROVE DataTypeOK'
  <2>1. result' \in Seq(Rows)
    BY <1>3, SessionAssumption DEF Fork
  <2> QED
    BY <1>3, <2>1 DEF Fork
<1>4. ASSUME SpawnFails PROVE DataTypeOK'
  BY <1>4 DEF SpawnFails, data_vars
<1>5. ASSUME Spawned PROVE DataTypeOK'
  BY <1>5 DEF Spawned, data_vars
<1>6. ASSUME Finish PROVE DataTypeOK'
  BY <1>6 DEF Finish, data_vars
<1>7. ASSUME SendQuery PROVE DataTypeOK'
  <2>1. ControlTypeOK'
    BY <1>7, ControlTypes DEF SendQuery, Write
  <2>2. to_db' \in Seq({"query", "limit"})
    <3>1. Append(to_db, "query") \in Seq({"query", "limit"})
      BY LinesWritten
    <3> QED
      BY <1>7, <3>1 DEF SendQuery, Write
  <2> QED
    BY <1>7, <2>1, <2>2 DEF SendQuery, session, ControlTypeOK
<1>8. ASSUME ReadCommand PROVE DataTypeOK'
  <2>1. ControlTypeOK'
    BY <1>8, ControlTypes DEF ReadCommand
  <2>2. to_monitor' \in Seq(Lines)
    <3>1. to_monitor # <<>> => Tail(to_monitor) \in Seq(Lines)
      BY LinesRead
    <3> QED
      BY <1>8, <3>1 DEF ReadCommand
  <2> QED
    BY <1>8, <2>1, <2>2 DEF ReadCommand, session, ControlTypeOK
<1>9. ASSUME SendLimit PROVE DataTypeOK'
  <2>1. ControlTypeOK'
    BY <1>9, ControlTypes DEF SendLimit, Write
  <2>2. to_db' \in Seq({"query", "limit"})
    <3>1. Append(to_db, "limit") \in Seq({"query", "limit"})
      BY LinesWritten
    <3> QED
      BY <1>9, <3>1 DEF SendLimit, Write
  <2> QED
    BY <1>9, <2>1, <2>2 DEF SendLimit, session, ControlTypeOK
<1>10. ASSUME ValidateBySorting PROVE DataTypeOK'
  <2>1. ControlTypeOK'
    BY <1>10, ControlTypes DEF ValidateBySorting, VerdictAtEnd
  <2>2. to_monitor' \in Seq(Lines) /\ seen' \in Seq(Lines)
    <3>1. to_monitor # <<>> => /\ Tail(to_monitor) \in Seq(Lines)
                               /\ Append(seen, Head(to_monitor)) \in Seq(Lines)
      BY LinesRead, LinesWritten
    <3> QED
      BY <1>10, <3>1 DEF ValidateBySorting
  <2> QED
    BY <1>10, <2>1, <2>2 DEF ValidateBySorting, session, ControlTypeOK
<1>11. ASSUME ValidatePresorted PROVE DataTypeOK'
  <2>1. ControlTypeOK'
    BY <1>11, ControlTypes DEF ValidatePresorted, VerdictAtEnd
  <2>2. to_monitor' \in Seq(Lines) /\ seen' \in Seq(Lines)
    <3>1. to_monitor # <<>> => /\ Tail(to_monitor) \in Seq(Lines)
                               /\ Append(seen, Head(to_monitor)) \in Seq(Lines)
      BY LinesRead, LinesWritten
    <3> QED
      BY <1>11, <3>1 DEF ValidatePresorted
  <2> QED
    BY <1>11, <2>1, <2>2 DEF ValidatePresorted, session, ControlTypeOK
<1>12. ASSUME WaitDb PROVE DataTypeOK'
  BY <1>12 DEF WaitDb, GoOn, session, data_vars
<1>13. ASSUME Report PROVE DataTypeOK'
  <2>1. [query |-> q, complete |-> printed = Len(result) + 1, result |-> result,
         verdict |-> db_result] \in Runs
    BY <1>13 DEF Report, Runs
  <2>2. runs' \in Seq(Runs)
    BY <1>13, <2>1 DEF Report
  <2> QED
    BY <1>13, <2>2 DEF Report, AfterVerdict, data_vars
<1>14. ASSUME Remap PROVE DataTypeOK'
  BY <1>14 DEF Remap, RemapStep, others, data_vars
<1>15. ASSUME ExecDb PROVE DataTypeOK'
  BY <1>15 DEF ExecDb, others, data_vars
<1>16. ASSUME ExecFails PROVE DataTypeOK'
  BY <1>16 DEF ExecFails, others, data_vars
<1>17. ASSUME DbTalks PROVE DataTypeOK'
  <2>1. db' \in DbStates
    BY <1>17 DEF DbTalks, ReadQuery, AskLimit, ReadLimit, Validate
  <2>2. to_db' \in Seq({"query", "limit"})
    <3>1. to_db # <<>> => Tail(to_db) \in Seq({"query", "limit"})
      BY LinesRead
    <3> QED
      BY <1>17, <3>1 DEF DbTalks, ReadQuery, AskLimit, ReadLimit, Validate, Hears
  <2>3. to_monitor' \in Seq(Lines)
    <3>1. /\ Append(to_monitor, "get_memory_limit") \in Seq(Lines)
          /\ Append(to_monitor, "validate") \in Seq(Lines)
      BY LinesWritten
    <3> QED
      BY <1>17, <3>1 DEF DbTalks, ReadQuery, AskLimit, ReadLimit, Validate, Say
  <2> QED
    BY <1>17, <2>1, <2>2, <2>3 DEF DbTalks, others
<1>18. ASSUME PrintRow PROVE DataTypeOK'
  BY <1>18, LineIsPrinted DEF PrintRow, Say, others
<1>19. ASSUME DbExit PROVE DataTypeOK'
  BY <1>19 DEF DbExit, others, data_vars
<1>20. ASSUME DbFails PROVE DataTypeOK'
  BY <1>20 DEF DbFails, others, data_vars
<1>21. ASSUME DiskExits PROVE DataTypeOK'
  BY <1>21 DEF DiskExits, data_vars
<1>22. ASSUME UNCHANGED vars PROVE DataTypeOK'
  BY <1>22 DEF vars, data_vars
<1> QED
  BY <1>1, <1>2, <1>3, <1>4, <1>5, <1>6, <1>7, <1>8, <1>9, <1>10, <1>11, <1>12, <1>13, <1>14,
     <1>15, <1>16, <1>17, <1>18, <1>19, <1>20, <1>21, <1>22
     DEF Next, MonitorNext, DbNext, Stopped
-----------------------------------------------------------------------------
\* pipe() opens nothing but the ends it is asked for, and leaves the rest alone.
LEMMA OpenPipesOpens ==
    ASSUME NEW fds, NEW files, Len(files) \in Nat, NEW fd \in Fds
    PROVE  \/ OpenPipes(fds, files)[fd] = fds[fd]
           \/ /\ fds[fd] = Closed
              /\ \E k \in 1 .. Len(files) :
                     OpenPipes(fds, files)[fd] = [file |-> files[k], cloexec |-> TRUE]
<1> DEFINE free == {d \in 0 .. fd : fds[d] = Closed}
           n == Cardinality(free)
<1>1. OpenPipes(fds, files)[fd] =
          IF fds[fd] = Closed /\ n <= Len(files)
          THEN [file |-> files[n], cloexec |-> TRUE] ELSE fds[fd]
  BY DEF OpenPipes
<1>2. ASSUME fds[fd] = Closed PROVE n \in Nat /\ n >= 1
  <2>1. IsFiniteSet(0 .. fd)
    BY FS_Interval, FdAssumption DEF Fds
  <2>2. IsFiniteSet(free)
    BY <2>1, FS_Subset
  <2>3. fd \in free
    BY <1>2, FdAssumption DEF Fds
  <2> QED
    BY <2>2, <2>3, FS_CardinalityType, FS_EmptySet
<1> HIDE DEF n
<1>3. CASE fds[fd] = Closed /\ n <= Len(files)
  <2>1. n \in 1 .. Len(files)
    BY <1>2, <1>3
  <2>2. OpenPipes(fds, files)[fd] = [file |-> files[n], cloexec |-> TRUE]
    BY <1>1, <1>3
  <2> QED
    BY <1>3, <2>1, <2>2
<1>4. CASE ~(fds[fd] = Closed /\ n <= Len(files))
  BY <1>1, <1>4
<1> QED
  BY <1>3, <1>4

\* The four ends that the database is to have.
LEMMA DbFileSet == ToSet(DbFiles) = {Rd("disk_outbound"), Wr("disk_inbound"),
                                     Rd("monitor_to_db"), Wr("db_to_monitor")}
BY DEF ToSet, DbFiles

\* The monitor starts with no end of a pipe of its own,
LEMMA OwnFdsInit == Init => OwnFds
BY DEF Init, OwnFds, InheritedFds, Closed

\* and has in each of its states the ends it needs there, and no others.
LEMMA OwnFdsStep ==
    ASSUME OwnFds, [Next]_vars
    PROVE  OwnFds'
<1>1. ASSUME StartDisk PROVE OwnFds'
  <2> DEFINE files == <<Rd("disk_outbound"), Wr("disk_outbound"),
                        Rd("disk_inbound"), Wr("disk_inbound")>>
             fds == OpenPipes(monitor_fds, files)
  <2>1. monitor_fds' = Drop(fds, {Rd("disk_inbound"), Wr("disk_outbound")})
    BY <1>1 DEF StartDisk
  <2>2. ASSUME NEW fd \in Fds PROVE
            fds[fd].cloexec => fds[fd].file \in
                {Rd("disk_outbound"), Wr("disk_outbound"), Rd("disk_inbound"), Wr("disk_inbound")}
    <3>1. monitor = "Start"
      BY <1>1 DEF StartDisk
    <3>2. ~monitor_fds[fd].cloexec
      BY <3>1 DEF OwnFds, Kept
    <3>3. Len(files) = 4
      OBVIOUS
    <3>4. \A k \in 1 .. 4 : files[k] \in
              {Rd("disk_outbound"), Wr("disk_outbound"), Rd("disk_inbound"), Wr("disk_inbound")}
      OBVIOUS
    <3> HIDE DEF files
    <3>5. \/ fds[fd] = monitor_fds[fd]
          \/ \E k \in 1 .. 4 : fds[fd] = [file |-> files[k], cloexec |-> TRUE]
      <4>1. Len(files) \in Nat
        BY <3>3
      <4>2. \/ fds[fd] = monitor_fds[fd]
            \/ /\ monitor_fds[fd] = Closed
               /\ \E k \in 1 .. Len(files) :
                      fds[fd] = [file |-> files[k], cloexec |-> TRUE]
        BY <4>1, OpenPipesOpens, Zenon
      <4> QED
        BY <4>2, <3>3
    <3> HIDE DEF fds
    <3> QED
      BY <3>2, <3>4, <3>5
  <2>3. monitor' = "StartDb"
    BY <1>1 DEF StartDisk
  <2> HIDE DEF fds
  <2> QED
    BY <2>1, <2>2, <2>3 DEF OwnFds, Drop, Kept, ToDisk, Closed
<1>2. ASSUME Fork PROVE OwnFds'
  <2> DEFINE files == <<Rd("monitor_to_db"), Wr("monitor_to_db"), Rd("db_to_monitor"),
                        Wr("db_to_monitor"), Rd("exec"), Wr("exec")>>
             fds == OpenPipes(monitor_fds, files)
  <2>1. monitor_fds' = Drop(fds, {Wr("exec")})
    BY <1>2 DEF Fork
  <2>2. ASSUME NEW fd \in Fds PROVE
            fds[fd].cloexec => fds[fd].file \in
                ToDisk \cup {Rd("monitor_to_db"), Wr("monitor_to_db"), Rd("db_to_monitor"),
                            Wr("db_to_monitor"), Rd("exec"), Wr("exec")}
    <3>1. monitor_fds[fd].cloexec => monitor_fds[fd].file \in ToDisk
      BY <1>2 DEF Fork, OwnFds, Kept
    <3>2. Len(files) = 6
      OBVIOUS
    <3>3. \A k \in 1 .. 6 : files[k] \in
              {Rd("monitor_to_db"), Wr("monitor_to_db"), Rd("db_to_monitor"),
               Wr("db_to_monitor"), Rd("exec"), Wr("exec")}
      OBVIOUS
    <3> HIDE DEF files
    <3>5. \/ fds[fd] = monitor_fds[fd]
          \/ \E k \in 1 .. 6 : fds[fd] = [file |-> files[k], cloexec |-> TRUE]
      <4>1. Len(files) \in Nat
        BY <3>2
      <4>2. \/ fds[fd] = monitor_fds[fd]
            \/ /\ monitor_fds[fd] = Closed
               /\ \E k \in 1 .. Len(files) :
                      fds[fd] = [file |-> files[k], cloexec |-> TRUE]
        BY <4>1, OpenPipesOpens, Zenon
      <4> QED
        BY <4>2, <3>2
    <3> HIDE DEF fds
    <3> QED
      BY <3>1, <3>3, <3>5
  <2>3. monitor' = "AwaitExec"
    BY <1>2 DEF Fork
  <2> HIDE DEF fds
  <2> QED
    BY <2>1, <2>2, <2>3, DbFileSet DEF OwnFds, Drop, Kept, ToDisk, ToDb, OfTheChild, Closed
<1>3. ASSUME SpawnFails \/ Finish PROVE OwnFds'
  BY <1>3 DEF SpawnFails, Finish, OwnFds, NoFds, Closed
<1>4. ASSUME Spawned PROVE OwnFds'
  BY <1>4 DEF Spawned, OwnFds, NoFds, Drop, Kept, Closed
<1>5. ASSUME Report PROVE OwnFds'
  BY <1>5 DEF Report, AfterVerdict, OwnFds, Drop, Kept, ToDb, Closed
<1>6. ASSUME SendQuery \/ ReadCommand \/ SendLimit \/ ValidateBySorting \/ ValidatePresorted
                \/ WaitDb
      PROVE  OwnFds'
  <2>1. UNCHANGED monitor_fds
    BY <1>6 DEF SendQuery, ReadCommand, SendLimit, ValidateBySorting, ValidatePresorted, WaitDb,
                session
  <2>2. Kept = ToDb
    BY <1>6 DEF SendQuery, ReadCommand, SendLimit, ValidateBySorting, ValidatePresorted, WaitDb,
                Kept
  <2>3. monitor' \in {"SendLimit", "ReadCommand", "BySorting", "Presorted", "WaitDb", "WaitDisk"}
    BY <1>6 DEF SendQuery, ReadCommand, SendLimit, ValidateBySorting, ValidatePresorted, WaitDb,
                Write, Judge, GoOn, VerdictAtEnd
  <2>4. Kept' = ToDb
    BY <2>3 DEF Kept, ToDb
  <2> QED
    BY <2>1, <2>2, <2>4 DEF OwnFds
<1>7. ASSUME Skip \/ DbNext \/ ExecFails \/ DbFails \/ DiskExits \/ Stopped \/ UNCHANGED vars
      PROVE  OwnFds'
  <2>1. UNCHANGED <<monitor_fds, monitor>>
    BY <1>7 DEF Skip, DbNext, Remap, ExecDb, DbTalks, PrintRow, DbExit, ExecFails, DbFails,
                DiskExits, Stopped, vars, fd_vars, others
  <2> QED
    BY <2>1 DEF OwnFds, Kept, ToDisk, ToDb, OfTheChild
<1> QED
  BY <1>1, <1>2, <1>3, <1>4, <1>5, <1>6, <1>7 DEF Next, MonitorNext
-----------------------------------------------------------------------------
\* No process runs at the start,
LEMMA ProcessesInit == Init => Processes
BY DEF Init, Processes

\* and the monitor goes on only when the ones it started have ended.
LEMMA ProcessesStep ==
    ASSUME DataTypeOK, Processes, [Next]_vars
    PROVE  Processes'
<1> USE DEF Processes, DbEnded
<1>1. ASSUME Skip \/ StartDisk \/ Fork \/ SpawnFails \/ Finish PROVE Processes'
  BY <1>1 DEF Skip, StartDisk, Fork, SpawnFails, Finish
<1>2. ASSUME Spawned PROVE Processes'
  BY <1>2 DEF Spawned
<1>3. ASSUME SendQuery \/ ReadCommand \/ SendLimit \/ ValidateBySorting \/ ValidatePresorted
                \/ WaitDb
      PROVE  Processes'
  <2>1. /\ monitor' \in {"SendLimit", "ReadCommand", "BySorting", "Presorted", "WaitDb", "WaitDisk"}
        /\ monitor' = "WaitDisk" => DbEnded'
    <3>1. ASSUME NEW outcome \in {"Ok", "Err"}, Judge(outcome)
          PROVE  monitor' \in {"WaitDb", "WaitDisk"} /\ (monitor' = "WaitDisk" => DbEnded')
      BY <3>1 DEF Judge
    <3> QED
      BY <1>3, <3>1 DEF SendQuery, ReadCommand, SendLimit, ValidateBySorting, ValidatePresorted,
                        WaitDb, Write, GoOn, VerdictAtEnd
  <2> QED
    BY <2>1
<1>4. ASSUME Report PROVE Processes'
  BY <1>4 DEF Report, DiskGone, AfterVerdict, DataTypeOK
<1>5. ASSUME DbNext \/ ExecFails \/ DbFails PROVE Processes'
  <2>1. UNCHANGED <<monitor, db_result, disk>>
    BY <1>5 DEF DbNext, Remap, ExecDb, DbTalks, PrintRow, DbExit, ExecFails, DbFails, others
  <2>2. db # "None" /\ ~DbEnded
    BY <1>5 DEF DbNext, Remap, ExecDb, DbTalks, ReadQuery, AskLimit, ReadLimit, Validate,
                PrintRow, DbExit, ExecFails, DbFails
  <2> QED
    BY <2>1, <2>2
<1>6. ASSUME DiskExits \/ Stopped \/ UNCHANGED vars PROVE Processes'
  BY <1>6 DEF DiskExits, Stopped, vars
<1> QED
  BY <1>1, <1>2, <1>3, <1>4, <1>5, <1>6 DEF Next, MonitorNext

\* When a session is over, its processes and descriptors are gone.
LEMMA NothingIsLeft ==
    ASSUME DataTypeOK, Processes, OwnFds
    PROVE  NoProcessLeft
<1>1. ASSUME monitor \in {"Start", "Finished", "Aborted"}, NEW fd \in Fds
      PROVE  ~monitor_fds[fd].cloexec
  BY <1>1 DEF OwnFds, Kept
<1> QED
  BY <1>1 DEF NoProcessLeft, Processes
-----------------------------------------------------------------------------
\* No query has been run at the start,
LEMMA SuiteSoFarInit == Init => SuiteSoFar
<1> SUFFICES ASSUME Init PROVE SuiteSoFar
  OBVIOUS
<1>1. Len(suite) \in Nat
  BY SessionAssumption DEF Init
<1> QED
  BY <1>1 DEF Init, SuiteSoFar, Reached, Busy

\* and every step leaves the runs those of the queries passed so far.
LEMMA SuiteSoFarStep ==
    ASSUME DataTypeOK, Processes, SuiteSoFar, [Next]_vars
    PROVE  SuiteSoFar'
<1>1. ASSUME UNCHANGED <<suite, q, runs>>, UNCHANGED Reached, Busy' => Busy,
             monitor' = "Finished" => q = Len(suite) + 1
      PROVE  SuiteSoFar'
  BY <1>1 DEF SuiteSoFar
<1>2. ASSUME Skip PROVE SuiteSoFar'
  BY <1>2 DEF Skip, SuiteSoFar, Reached, Busy, Query, DataTypeOK
<1>3. ASSUME StartDisk PROVE SuiteSoFar'
  BY <1>3 DEF StartDisk, SuiteSoFar, Reached, Busy, Query
<1>4. ASSUME Finish PROVE SuiteSoFar'
  <2>1. q = Len(suite) + 1
    BY <1>4 DEF Finish, SuiteSoFar, DataTypeOK
  <2> QED
    BY <1>1, <1>4, <2>1 DEF Finish, Reached, Busy
<1>5. ASSUME SpawnFails \/ Spawned PROVE SuiteSoFar'
  BY <1>1, <1>5 DEF SpawnFails, Spawned, Reached, Busy, Processes
<1>6. ASSUME Fork \/ SendQuery \/ ReadCommand \/ SendLimit \/ ValidateBySorting
                \/ ValidatePresorted \/ WaitDb
      PROVE  SuiteSoFar'
  <2>1. UNCHANGED <<suite, q, runs>>
    BY <1>6 DEF Fork, SendQuery, ReadCommand, SendLimit, ValidateBySorting, ValidatePresorted,
                WaitDb, session
  <2>2. /\ Busy
        /\ monitor' \notin {"Aborted", "Finished"}
    BY <1>6 DEF Fork, SendQuery, ReadCommand, SendLimit, ValidateBySorting, ValidatePresorted,
                WaitDb, Write, Judge, GoOn, VerdictAtEnd, Busy
  <2> QED
    BY <1>1, <2>1, <2>2 DEF Reached, Busy
<1>7. ASSUME Report PROVE SuiteSoFar'
  <2> DEFINE run == [query |-> q, complete |-> printed = Len(result) + 1,
                     result |-> result, verdict |-> db_result]
  <2>1. runs' = Append(runs, run) /\ UNCHANGED <<suite, db_result>>
    BY <1>7 DEF Report
  <2>2. Len(runs') = Len(runs) + 1 /\ Len(runs) \in Nat /\ DOMAIN runs' = 1 .. Len(runs) + 1
    BY <2>1 DEF DataTypeOK
  <2>3. /\ \A i \in 1 .. Len(runs) : runs'[i] = runs[i]
        /\ runs'[Len(runs) + 1] = run
    BY <2>1 DEF DataTypeOK
  <2>4. Busy /\ Reached = q - 1 /\ q \in Nat /\ q > 0
    BY <1>7 DEF Report, Busy, Reached, DataTypeOK
  <2>5. Reached' = q
    BY <1>7, <2>4 DEF Report, AfterVerdict, Reached, DataTypeOK
  <2>6. \/ monitor' = "Start" /\ q' = q + 1 /\ db_result = "Ok"
        \/ monitor' = "Aborted" /\ q' = q /\ db_result = "Err"
    BY <1>7 DEF Report, AfterVerdict, DataTypeOK
  <2>7. q <= Len(suite) /\ ~suite[q].disabled /\ Len(suite) \in Nat
    BY <2>4 DEF SuiteSoFar, DataTypeOK
  <2>8. \A i \in 1 .. Len(runs) : /\ runs[i].query \in 1 .. q - 1
                                  /\ ~suite[runs[i].query].disabled
                                  /\ runs[i].verdict # "Err"
    <3>1. DOMAIN runs = 1 .. Len(runs)
      BY DEF DataTypeOK
    <3> QED
      BY <2>4, <3>1 DEF SuiteSoFar
  <2>9. \A i \in DOMAIN runs' : runs'[i].query \in 1 .. Reached' /\ ~suite[runs'[i].query].disabled
    BY <2>2, <2>3, <2>4, <2>5, <2>7, <2>8
  <2>10. \A i, j \in DOMAIN runs' : i < j => runs'[i].query < runs'[j].query
    <3> SUFFICES ASSUME NEW i \in DOMAIN runs', NEW j \in DOMAIN runs', i < j
                 PROVE  runs'[i].query < runs'[j].query
      OBVIOUS
    <3>1. CASE j = Len(runs) + 1
      BY <2>2, <2>3, <2>4, <2>8, <3>1
    <3>2. CASE j # Len(runs) + 1
      <4>1. i \in 1 .. Len(runs) /\ j \in 1 .. Len(runs) /\ DOMAIN runs = 1 .. Len(runs)
        BY <2>2, <3>2 DEF DataTypeOK
      <4> QED
        BY <2>3, <4>1 DEF SuiteSoFar
    <3> QED
      BY <3>1, <3>2
  <2>11. \A n \in 1 .. Reached' : ~suite[n].disabled => \E i \in DOMAIN runs' : runs'[i].query = n
    <3> SUFFICES ASSUME NEW n \in 1 .. q, ~suite[n].disabled
                 PROVE  \E i \in DOMAIN runs' : runs'[i].query = n
      BY <2>5
    <3>1. CASE n = q
      BY <2>2, <2>3, <3>1
    <3>2. CASE n # q
      <4>1. PICK i \in DOMAIN runs : runs[i].query = n
        BY <2>4, <3>2 DEF SuiteSoFar
      <4>2. i \in 1 .. Len(runs)
        BY DEF DataTypeOK
      <4> QED
        BY <2>2, <2>3, <4>1, <4>2
    <3> QED
      BY <3>1, <3>2
  <2>12. \A i \in DOMAIN runs' : runs'[i].verdict = "Err" => i = Len(runs') /\ Reached' = q'
    <3> SUFFICES ASSUME NEW i \in DOMAIN runs', runs'[i].verdict = "Err"
                 PROVE  i = Len(runs') /\ Reached' = q'
      OBVIOUS
    <3>1. i = Len(runs) + 1
      BY <2>2, <2>3, <2>8
    <3>2. db_result = "Err"
      BY <2>3, <3>1
    <3> QED
      BY <2>2, <2>5, <2>6, <3>1, <3>2
  <2>13. Busy' \/ Reached' = q' => q' <= Len(suite) /\ ~suite[q'].disabled
    BY <2>4, <2>5, <2>6, <2>7 DEF Busy
  <2>14. q' <= Len(suite) + 1 /\ monitor' # "Finished" /\ suite' = suite
    BY <2>1, <2>4, <2>6, <2>7
  <2> HIDE DEF run
  <2> QED
    BY <2>9, <2>10, <2>11, <2>12, <2>13, <2>14 DEF SuiteSoFar
<1>8. ASSUME DbNext \/ ExecFails \/ DbFails \/ DiskExits \/ Stopped \/ UNCHANGED vars
      PROVE  SuiteSoFar'
  <2>1. UNCHANGED <<suite, q, runs, monitor, db_result>>
    BY <1>8 DEF DbNext, Remap, ExecDb, DbTalks, PrintRow, DbExit, ExecFails, DbFails,
                DiskExits, Stopped, vars, others
  <2> QED
    BY <1>1, <2>1 DEF Reached, Busy, SuiteSoFar
<1> QED
  BY <1>2, <1>3, <1>4, <1>5, <1>6, <1>7, <1>8 DEF Next, MonitorNext

\* The queries that have been run are those of the suite, in its order.
LEMMA SuiteIsFollowed ==
    ASSUME DataTypeOK, SuiteSoFar
    PROVE  RunsFollowSuite
<1>1. DOMAIN suite = 1 .. Len(suite) /\ Len(suite) \in Nat /\ q \in Nat
  BY DEF DataTypeOK
<1>2. ASSUME NEW n \in DOMAIN suite, ~suite[n].disabled,
             monitor = "Finished" \/ \E i \in DOMAIN runs : n < runs[i].query
      PROVE  \E i \in DOMAIN runs : runs[i].query = n
  <2>1. n \in 1 .. Reached
    BY <1>1, <1>2 DEF SuiteSoFar, Reached
  <2> QED
    BY <1>2, <2>1 DEF SuiteSoFar
<1>3. Reached = q => monitor = "Aborted"
  BY <1>1 DEF Reached
<1> QED
  BY <1>2, <1>3 DEF SuiteSoFar, RunsFollowSuite
-----------------------------------------------------------------------------
\* The expected rows of a query are rows.
LEMMA QueryExpectsRows ==
    ASSUME DataTypeOK, SuiteSoFar, Busy
    PROVE  Query \in QueryConfigs /\ Query.expected \in Seq(Rows)
<1>1. Query \in QueryConfigs
  BY DEF DataTypeOK, SuiteSoFar, Query
<1> QED
  BY <1>1 DEF QueryConfigs

\* Rows that are the same when sorted are as many.
LEMMA SameRowsLength ==
    ASSUME NEW rows \in Seq(Rows), NEW expected \in Seq(Rows), SameRows(rows, expected)
    PROVE  Len(rows) = Len(expected)
<1>1. DOMAIN rows = DOMAIN expected
  BY DEF SameRows
<1> DEFINE m == Len(rows)
           n == Len(expected)
<1>2. m \in Nat /\ n \in Nat /\ 1 .. m = 1 .. n
  BY <1>1
<1> HIDE DEF m, n
<1>3. (m > 0 => m \in 1 .. n) /\ (n > 0 => n \in 1 .. m)
  BY <1>2
<1>4. m = n
  BY <1>2, <1>3
<1> QED
  BY <1>4 DEF m, n

\* The next line of the pipe is the line behind the rows that were seen.
LEMMA NextLine ==
    ASSUME DataTypeOK, Validating, to_monitor # <<>>
    PROVE  /\ Head(to_monitor) = Line(Len(seen) + 1)
           /\ Len(seen) + 1 <= printed /\ Len(seen) \in Nat /\ Len(to_monitor) >= 1
           /\ Len(Tail(to_monitor)) = Len(to_monitor) - 1
           /\ \A i \in 1 .. Len(Tail(to_monitor)) : Tail(to_monitor)[i] = Line(Len(seen) + 1 + i)
<1>1. to_monitor \in Seq(Lines) /\ seen \in Seq(Lines)
  BY DEF DataTypeOK
<1>2. Len(to_monitor) >= 1 /\ Len(seen) \in Nat /\ Len(to_monitor) \in Nat
  BY <1>1
<1>3. Head(to_monitor) = to_monitor[1] /\ Len(Tail(to_monitor)) = Len(to_monitor) - 1
  BY <1>1
<1>4. to_monitor[1] = Line(Len(seen) + 1)
  BY <1>2 DEF Validating
<1>5. ASSUME NEW i \in 1 .. Len(Tail(to_monitor))
      PROVE  Tail(to_monitor)[i] = Line(Len(seen) + 1 + i)
  <2>1. Tail(to_monitor)[i] = to_monitor[i + 1]
    BY <1>1
  <2>2. i + 1 \in 1 .. Len(to_monitor) /\ Len(seen) + (i + 1) = Len(seen) + 1 + i
    BY <1>2, <1>3
  <2> QED
    BY <2>1, <2>2 DEF Validating
<1> QED
  BY <1>2, <1>3, <1>4, <1>5 DEF Validating

\* A row of the result is no end, and what follows the rows is one.
LEMMA LineOfResult ==
    ASSUME DataTypeOK, NEW n \in Nat, n >= 1
    PROVE  Line(n) = End <=> n > Len(result)
<1>1. n <= Len(result) => result[n] \in Rows
  BY DEF DataTypeOK
<1> QED
  BY <1>1, SessionAssumption DEF Line, DataTypeOK

\* When the end is read, all rows have been, and all have been printed.
LEMMA EndRead ==
    ASSUME DataTypeOK, Validating, to_monitor # <<>>, Head(to_monitor) = End
    PROVE  seen = result /\ printed = Len(result) + 1
<1>1. Len(seen) + 1 > Len(result)
  BY NextLine, LineOfResult
<1>2. Len(result) \in Nat /\ printed \in Nat /\ printed <= Len(result) + 1 /\ Len(seen) \in Nat
  BY DEF DataTypeOK
<1>3. Len(seen) = Len(result) /\ printed = Len(result) + 1
  BY <1>1, <1>2, NextLine
<1>4. \A i \in 1 .. Len(seen) : seen[i] = result[i]
  BY <1>2, <1>3 DEF Validating, Line
<1>5. seen \in Seq(Lines) /\ result \in Seq(Rows)
  BY DEF DataTypeOK
<1>6. seen = result
  BY <1>3, <1>4, <1>5
<1> QED
  BY <1>3, <1>6

\* A line that is no end is the next row of the result.
LEMMA RowRead ==
    ASSUME DataTypeOK, Validating, to_monitor # <<>>, Head(to_monitor) # End
    PROVE  Len(seen) + 1 <= Len(result) /\ Head(to_monitor) = result[Len(seen) + 1]
<1>1. Len(result) \in Nat /\ Len(seen) \in Nat
  BY DEF DataTypeOK
<1>2. ~(Len(seen) + 1 > Len(result))
  BY <1>1, NextLine, LineOfResult
<1> QED
  BY <1>1, <1>2, NextLine DEF Line

\* When nothing is left to read and no end has been seen, none was printed.
LEMMA NothingToRead ==
    ASSUME DataTypeOK, Validating, to_monitor = <<>>
    PROVE  printed # Len(result) + 1
<1>1. Len(seen) = printed /\ Len(seen) \in Nat /\ Len(result) \in Nat
  BY DEF DataTypeOK, Validating
<1>2. ASSUME printed = Len(result) + 1 PROVE FALSE
  <2>1. seen[printed] = Line(printed) /\ seen[printed] # End
    BY <1>1, <1>2 DEF Validating
  <2> QED
    BY <1>1, <1>2, <2>1, LineOfResult
<1> QED
  BY <1>2
-----------------------------------------------------------------------------
\* A verdict keeps the dialogue in order if it is the right one.
LEMMA RightJudgement ==
    ASSUME DataTypeOK, NEW outcome, Judge(outcome), outcome = IF IsRight THEN "Ok" ELSE "Err",
           UNCHANGED <<suite, q, result, printed>>
    PROVE  Dialogue'
<1>1. IsRight' <=> IsRight
  BY DEF IsRight, Query
<1> QED
  BY <1>1 DEF Judge, Dialogue

\* The query is written while nothing has been said.
LEMMA SendQueryDialogue ==
    ASSUME DataTypeOK, Dialogue, SendQuery
    PROVE  Dialogue'
<1>1. BeforeQuery /\ Len(result) \in Nat
  BY DEF SendQuery, Dialogue, DataTypeOK
<1>2. UNCHANGED <<suite, q, result, printed, seen, to_monitor>>
  BY DEF SendQuery, session
<1>3. CASE Judge("Err")
  BY <1>1, <1>2, <1>3, RightJudgement DEF IsRight, BeforeQuery
<1>4. CASE to_db' = Append(to_db, "query") /\ GoOn("ReadCommand")
  <2>1. to_db' = <<"query">>
    BY <1>1, <1>4 DEF BeforeQuery
  <2>2. UNCHANGED db /\ monitor' = "ReadCommand"
    BY <1>4 DEF GoOn
  <2>3. BeforeLimit'
    BY <1>1, <1>2, <2>1, <2>2 DEF BeforeQuery, BeforeLimit, DbEnded
  <2> QED
    BY <1>1, <1>2, <2>2, <2>3 DEF Dialogue, BeforeQuery
<1> QED
  BY <1>3, <1>4 DEF SendQuery, Write

\* The limit is written while the database waits for it, or is gone.
LEMMA SendLimitDialogue ==
    ASSUME DataTypeOK, Dialogue, SendLimit
    PROVE  Dialogue'
<1>1. AskedForLimit /\ seen = <<>> /\ Len(result) \in Nat
  BY DEF SendLimit, Dialogue, DataTypeOK
<1>2. UNCHANGED <<suite, q, result, printed, seen, to_monitor>>
  BY DEF SendLimit, session
<1>3. CASE Judge("Err")
  BY <1>1, <1>2, <1>3, RightJudgement DEF IsRight, AskedForLimit
<1>4. CASE to_db' = Append(to_db, "limit") /\ GoOn("ReadCommand")
  <2>1. to_db' = <<"limit">>
    BY <1>1, <1>4 DEF AskedForLimit
  <2>2. UNCHANGED db /\ monitor' = "ReadCommand"
    BY <1>4 DEF GoOn
  <2>3. BeforeValidate'
    BY <1>1, <1>2, <2>1, <2>2 DEF AskedForLimit, BeforeValidate, DbEnded
  <2> QED
    BY <1>1, <1>2, <2>2, <2>3 DEF Dialogue
<1> QED
  BY <1>3, <1>4 DEF SendLimit, Write

\* A command is the one the database has come to, and no other.
LEMMA ReadCommandDialogue ==
    ASSUME DataTypeOK, SuiteSoFar, Dialogue, ReadCommand
    PROVE  Dialogue'
<1>1. /\ seen = <<>> /\ (BeforeLimit \/ BeforeValidate)
      /\ Len(result) \in Nat /\ printed \in Nat /\ to_monitor \in Seq(Lines)
  BY DEF ReadCommand, Dialogue, DataTypeOK
<1>2. UNCHANGED <<suite, q, result, printed, seen, to_db>>
  BY DEF ReadCommand, session
<1>3. CASE to_monitor = <<>> /\ Judge("Err")
  <2>1. printed = 0
    BY <1>1, <1>3 DEF BeforeLimit, BeforeValidate
  <2> QED
    BY <1>1, <1>2, <1>3, <2>1, RightJudgement DEF IsRight
<1>4. CASE to_monitor # <<>>
  <2>1. to_monitor' = Tail(to_monitor)
    BY <1>4 DEF ReadCommand, AtEnd
  <2>2. CASE BeforeLimit
    <3>1. to_monitor = <<"get_memory_limit">> /\ printed = 0 /\ (DbEnded \/ db = "ReadLimit")
      BY <1>4, <2>2 DEF BeforeLimit
    <3>2. to_monitor' = <<>> /\ Head(to_monitor) = "get_memory_limit"
      BY <2>1, <3>1
    <3>3. GoOn("SendLimit")
      BY <1>4, <3>2 DEF ReadCommand, AtEnd
    <3>4. to_db = <<>>
      BY <2>2, <3>1 DEF BeforeLimit, DbEnded
    <3> QED
      BY <1>1, <1>2, <3>1, <3>2, <3>3, <3>4 DEF GoOn, Dialogue, AskedForLimit, DbEnded
  <2>3. CASE BeforeValidate
    <3>1. /\ DbEnded \/ db = "Rows"
          /\ Len(to_monitor) = printed + 1 /\ to_monitor[1] = "validate"
          /\ \A i \in 1 .. printed : to_monitor[i + 1] = Line(i)
      BY <1>4, <2>3 DEF BeforeValidate
    <3>2. Head(to_monitor) = "validate"
      BY <1>1, <3>1
    <3>3. GoOn(IF Query.sort_before_check THEN "BySorting" ELSE "Presorted")
      BY <1>4, <3>2 DEF ReadCommand, AtEnd
    <3>4. UNCHANGED db /\ monitor' = IF Query.sort_before_check THEN "BySorting" ELSE "Presorted"
      BY <3>3 DEF GoOn
    <3>5. Len(to_monitor') = printed /\ \A i \in 1 .. printed : to_monitor'[i] = Line(i)
      BY <1>1, <2>1, <3>1
    <3>6. Len(seen') = 0 /\ Len(Query.expected) \in Nat
      BY <1>1, <1>2, QueryExpectsRows DEF ReadCommand, Busy
    <3>7. Line(0)' = Line(0) /\ \A i \in 1 .. printed : Line(i)' = Line(i)
      BY <1>2 DEF Line
    <3>8. Query' = Query
      BY <1>2 DEF Query
    <3>9. Validating'
      BY <1>1, <1>2, <3>1, <3>4, <3>5, <3>6, <3>7, <3>8 DEF Validating, DbEnded
    <3> QED
      BY <3>4, <3>9 DEF Dialogue
  <2> QED
    BY <1>1, <2>2, <2>3
<1> QED
  BY <1>3, <1>4 DEF ReadCommand

\* One more row has been read, and it gave no reason to stop.
LEMMA OneMoreSeen ==
    ASSUME DataTypeOK, SuiteSoFar, Busy, Validating, to_monitor # <<>>, Head(to_monitor) # End,
           Len(seen) < Len(Query.expected),
           monitor # "BySorting" => Head(to_monitor) = Query.expected[Len(seen) + 1],
           to_monitor' = Tail(to_monitor), seen' = Append(seen, Head(to_monitor)),
           UNCHANGED <<suite, q, monitor, db, result, printed>>
    PROVE  Validating'
<1>1. /\ Len(seen) \in Nat /\ Len(to_monitor) \in Nat /\ Len(to_monitor) >= 1
      /\ printed \in Nat /\ Len(Query.expected) \in Nat
  BY NextLine, QueryExpectsRows DEF DataTypeOK
<1>2. /\ Len(seen') = Len(seen) + 1
      /\ \A i \in 1 .. Len(seen) : seen'[i] = seen[i]
      /\ seen'[Len(seen) + 1] = Head(to_monitor)
  BY DEF DataTypeOK
<1>3. Query' = Query /\ \A i \in Nat : Line(i)' = Line(i)
  BY DEF Query, Line
<1>4. Len(seen') + Len(to_monitor') = printed'
  BY <1>1, <1>2, NextLine DEF Validating
<1>5. \A i \in 1 .. Len(seen') : seen'[i] = Line(i)' /\ seen'[i] # End
  BY <1>1, <1>2, <1>3, NextLine DEF Validating
<1>6. \A i \in 1 .. Len(to_monitor') : to_monitor'[i] = Line(Len(seen) + 1 + i)
  BY NextLine
<1>7. \A i \in 1 .. Len(to_monitor') : to_monitor'[i] = Line(Len(seen) + i)'
  <2>1. Len(to_monitor') \in Nat
    BY <1>1, NextLine
  <2>2. \A i \in 1 .. Len(to_monitor') : Line(Len(seen) + i)' = Line(Len(seen) + 1 + i)
    BY <1>1, <1>2, <2>1 DEF Line
  <2> QED
    BY <1>6, <2>2
<1>8. monitor # "BySorting" => \A i \in 1 .. Len(seen') : seen'[i] = Query.expected[i]
  BY <1>1, <1>2 DEF Validating
<1>9. Len(seen') <= Len(Query.expected)
  BY <1>1, <1>2
<1> QED
  BY <1>3, <1>4, <1>5, <1>7, <1>8, <1>9 DEF Validating, DbEnded

\* A verdict on sorted rows is given when all have been seen.
LEMMA ValidateBySortingDialogue ==
    ASSUME DataTypeOK, SuiteSoFar, Dialogue, ValidateBySorting
    PROVE  Dialogue'
<1>1. /\ monitor = "BySorting" /\ Busy /\ Validating /\ Query.sort_before_check
      /\ Query.expected \in Seq(Rows) /\ result \in Seq(Rows)
      /\ Len(result) \in Nat /\ Len(Query.expected) \in Nat /\ Len(seen) \in Nat
      /\ Len(seen) <= Len(Query.expected)
  BY QueryExpectsRows DEF ValidateBySorting, Busy, Dialogue, Validating, DataTypeOK
<1>2. UNCHANGED <<suite, q, result, printed>>
  BY DEF ValidateBySorting, session
<1>3. CASE to_monitor = <<>> /\ Judge("Err")
  BY <1>1, <1>2, <1>3, NothingToRead, RightJudgement DEF IsRight
<1>4. CASE /\ to_monitor # <<>> /\ Head(to_monitor) = End
           /\ Judge(IF Len(seen) = Len(Query.expected) /\ SameRows(seen, Query.expected)
                    THEN "Ok" ELSE "Err")
  <2>1. seen = result /\ printed = Len(result) + 1
    BY <1>1, <1>4, EndRead
  <2>2. SameRows(seen, Query.expected) => Len(seen) = Len(Query.expected)
    BY <1>1, <2>1, SameRowsLength
  <2>3. IsRight <=> Len(seen) = Len(Query.expected) /\ SameRows(seen, Query.expected)
    BY <1>1, <2>1, <2>2 DEF IsRight
  <2> QED
    BY <1>2, <1>4, <2>3, RightJudgement
<1>5. CASE /\ to_monitor # <<>> /\ Head(to_monitor) # End
           /\ Len(seen) = Len(Query.expected) /\ Judge("Err")
  <2>1. Len(seen) + 1 <= Len(result)
    BY <1>1, <1>5, RowRead
  <2>2. ~IsRight
    BY <1>1, <1>5, <2>1, SameRowsLength DEF IsRight
  <2> QED
    BY <1>2, <1>5, <2>2, RightJudgement
<1>6. CASE /\ to_monitor # <<>> /\ Head(to_monitor) # End /\ Len(seen) < Len(Query.expected)
           /\ to_monitor' = Tail(to_monitor) /\ seen' = Append(seen, Head(to_monitor))
           /\ GoOn(monitor)
  <2>1. UNCHANGED <<monitor, db>>
    BY <1>6 DEF GoOn
  <2>2. Validating'
    BY <1>1, <1>2, <1>6, <2>1, OneMoreSeen
  <2> QED
    BY <1>1, <2>1, <2>2 DEF Dialogue
<1> QED
  BY <1>3, <1>4, <1>5, <1>6 DEF ValidateBySorting, VerdictAtEnd, AtEnd

\* A verdict on rows in order is given at the first difference or the end.
LEMMA ValidatePresortedDialogue ==
    ASSUME DataTypeOK, SuiteSoFar, Dialogue, ValidatePresorted
    PROVE  Dialogue'
<1>1. /\ monitor = "Presorted" /\ Busy /\ Validating /\ ~Query.sort_before_check
      /\ Query.expected \in Seq(Rows) /\ result \in Seq(Rows)
      /\ Len(result) \in Nat /\ Len(Query.expected) \in Nat /\ Len(seen) \in Nat
      /\ Len(seen) <= Len(Query.expected)
      /\ \A i \in 1 .. Len(seen) : seen[i] = Query.expected[i]
  BY QueryExpectsRows DEF ValidatePresorted, Busy, Dialogue, Validating, DataTypeOK
<1>2. UNCHANGED <<suite, q, result, printed>>
  BY DEF ValidatePresorted, session
<1>3. CASE to_monitor = <<>> /\ Judge("Err")
  BY <1>1, <1>2, <1>3, NothingToRead, RightJudgement DEF IsRight
<1>4. CASE /\ to_monitor # <<>> /\ Len(seen) = Len(Query.expected)
           /\ Judge(IF Head(to_monitor) = End THEN "Ok" ELSE "Err")
  <2>1. CASE Head(to_monitor) = End
    <3>1. seen = result /\ printed = Len(result) + 1
      BY <1>1, <1>4, <2>1, EndRead
    <3>2. result = Query.expected
      BY <1>1, <1>4, <3>1
    <3> QED
      BY <1>1, <1>2, <1>4, <2>1, <3>1, <3>2, RightJudgement DEF IsRight
  <2>2. CASE Head(to_monitor) # End
    <3>1. Len(seen) + 1 <= Len(result)
      BY <1>1, <1>4, <2>2, RowRead
    <3>2. ~IsRight
      BY <1>1, <1>4, <3>1 DEF IsRight
    <3> QED
      BY <1>2, <1>4, <2>2, <3>2, RightJudgement
  <2> QED
    BY <2>1, <2>2
<1>5. CASE /\ to_monitor # <<>> /\ Len(seen) # Len(Query.expected)
           /\ Head(to_monitor) = Query.expected[Len(seen) + 1]
           /\ to_monitor' = Tail(to_monitor) /\ seen' = Append(seen, Head(to_monitor))
           /\ GoOn(monitor)
  <2>1. UNCHANGED <<monitor, db>>
    BY <1>5 DEF GoOn
  <2>2. Len(seen) < Len(Query.expected) /\ Head(to_monitor) # End
    BY <1>1, <1>5, SessionAssumption
  <2>3. Validating'
    BY <1>1, <1>2, <1>5, <2>1, <2>2, OneMoreSeen
  <2> QED
    BY <1>1, <2>1, <2>3 DEF Dialogue
<1>6. CASE /\ to_monitor # <<>> /\ Len(seen) # Len(Query.expected)
           /\ Head(to_monitor) # Query.expected[Len(seen) + 1]
           /\ Judge("Err")
  <2>1. CASE Head(to_monitor) = End
    <3>1. seen = result
      BY <1>1, <1>6, <2>1, EndRead
    <3>2. ~IsRight
      BY <1>1, <1>6, <3>1 DEF IsRight
    <3> QED
      BY <1>2, <1>6, <3>2, RightJudgement
  <2>2. CASE Head(to_monitor) # End
    <3>1. Head(to_monitor) = result[Len(seen) + 1]
      BY <1>1, <1>6, <2>2, RowRead
    <3>2. ~IsRight
      BY <1>1, <1>6, <3>1 DEF IsRight
    <3> QED
      BY <1>2, <1>6, <3>2, RightJudgement
  <2> QED
    BY <2>1, <2>2
<1> QED
  BY <1>3, <1>4, <1>5, <1>6 DEF ValidatePresorted, VerdictAtEnd, AtEnd

\* The steps of the database.
LEMMA DbTalksDialogue ==
    ASSUME DataTypeOK, Dialogue, DbTalks
    PROVE  Dialogue'
<1>1. UNCHANGED <<suite, q, monitor, db_result, result, printed, seen>> /\ db # "Rows" /\ ~DbEnded
  BY DEF DbTalks, ReadQuery, AskLimit, ReadLimit, Validate, others, DbEnded
<1>2. printed \in Nat /\ Len(result) \in Nat
  BY DEF DataTypeOK
<1>3. ASSUME BeforeQuery PROVE BeforeQuery'
  BY <1>1, <1>3 DEF BeforeQuery, DbTalks, ReadQuery, AskLimit, ReadLimit, Validate, Hears, DbEnded
<1>4. ASSUME BeforeLimit PROVE BeforeLimit'
  <2>1. CASE ReadQuery
    <3>1. to_db = <<"query">> /\ to_monitor = <<>>
      BY <1>1, <1>4, <2>1 DEF BeforeLimit, ReadQuery, DbEnded
    <3>2. to_db' = <<>> /\ to_monitor' = <<>> /\ db' = "AskLimit"
      BY <2>1, <3>1 DEF ReadQuery, Hears
    <3> QED
      BY <1>1, <1>4, <3>2 DEF BeforeLimit
  <2>2. CASE AskLimit
    <3>1. to_db = <<>> /\ to_monitor = <<>>
      BY <1>1, <1>4, <2>2 DEF BeforeLimit, AskLimit, DbEnded
    <3>2. to_db' = <<>> /\ to_monitor' = <<"get_memory_limit">> /\ db' = "ReadLimit"
      BY <2>2, <3>1 DEF AskLimit, Say
    <3> QED
      BY <1>1, <1>4, <3>2 DEF BeforeLimit
  <2>3. ~ReadLimit /\ ~Validate
    BY <1>1, <1>4 DEF BeforeLimit, ReadLimit, Validate, Hears, DbEnded
  <2> QED
    BY <2>1, <2>2, <2>3 DEF DbTalks
<1>5. ASSUME AskedForLimit PROVE FALSE
  BY <1>1, <1>5 DEF AskedForLimit, DbTalks, ReadQuery, AskLimit, ReadLimit, Validate, Hears, DbEnded
<1>6. ASSUME BeforeValidate PROVE BeforeValidate'
  <2>1. printed = 0 /\ to_monitor = <<>>
    BY <1>1, <1>6 DEF BeforeValidate
  <2>2. CASE ReadLimit
    <3>1. to_db = <<"limit">>
      BY <1>1, <1>6, <2>2 DEF BeforeValidate, ReadLimit, DbEnded
    <3>2. to_db' = <<>> /\ to_monitor' = <<>> /\ db' = "Validate"
      BY <2>1, <2>2, <3>1 DEF ReadLimit, Hears
    <3> QED
      BY <1>1, <2>1, <3>2 DEF BeforeValidate
  <2>3. CASE Validate
    <3>1. to_monitor' = <<"validate">> /\ db' = "Rows"
      BY <2>1, <2>3 DEF Validate, Say
    <3>2. Len(to_monitor') = printed' + 1 /\ to_monitor'[1] = "validate" /\ printed' = 0
      BY <1>1, <2>1, <3>1
    <3> QED
      BY <3>1, <3>2 DEF BeforeValidate
  <2>4. ~ReadQuery /\ ~AskLimit
    BY <1>1, <1>6 DEF BeforeValidate, ReadQuery, AskLimit, DbEnded
  <2> QED
    BY <2>2, <2>3, <2>4 DEF DbTalks
<1>7. ASSUME Validating PROVE FALSE
  BY <1>1, <1>7 DEF Validating
<1>8. IsRight' <=> IsRight
  BY <1>1 DEF IsRight, Query
<1> QED
  BY <1>1, <1>3, <1>4, <1>5, <1>6, <1>7, <1>8 DEF Dialogue

\* A line that is printed is the next of the result, or the end.
LEMMA PrintRowDialogue ==
    ASSUME DataTypeOK, Processes, Dialogue, PrintRow
    PROVE  Dialogue'
<1>1. /\ UNCHANGED <<suite, q, monitor, db_result, db, result, seen>> /\ db = "Rows" /\ ~DbEnded
      /\ printed \in 0 .. Len(result) /\ printed' = printed + 1 /\ printed \in Nat
      /\ Len(result) \in Nat /\ Len(to_monitor) \in Nat /\ Len(seen) \in Nat
  BY DEF PrintRow, others, DbEnded, DataTypeOK
<1>2. to_monitor' = Append(to_monitor, Line(printed + 1))
  BY <1>1, LineIsPrinted DEF PrintRow, Say, DataTypeOK
<1>3. /\ Len(to_monitor') = Len(to_monitor) + 1
      /\ \A i \in 1 .. Len(to_monitor) : to_monitor'[i] = to_monitor[i]
      /\ to_monitor'[Len(to_monitor) + 1] = Line(printed + 1)
  BY <1>2 DEF DataTypeOK
<1>4. Query' = Query /\ \A i \in Nat : Line(i)' = Line(i)
  BY <1>1 DEF Query, Line
<1>5. ~BeforeQuery /\ ~BeforeLimit /\ ~AskedForLimit
  BY <1>1 DEF BeforeQuery, BeforeLimit, AskedForLimit
<1>6. ASSUME BeforeValidate PROVE BeforeValidate'
  <2>1. /\ Len(to_monitor) = printed + 1 /\ to_monitor[1] = "validate"
        /\ \A i \in 1 .. printed : to_monitor[i + 1] = Line(i)
    BY <1>1, <1>6 DEF BeforeValidate
  <2>2. \A i \in 1 .. printed' : to_monitor'[i + 1] = Line(i)'
    <3> SUFFICES ASSUME NEW i \in 1 .. printed + 1 PROVE to_monitor'[i + 1] = Line(i)'
      BY <1>1
    <3>1. CASE i = printed + 1
      BY <1>1, <1>3, <1>4, <2>1, <3>1
    <3>2. CASE i # printed + 1
      BY <1>1, <1>3, <1>4, <2>1, <3>2
    <3> QED
      BY <3>1, <3>2
  <2> QED
    BY <1>1, <1>3, <2>1, <2>2 DEF BeforeValidate
<1>7. ASSUME Validating PROVE Validating'
  <2>1. \A i \in 1 .. Len(to_monitor') : to_monitor'[i] = Line(Len(seen) + i)'
    <3> SUFFICES ASSUME NEW i \in 1 .. Len(to_monitor) + 1
                 PROVE  to_monitor'[i] = Line(Len(seen) + i)'
      BY <1>3
    <3>1. Line(Len(seen) + i)' = Line(Len(seen) + i)
      BY <1>1, <1>4 DEF Line
    <3>2. CASE i = Len(to_monitor) + 1
      <4>1. Len(seen) + i = printed + 1
        <5>1. Len(seen) + Len(to_monitor) = printed
          BY <1>7 DEF Validating
        <5> QED
          BY <1>1, <3>2, <5>1
      <4>2. to_monitor'[i] = Line(printed + 1)
        BY <1>3, <3>2, Zenon
      <4> QED
        BY <3>1, <4>1, <4>2, Zenon
    <3>3. CASE i # Len(to_monitor) + 1
      <4>1. i \in 1 .. Len(to_monitor)
        BY <1>1, <3>3
      <4>2. to_monitor[i] = Line(Len(seen) + i)
        BY <1>7, <4>1 DEF Validating
      <4> QED
        BY <1>3, <3>1, <4>1, <4>2
    <3> QED
      BY <3>2, <3>3
  <2>2. \A i \in 1 .. Len(seen') : seen'[i] = Line(i)' /\ seen'[i] # End
    BY <1>1, <1>4, <1>7 DEF Validating
  <2>3. Len(seen') + Len(to_monitor') = printed'
    BY <1>1, <1>3, <1>7 DEF Validating
  <2> QED
    BY <1>1, <1>4, <1>7, <2>1, <2>2, <2>3 DEF Validating
<1>8. monitor # "WaitDisk" /\ ~IsRight
  BY <1>1 DEF Processes, IsRight
<1> QED
  BY <1>1, <1>5, <1>6, <1>7, <1>8 DEF Dialogue

\* Nothing has been said at the start,
LEMMA DialogueInit == Init => Dialogue
BY DEF Init, Dialogue

\* and every step keeps the dialogue of the monitor and the database in order.
LEMMA DialogueStep ==
    ASSUME DataTypeOK, Processes, SuiteSoFar, Dialogue, [Next]_vars
    PROVE  Dialogue'
<1>1. ASSUME Skip \/ StartDisk \/ SpawnFails \/ Finish \/ Report PROVE Dialogue'
  BY <1>1 DEF Skip, StartDisk, SpawnFails, Finish, Report, AfterVerdict, Dialogue
<1>2. ASSUME Fork PROVE Dialogue'
  BY <1>2 DEF Fork, Dialogue, BeforeQuery
<1>3. ASSUME Spawned PROVE Dialogue'
  <2>1. BeforeQuery /\ UNCHANGED <<db, data_vars>> /\ monitor' \in {"Aborted", "SendQuery"}
    BY <1>3 DEF Spawned, Dialogue
  <2>2. BeforeQuery'
    BY <2>1 DEF BeforeQuery, data_vars, DbEnded
  <2> QED
    BY <2>1, <2>2 DEF Dialogue
<1>4. ASSUME WaitDb PROVE Dialogue'
  BY <1>4 DEF WaitDb, GoOn, session, data_vars, Dialogue, IsRight, Query
<1>5. ASSUME Remap \/ ExecDb PROVE Dialogue'
  <2>1. UNCHANGED <<others, data_vars>> /\ db = "Remap" /\ db' \in {"Remap", "ReadQuery"}
    BY <1>5 DEF Remap, ExecDb
  <2>2. UNCHANGED <<suite, q, monitor, db_result, to_db, to_monitor, result, printed, seen>>
    BY <2>1 DEF others, data_vars
  <2>3. (IsRight' <=> IsRight) /\ Query' = Query /\ \A n \in Nat : Line(n)' = Line(n)
    BY <2>2 DEF IsRight, Query, Line
  <2>4. ~AskedForLimit /\ ~BeforeValidate /\ ~Validating
    BY <2>1 DEF AskedForLimit, BeforeValidate, Validating, DbEnded
  <2>5. (BeforeQuery => BeforeQuery') /\ (BeforeLimit => BeforeLimit')
    BY <2>1, <2>2 DEF BeforeQuery, BeforeLimit, DbEnded
  <2> QED
    BY <2>2, <2>3, <2>4, <2>5 DEF Dialogue
<1>6. ASSUME DbExit \/ DbFails \/ ExecFails PROVE Dialogue'
  <2>1. UNCHANGED <<others, data_vars>> /\ ~DbEnded /\ DbEnded'
    BY <1>6 DEF DbExit, DbFails, ExecFails, DbEnded
  <2>2. UNCHANGED <<suite, q, monitor, db_result, to_db, to_monitor, result, printed, seen>>
    BY <2>1 DEF others, data_vars
  <2>3. (IsRight' <=> IsRight) /\ Query' = Query /\ \A n : Line(n)' = Line(n)
    BY <2>2 DEF IsRight, Query, Line
  <2>4. (BeforeQuery => BeforeQuery') /\ (AskedForLimit => AskedForLimit')
    BY <2>1, <2>2 DEF BeforeQuery, AskedForLimit
  <2>5. BeforeLimit => BeforeLimit'
    BY <2>1, <2>2 DEF BeforeLimit
  <2>6. BeforeValidate => BeforeValidate'
    BY <2>1, <2>2, <2>3 DEF BeforeValidate
  <2>7. Validating => Validating'
    BY <2>1, <2>2, <2>3 DEF Validating
  <2> QED
    BY <2>2, <2>3, <2>4, <2>5, <2>6, <2>7 DEF Dialogue
<1>7. ASSUME DiskExits \/ Stopped \/ UNCHANGED vars PROVE Dialogue'
  <2>1. UNCHANGED <<suite, q, monitor, db, db_result, to_db, to_monitor, result, printed, seen>>
    BY <1>7 DEF DiskExits, Stopped, vars, data_vars
  <2>2. (IsRight' <=> IsRight) /\ Query' = Query /\ \A n : Line(n)' = Line(n)
    BY <2>1 DEF IsRight, Query, Line
  <2>3. /\ BeforeQuery => BeforeQuery'
        /\ AskedForLimit => AskedForLimit'
        /\ BeforeLimit => BeforeLimit'
    BY <2>1 DEF BeforeQuery, AskedForLimit, BeforeLimit, DbEnded
  <2>4. BeforeValidate => BeforeValidate'
    BY <2>1, <2>2 DEF BeforeValidate, DbEnded
  <2>5. Validating => Validating'
    BY <2>1, <2>2 DEF Validating, DbEnded
  <2> QED
    BY <2>1, <2>2, <2>3, <2>4, <2>5 DEF Dialogue
<1> QED
  BY <1>1, <1>2, <1>3, <1>4, <1>5, <1>6, <1>7, SendQueryDialogue, ReadCommandDialogue,
     SendLimitDialogue, ValidateBySortingDialogue, ValidatePresortedDialogue,
     DbTalksDialogue, PrintRowDialogue
     DEF Next, MonitorNext, DbNext
-----------------------------------------------------------------------------
\* A verdict is reported as it was found.
LEMMA VerdictsStep ==
    ASSUME DataTypeOK, SuiteSoFar, Dialogue, VerdictsAreRight, [Next]_vars
    PROVE  VerdictsAreRight'
<1>1. CASE Report
  <2> DEFINE run == [query |-> q, complete |-> printed = Len(result) + 1,
                     result |-> result, verdict |-> db_result]
             right(r) == /\ r.complete
                         /\ IF suite[r.query].sort_before_check
                            THEN SameRows(r.result, suite[r.query].expected)
                            ELSE r.result = suite[r.query].expected
  <2>1. runs' = Append(runs, run) /\ UNCHANGED suite
    BY <1>1 DEF Report
  <2>2. /\ DOMAIN runs' = 1 .. Len(runs) + 1 /\ Len(runs) \in Nat /\ DOMAIN runs = 1 .. Len(runs)
        /\ \A i \in 1 .. Len(runs) : runs'[i] = runs[i]
        /\ runs'[Len(runs) + 1] = run
    BY <2>1 DEF DataTypeOK
  <2>3. right(run) <=> IsRight
    BY DEF IsRight, Query
  <2>4. db_result = IF IsRight THEN "Ok" ELSE "Err"
    BY <1>1 DEF Report, Dialogue
  <2>5. run.verdict = IF right(run) THEN "Ok" ELSE "Err"
    BY <2>3, <2>4
  <2>6. \A i \in 1 .. Len(runs) : runs[i].verdict = IF right(runs[i]) THEN "Ok" ELSE "Err"
    BY <2>2 DEF VerdictsAreRight
  <2> HIDE DEF run
  <2>7. \A i \in DOMAIN runs' : runs'[i].verdict = IF right(runs'[i]) THEN "Ok" ELSE "Err"
    BY <2>2, <2>5, <2>6
  <2> QED
    BY <2>1, <2>7 DEF VerdictsAreRight
<1>2. CASE ~Report
  <2>1. UNCHANGED <<suite, runs>>
    BY <1>2 DEF Next, MonitorNext, Skip, StartDisk, Fork, SpawnFails, Spawned, Finish, SendQuery,
                ReadCommand, SendLimit, ValidateBySorting, ValidatePresorted, WaitDb, DbNext,
                Remap, ExecDb, DbTalks, PrintRow, DbExit, ExecFails, DbFails, DiskExits, Stopped,
                vars, session, others
  <2> QED
    BY <2>1 DEF VerdictsAreRight
<1> QED
  BY <1>1, <1>2
-----------------------------------------------------------------------------
(* The descriptors of the database.  The numbers that pipe() hands out are   *)
(* the lowest free ones, so that the ends the child gets leave room above    *)
(* them for remap_fds.                                                       *)
Room == MaxFd - 4
FreeUpTo(fds, n) == {d \in 0 .. n : fds[d] = Closed}

\* The free numbers up to n can be counted.
LEMMA FreeIsFinite ==
    ASSUME NEW fds, NEW n \in Nat
    PROVE  IsFiniteSet(FreeUpTo(fds, n)) /\ Cardinality(FreeUpTo(fds, n)) \in Nat
<1>1. IsFiniteSet(0 .. n)
  BY FS_Interval
<1>2. FreeUpTo(fds, n) \subseteq 0 .. n
  BY DEF FreeUpTo
<1> QED
  BY <1>1, <1>2, FS_Subset, FS_CardinalityType

\* A free number counts itself.
LEMMA FreeCountsItself ==
    ASSUME NEW fds, NEW n \in Nat, fds[n] = Closed
    PROVE  Cardinality(FreeUpTo(fds, n)) >= 1
<1>1. n \in FreeUpTo(fds, n)
  BY DEF FreeUpTo
<1> QED
  BY <1>1, FreeIsFinite, FS_EmptySet

\* More numbers are free up to a larger one, and strictly more if that is free.
LEMMA FreeGrows ==
    ASSUME NEW fds, NEW m \in Nat, NEW n \in Nat, m < n
    PROVE  /\ Cardinality(FreeUpTo(fds, m)) <= Cardinality(FreeUpTo(fds, n))
           /\ fds[n] = Closed => Cardinality(FreeUpTo(fds, m)) < Cardinality(FreeUpTo(fds, n))
<1> DEFINE M == FreeUpTo(fds, m)
           N == FreeUpTo(fds, n)
<1>1. M \subseteq N /\ n \notin M /\ (fds[n] = Closed => n \in N)
  BY DEF FreeUpTo
<1>2. IsFiniteSet(N) /\ Cardinality(N) \in Nat /\ Cardinality(M) \in Nat
  BY FreeIsFinite
<1> HIDE DEF M, N
<1>3. Cardinality(M) <= Cardinality(N) /\ (Cardinality(M) = Cardinality(N) => N = M)
  BY <1>1, <1>2, FS_Subset
<1>4. fds[n] = Closed => Cardinality(M) < Cardinality(N)
  BY <1>1, <1>2, <1>3
<1> QED
  BY <1>3, <1>4 DEF M, N

\* When at least m numbers are free up to n, the k-th of them is, for k <= m.
LEMMA LowestFree ==
    ASSUME NEW fds, NEW n \in Nat, NEW k \in Nat, 1 <= k, k <= Cardinality(FreeUpTo(fds, n))
    PROVE  \E fd \in 0 .. n : fds[fd] = Closed /\ Cardinality(FreeUpTo(fds, fd)) = k
<1> DEFINE Enough == {d \in Nat : k <= Cardinality(FreeUpTo(fds, d))}
           Less == OpToRel(<, Nat)
<1>1. PICK fd \in Enough : \A d \in Enough : ~(<<d, fd>> \in Less)
  <2>1. Enough \subseteq Nat /\ Enough # {}
    OBVIOUS
  <2> QED
    BY <2>1, NatLessThanWellFounded, WFMin
<1>2. fd \in Nat /\ fd <= n /\ \A d \in Enough : ~(d < fd)
  <2>1. \A d \in Enough : ~(d < fd)
    BY <1>1 DEF OpToRel
  <2>2. n \in Enough /\ fd \in Nat
    OBVIOUS
  <2> HIDE DEF Enough
  <2> QED
    BY <2>1, <2>2
<1> DEFINE N(d) == Cardinality(FreeUpTo(fds, d))
           below == FreeUpTo(fds, fd - 1)
<1>3. IsFiniteSet(below) /\ Cardinality(below) \in Nat /\ Cardinality(below) < k
  <2>1. CASE fd = 0
    <3>1. below = {}
      BY <2>1 DEF FreeUpTo
    <3> QED
      BY <3>1, FS_EmptySet
  <2>2. CASE fd > 0
    <3>1. fd - 1 \in Nat /\ ~(fd - 1 \in Enough)
      BY <1>2, <2>2
    <3> QED
      BY <3>1, FreeIsFinite
  <2> QED
    BY <1>2, <2>1, <2>2
<1>4. FreeUpTo(fds, fd) = IF fds[fd] = Closed THEN below \cup {fd} ELSE below
  BY <1>2 DEF FreeUpTo
<1>5. fd \notin below
  BY <1>2 DEF FreeUpTo
<1>6. k <= N(fd)
  BY <1>1
<1> HIDE DEF below
<1>7. Cardinality(below \cup {fd}) = Cardinality(below) + 1
  BY <1>3, <1>5, FS_AddElement
<1>8. fds[fd] = Closed /\ N(fd) = k
  BY <1>3, <1>4, <1>6, <1>7
<1> QED
  BY <1>2, <1>8

\* And no other number is the k-th.
LEMMA OnlyLowestFree ==
    ASSUME NEW fds, NEW m \in Nat, NEW n \in Nat, fds[m] = Closed, fds[n] = Closed,
           Cardinality(FreeUpTo(fds, m)) = Cardinality(FreeUpTo(fds, n))
    PROVE  m = n
<1>1. Cardinality(FreeUpTo(fds, m)) \in Nat /\ Cardinality(FreeUpTo(fds, n)) \in Nat
  BY FreeIsFinite
<1>2. ~(m < n) /\ ~(n < m)
  BY <1>1, FreeGrows
<1> QED
  BY <1>2

\* What pipe() opens, by the position of a number among the free ones.
LEMMA OpenPipesAt ==
    ASSUME NEW fds, NEW files, NEW fd \in Fds
    PROVE  OpenPipes(fds, files)[fd] =
               IF fds[fd] = Closed /\ Cardinality(FreeUpTo(fds, fd)) <= Len(files)
               THEN [file |-> files[Cardinality(FreeUpTo(fds, fd))], cloexec |-> TRUE]
               ELSE fds[fd]
BY DEF OpenPipes, FreeUpTo

\* There are at least seven numbers below the four that remap_fds needs.
LEMMA RoomInFds == Room \in Nat /\ Room >= 6 /\ 0 .. Room \subseteq Fds /\ 0 \in Fds
BY FdAssumption, SessionAssumption DEF Room, Fds

\* The k-th end that is opened has one descriptor, and there is room above it.
LEMMA EndIsOpened ==
    ASSUME NEW fds, NEW files, Len(files) \in Nat, NEW k \in 1 .. Len(files),
           k <= Cardinality(FreeUpTo(fds, Room))
    PROVE  \E fd \in 0 .. Room :
               /\ fds[fd] = Closed
               /\ OpenPipes(fds, files)[fd] = [file |-> files[k], cloexec |-> TRUE]
               /\ \A d \in Fds \ {fd} :
                      fds[d] = Closed => Cardinality(FreeUpTo(fds, d)) # k
<1>1. PICK fd \in 0 .. Room : fds[fd] = Closed /\ Cardinality(FreeUpTo(fds, fd)) = k
  BY LowestFree, RoomInFds
<1>2. fd \in Fds /\ Fds \subseteq Nat
  BY RoomInFds, FdAssumption DEF Fds
<1>3. OpenPipes(fds, files)[fd] = [file |-> files[k], cloexec |-> TRUE]
  <2>1. OpenPipes(fds, files)[fd] =
            IF fds[fd] = Closed /\ Cardinality(FreeUpTo(fds, fd)) <= Len(files)
            THEN [file |-> files[Cardinality(FreeUpTo(fds, fd))], cloexec |-> TRUE]
            ELSE fds[fd]
    BY <1>2, OpenPipesAt, Zenon
  <2>2. k <= Len(files)
    OBVIOUS
  <2> QED
    BY <1>1, <2>1, <2>2, Zenon
<1>4. \A d \in Fds \ {fd} : fds[d] = Closed => Cardinality(FreeUpTo(fds, d)) # k
  BY <1>1, <1>2, OnlyLowestFree
<1> QED
  BY <1>1, <1>3, <1>4
-----------------------------------------------------------------------------
Standard == [file |-> Rd("inherited"), cloexec |-> FALSE]
EndOf(file) == [file |-> file, cloexec |-> TRUE]

\* The monitor has what it was started with, and ends that exec closes; before
\* the fork of the database these are two, where they leave room.
TableOfMonitor(open) ==
    /\ \A fd \in open : monitor_fds[fd] = Standard
    /\ \A fd \in Fds \ open : monitor_fds[fd] = Closed \/ monitor_fds[fd].cloexec
    /\ monitor = "StartDb" =>
           \E a, b \in (0 .. Room) \ open :
               /\ a # b
               /\ monitor_fds[a] = EndOf(Rd("disk_outbound"))
               /\ monitor_fds[b] = EndOf(Wr("disk_inbound"))
               /\ \A fd \in Fds \ (open \cup {a, b}) : monitor_fds[fd] = Closed

MonitorTable ==
    monitor \notin {"Finished", "Aborted"} => \E open \in Inherited : TableOfMonitor(open)

\* The mappings of the child are those of setup_db_process, and what else it has
\* is closed by exec or was there when the monitor started.
ChildSetup ==
    /\ Count = 4
    /\ \A i \in 1 .. 4 : /\ Target(i) = DbFds[i]
                         /\ mappings[i].close_on_exec = FALSE
                         /\ original[Source(i)].file = DbFiles[i]
    /\ \A fd \in Fds : original[fd].cloexec \/ original[fd].file \in {Nothing, Rd("inherited")}

ChildTable == (db = "Remap" => IInv /\ ChildSetup) /\ DescriptorsInPlace

\* The entries of a table are told apart by their files and flags.
LEMMA EntriesDiffer ==
    /\ Standard # Closed /\ Closed.file = Nothing /\ Closed.cloexec = FALSE
    /\ Standard.file = Rd("inherited") /\ Standard.cloexec = FALSE
    /\ \A file : EndOf(file).file = file /\ EndOf(file).cloexec
    /\ \A pipe \in Pipes : Rd(pipe) # Nothing /\ Wr(pipe) # Nothing
BY DEF Standard, Closed, EndOf, Nothing, Rd, Wr, Pipes

\* Closing some of the ends of pipes keeps the rest of the table.
LEMMA DropKeepsTable ==
    ASSUME NEW open, NEW fds, NEW files, Rd("inherited") \notin files, open \subseteq Fds,
           \A fd \in open : fds[fd] = Standard,
           \A fd \in Fds \ open : fds[fd] = Closed \/ fds[fd].cloexec
    PROVE  /\ \A fd \in open : Drop(fds, files)[fd] = Standard
           /\ \A fd \in Fds \ open : Drop(fds, files)[fd] = Closed \/ Drop(fds, files)[fd].cloexec
BY EntriesDiffer DEF Drop

\* So does opening pipes.
LEMMA OpenKeepsTable ==
    ASSUME NEW open, NEW fds, NEW files, Len(files) \in Nat, open \subseteq Fds,
           \A fd \in open : fds[fd] = Standard,
           \A fd \in Fds \ open : fds[fd] = Closed \/ fds[fd].cloexec
    PROVE  LET new == OpenPipes(fds, files)
           IN  /\ \A fd \in open : new[fd] = Standard
               /\ \A fd \in Fds \ open : new[fd] = Closed \/ new[fd].cloexec
<1> DEFINE new == OpenPipes(fds, files)
<1>3. ASSUME NEW fd \in Fds
      PROVE  \/ new[fd] = fds[fd]
             \/ /\ fds[fd] = Closed
                /\ \E k \in 1 .. Len(files) : new[fd] = [file |-> files[k], cloexec |-> TRUE]
  BY OpenPipesOpens, ZenonT(60)
<1> HIDE DEF new
<1>1. ASSUME NEW fd \in open PROVE new[fd] = Standard
  BY <1>3, EntriesDiffer
<1>2. ASSUME NEW fd \in Fds \ open PROVE new[fd] = Closed \/ new[fd].cloexec
  <2>1. CASE new[fd] = fds[fd]
    <3>1. fds[fd] = Closed \/ fds[fd].cloexec
      OBVIOUS
    <3> QED
      BY <2>1, <3>1, Zenon
  <2>2. CASE new[fd] # fds[fd]
    <3>1. PICK k \in 1 .. Len(files) : new[fd] = [file |-> files[k], cloexec |-> TRUE]
      BY <1>3, <2>2
    <3> QED
      BY <3>1
  <2> QED
    BY <2>1, <2>2
<1> QED
  BY <1>1, <1>2 DEF new

\* The monitor starts with what it inherits.
LEMMA MonitorTableInit == Init => MonitorTable
<1> SUFFICES ASSUME Init PROVE MonitorTable
  OBVIOUS
<1>1. PICK open \in Inherited : monitor_fds = InheritedFds(open)
  BY DEF Init
<1>2. open \subseteq Fds
  BY SessionAssumption
<1>3. monitor = "Start"
  BY DEF Init
<1>4. TableOfMonitor(open)
  BY <1>1, <1>2, <1>3 DEF TableOfMonitor, InheritedFds, Standard
<1> QED
  BY <1>4 DEF MonitorTable

\* The two ends of the disk's pipes that the monitor keeps have numbers of their
\* own, with room above them.
LEMMA StartDiskTable ==
    ASSUME OwnFds, MonitorTable, StartDisk
    PROVE  MonitorTable'
<1> DEFINE files == <<Rd("disk_outbound"), Wr("disk_outbound"),
                      Rd("disk_inbound"), Wr("disk_inbound")>>
           fds == OpenPipes(monitor_fds, files)
           dropped == {Rd("disk_inbound"), Wr("disk_outbound")}
           new == Drop(fds, dropped)
           N(fd) == Cardinality(FreeUpTo(monitor_fds, fd))
<1>1. monitor = "Start" /\ monitor' = "StartDb" /\ monitor_fds' = new
  BY DEF StartDisk
<1>2. PICK open \in Inherited : TableOfMonitor(open)
  BY <1>1 DEF MonitorTable
<1>3. open \subseteq Fds /\ Cardinality((0 .. Room) \ open) >= 6
  BY SessionAssumption DEF Room
<1>4. /\ \A fd \in open : monitor_fds[fd] = Standard
      /\ \A fd \in Fds \ open : monitor_fds[fd] = Closed
  BY <1>1, <1>2 DEF TableOfMonitor, OwnFds, Kept
<1>5. FreeUpTo(monitor_fds, Room) = (0 .. Room) \ open
  BY <1>3, <1>4, RoomInFds, EntriesDiffer DEF FreeUpTo
<1>6. /\ Len(files) = 4
      /\ files[1] = Rd("disk_outbound") /\ files[2] = Wr("disk_outbound")
      /\ files[3] = Rd("disk_inbound") /\ files[4] = Wr("disk_inbound")
  OBVIOUS
<1>7. Cardinality(FreeUpTo(monitor_fds, Room)) \in Nat
  BY FreeIsFinite, RoomInFds
<1> HIDE DEF files
<1>8. \A k \in 1 .. 4 : \E fd \in 0 .. Room :
          /\ monitor_fds[fd] = Closed
          /\ fds[fd] = EndOf(files[k])
          /\ \A d \in Fds \ {fd} : monitor_fds[d] = Closed => N(d) # k
  <2> SUFFICES ASSUME NEW k \in 1 .. 4
               PROVE  \E fd \in 0 .. Room :
                          /\ monitor_fds[fd] = Closed
                          /\ fds[fd] = EndOf(files[k])
                          /\ \A d \in Fds \ {fd} : monitor_fds[d] = Closed => N(d) # k
    OBVIOUS
  <2>1. k \in 1 .. Len(files) /\ Len(files) \in Nat /\ k <= Cardinality(FreeUpTo(monitor_fds, Room))
    BY <1>3, <1>5, <1>6, <1>7
  <2> QED
    BY <2>1, EndIsOpened, Zenon DEF EndOf
<1>9. PICK a \in 0 .. Room : /\ monitor_fds[a] = Closed /\ fds[a] = EndOf(Rd("disk_outbound"))
                             /\ \A d \in Fds \ {a} : monitor_fds[d] = Closed => N(d) # 1
  BY <1>6, <1>8
<1>10. PICK b \in 0 .. Room : /\ monitor_fds[b] = Closed /\ fds[b] = EndOf(Wr("disk_inbound"))
                              /\ \A d \in Fds \ {b} : monitor_fds[d] = Closed => N(d) # 4
  BY <1>6, <1>8
<1>11. a \notin open /\ b \notin open /\ a # b /\ a \in Fds /\ b \in Fds
  BY <1>4, <1>9, <1>10, EntriesDiffer, RoomInFds DEF Rd, Wr, EndOf
<1>12. ASSUME NEW fd \in Fds \ (open \cup {a, b}) PROVE new[fd] = Closed
  <2>1. monitor_fds[fd] = Closed /\ fd \in Nat
    BY <1>4, FdAssumption DEF Fds
  <2>2. N(fd) \in Nat /\ N(fd) >= 1 /\ N(fd) # 1 /\ N(fd) # 4
    BY <1>9, <1>10, <2>1, FreeIsFinite, FreeCountsItself
  <2>3. fds[fd] = IF N(fd) <= 4 THEN [file |-> files[N(fd)], cloexec |-> TRUE] ELSE Closed
    <3>1. fds[fd] = IF monitor_fds[fd] = Closed /\ N(fd) <= Len(files)
                    THEN [file |-> files[N(fd)], cloexec |-> TRUE] ELSE monitor_fds[fd]
      BY OpenPipesAt, Zenon
    <3> QED
      BY <1>6, <2>1, <3>1, Zenon
  <2> HIDE DEF N, fds
  <2>4. CASE N(fd) <= 4
    <3>1. N(fd) = 2 \/ N(fd) = 3
      BY <2>2, <2>4
    <3>2. fds[fd].file \in dropped
      BY <1>6, <2>3, <2>4, <3>1
    <3> QED
      BY <3>2 DEF Drop
  <2>5. CASE ~(N(fd) <= 4)
    BY <2>3, <2>5 DEF Drop
  <2> QED
    BY <2>4, <2>5
<1>13. new[a] = EndOf(Rd("disk_outbound")) /\ new[b] = EndOf(Wr("disk_inbound"))
  <2> HIDE DEF fds
  <2> QED
    BY <1>9, <1>10, <1>11, EntriesDiffer DEF Drop, Rd, Wr
<1>14. \A fd \in open : new[fd] = Standard
  <2>1. ASSUME NEW fd \in open PROVE fds[fd] = Standard
    <3>1. fd \in Fds /\ monitor_fds[fd] = Standard /\ monitor_fds[fd] # Closed
      BY <1>3, <1>4, EntriesDiffer
    <3> QED
      BY <3>1, OpenPipesAt, Zenon
  <2> HIDE DEF fds
  <2> QED
    BY <1>3, <2>1, EntriesDiffer DEF Drop, Rd, Wr
<1>15. \A fd \in Fds \ open : new[fd] = Closed \/ new[fd].cloexec
  BY <1>12, <1>13, EntriesDiffer
<1> HIDE DEF new
<1>16. TableOfMonitor(open)'
  BY <1>1, <1>11, <1>12, <1>13, <1>14, <1>15, <1>9, <1>10 DEF TableOfMonitor
<1> QED
  BY <1>16 DEF MonitorTable

\* What the fork of a database makes of a table with the two ends of the disk:
\* the four ends for the database have numbers of their own, with room above.
LEMMA ForkPlaces ==
    ASSUME MonitorTable, Fork
    PROVE  LET fds == OpenPipes(monitor_fds, <<Rd("monitor_to_db"), Wr("monitor_to_db"),
                                               Rd("db_to_monitor"), Wr("db_to_monitor"),
                                               Rd("exec"), Wr("exec")>>)
           IN  \E a, b, c, d \in 0 .. Room :
                   /\ \A fd \in Fds : /\ fds[fd].file = Rd("disk_outbound") <=> fd = a
                                      /\ fds[fd].file = Wr("disk_inbound") <=> fd = b
                                      /\ fds[fd].file = Rd("monitor_to_db") <=> fd = c
                                      /\ fds[fd].file = Wr("db_to_monitor") <=> fd = d
                   /\ \A fd \in Fds : \/ fds[fd] = Closed \/ fds[fd] = Standard
                                      \/ fds[fd] \in OpenEntry /\ fds[fd].cloexec
<1> DEFINE files == <<Rd("monitor_to_db"), Wr("monitor_to_db"), Rd("db_to_monitor"),
                      Wr("db_to_monitor"), Rd("exec"), Wr("exec")>>
           fds == OpenPipes(monitor_fds, files)
           N(fd) == Cardinality(FreeUpTo(monitor_fds, fd))
<1>1. monitor = "StartDb"
  BY DEF Fork
<1>2. PICK open \in Inherited : TableOfMonitor(open)
  BY <1>1 DEF MonitorTable
<1>3. open \subseteq Fds /\ Cardinality((0 .. Room) \ open) >= 6
  BY SessionAssumption DEF Room
<1>4. PICK a \in (0 .. Room) \ open, b \in (0 .. Room) \ open :
          /\ a # b
          /\ monitor_fds[a] = EndOf(Rd("disk_outbound"))
          /\ monitor_fds[b] = EndOf(Wr("disk_inbound"))
          /\ \A fd \in Fds \ (open \cup {a, b}) : monitor_fds[fd] = Closed
  BY <1>1, <1>2 DEF TableOfMonitor
<1>5. \A fd \in open : monitor_fds[fd] = Standard
  BY <1>2 DEF TableOfMonitor
<1>6. EndOf(Rd("disk_outbound")) # Closed /\ EndOf(Wr("disk_inbound")) # Closed
  BY EntriesDiffer
<1>7. Cardinality(FreeUpTo(monitor_fds, Room)) >= 4
  <2> DEFINE all == (0 .. Room) \ open
  <2>1. FreeUpTo(monitor_fds, Room) = (all \ {a}) \ {b}
    BY <1>3, <1>4, <1>5, <1>6, RoomInFds, EntriesDiffer DEF FreeUpTo
  <2>2. IsFiniteSet(all) /\ Cardinality(all) \in Nat /\ Cardinality(all) >= 6
    <3>1. Room \in Int /\ 0 \in Int
      BY RoomInFds
    <3>2. IsFiniteSet(0 .. Room)
      BY <3>1, FS_Interval
    <3>3. all \subseteq 0 .. Room
      OBVIOUS
    <3> QED
      BY <1>3, <3>2, <3>3, FS_Subset, FS_CardinalityType
  <2>3. a \in all /\ b \in all \ {a}
    BY <1>4
  <2> DEFINE rest == all \ {a}
  <2> HIDE DEF all
  <2>4. IsFiniteSet(rest) /\ Cardinality(rest) = Cardinality(all) - 1
    BY <2>2, <2>3, FS_RemoveElement
  <2>5. b \in rest /\ FreeUpTo(monitor_fds, Room) = rest \ {b}
    BY <2>1, <2>3
  <2> HIDE DEF rest
  <2>6. Cardinality(rest \ {b}) = Cardinality(rest) - 1
    BY <2>4, <2>5, FS_RemoveElement
  <2> QED
    BY <2>2, <2>4, <2>5, <2>6
<1>8. /\ Len(files) = 6
      /\ files[1] = Rd("monitor_to_db") /\ files[2] = Wr("monitor_to_db")
      /\ files[3] = Rd("db_to_monitor") /\ files[4] = Wr("db_to_monitor")
      /\ files[5] = Rd("exec") /\ files[6] = Wr("exec")
  OBVIOUS
<1>9. Cardinality(FreeUpTo(monitor_fds, Room)) \in Nat
  BY FreeIsFinite, RoomInFds
<1> HIDE DEF files
<1>10. \A k \in 1 .. 4 : \E fd \in 0 .. Room :
           /\ monitor_fds[fd] = Closed
           /\ fds[fd] = EndOf(files[k])
           /\ \A d \in Fds \ {fd} : monitor_fds[d] = Closed => N(d) # k
  <2> SUFFICES ASSUME NEW k \in 1 .. 4
               PROVE  \E fd \in 0 .. Room :
                          /\ monitor_fds[fd] = Closed
                          /\ fds[fd] = EndOf(files[k])
                          /\ \A d \in Fds \ {fd} : monitor_fds[d] = Closed => N(d) # k
    OBVIOUS
  <2>1. k \in 1 .. Len(files) /\ Len(files) \in Nat /\ k <= Cardinality(FreeUpTo(monitor_fds, Room))
    BY <1>7, <1>8, <1>9
  <2> QED
    BY <2>1, EndIsOpened, Zenon DEF EndOf
<1>11. PICK c \in 0 .. Room : /\ monitor_fds[c] = Closed /\ fds[c] = EndOf(Rd("monitor_to_db"))
                              /\ \A fd \in Fds \ {c} : monitor_fds[fd] = Closed => N(fd) # 1
  BY <1>8, <1>10
<1>12. PICK d \in 0 .. Room : /\ monitor_fds[d] = Closed /\ fds[d] = EndOf(Wr("db_to_monitor"))
                              /\ \A fd \in Fds \ {d} : monitor_fds[fd] = Closed => N(fd) # 4
  BY <1>8, <1>10
<1>13. a \in Fds /\ b \in Fds /\ c \in Fds /\ d \in Fds
  BY RoomInFds
<1>14. fds[a] = EndOf(Rd("disk_outbound")) /\ fds[b] = EndOf(Wr("disk_inbound"))
  <2>1. monitor_fds[a] # Closed /\ monitor_fds[b] # Closed
    BY <1>4, <1>6
  <2>2. fds[a] = monitor_fds[a] /\ fds[b] = monitor_fds[b]
    BY <1>13, <2>1, OpenPipesAt, Zenon
  <2> QED
    BY <1>4, <2>2
<1>15. ASSUME NEW fd \in open PROVE fds[fd] = Standard
  <2>1. fd \in Fds /\ monitor_fds[fd] = Standard /\ monitor_fds[fd] # Closed
    BY <1>3, <1>5, EntriesDiffer
  <2> QED
    BY <2>1, OpenPipesAt, Zenon
<1>16. ASSUME NEW fd \in Fds \ (open \cup {a, b, c, d})
       PROVE  fds[fd] = Closed \/ \E k \in {2, 3, 5, 6} : fds[fd] = EndOf(files[k])
  <2>1. monitor_fds[fd] = Closed /\ fd \in Nat
    BY <1>4, FdAssumption DEF Fds
  <2>2. N(fd) \in Nat /\ N(fd) >= 1 /\ N(fd) # 1 /\ N(fd) # 4
    BY <1>11, <1>12, <2>1, FreeIsFinite, FreeCountsItself
  <2>3. fds[fd] = IF N(fd) <= 6 THEN EndOf(files[N(fd)]) ELSE Closed
    <3>1. fds[fd] = IF monitor_fds[fd] = Closed /\ N(fd) <= Len(files)
                    THEN [file |-> files[N(fd)], cloexec |-> TRUE] ELSE monitor_fds[fd]
      BY OpenPipesAt, Zenon
    <3> QED
      BY <1>8, <2>1, <3>1, Zenon DEF EndOf
  <2> HIDE DEF N, fds
  <2> QED
    BY <2>2, <2>3
<1> HIDE DEF fds
<1>17. ASSUME NEW fd \in Fds
       PROVE  /\ fds[fd].file = Rd("disk_outbound") <=> fd = a
              /\ fds[fd].file = Wr("disk_inbound") <=> fd = b
              /\ fds[fd].file = Rd("monitor_to_db") <=> fd = c
              /\ fds[fd].file = Wr("db_to_monitor") <=> fd = d
  <2>1. CASE fd \in open
    <3>1. fds[fd].file = Rd("inherited") /\ monitor_fds[fd] # Closed
      BY <1>5, <1>15, <2>1, EntriesDiffer
    <3>2. fd \notin {a, b, c, d}
      BY <1>4, <1>11, <1>12, <2>1, <3>1
    <3>3. Rd("inherited") \notin {Rd("disk_outbound"), Wr("disk_inbound"),
                                 Rd("monitor_to_db"), Wr("db_to_monitor")}
      BY DEF Rd, Wr
    <3> QED
      BY <3>1, <3>2, <3>3
  <2>2. CASE fd \in {a, b, c, d}
    <3>1. /\ fds[a].file = Rd("disk_outbound") /\ fds[b].file = Wr("disk_inbound")
          /\ fds[c].file = Rd("monitor_to_db") /\ fds[d].file = Wr("db_to_monitor")
      BY <1>11, <1>12, <1>14, EntriesDiffer
    <3>2. /\ Rd("disk_outbound") # Wr("disk_inbound")
          /\ Rd("disk_outbound") # Rd("monitor_to_db") /\ Rd("disk_outbound") # Wr("db_to_monitor")
          /\ Wr("disk_inbound") # Rd("monitor_to_db") /\ Wr("disk_inbound") # Wr("db_to_monitor")
          /\ Rd("monitor_to_db") # Wr("db_to_monitor")
      BY DEF Rd, Wr
    <3> QED
      BY <2>2, <3>1, <3>2
  <2>3. CASE fd \notin open \cup {a, b, c, d}
    <3>1. \/ fds[fd].file = Nothing
          \/ fds[fd].file \in {Wr("monitor_to_db"), Rd("db_to_monitor"), Rd("exec"), Wr("exec")}
      BY <1>8, <1>16, <2>3, EntriesDiffer
    <3> DEFINE wanted == {Rd("disk_outbound"), Wr("disk_inbound"),
                          Rd("monitor_to_db"), Wr("db_to_monitor")}
    <3>2. /\ Nothing \notin wanted
          /\ Wr("monitor_to_db") \notin wanted /\ Rd("db_to_monitor") \notin wanted
          /\ Rd("exec") \notin wanted /\ Wr("exec") \notin wanted
      BY DEF Rd, Wr, Nothing
    <3>3. fds[fd].file \notin wanted
      <4> HIDE DEF wanted
      <4> QED
        BY <3>1, <3>2
    <3> QED
      BY <2>3, <3>3
  <2> QED
    BY <2>1, <2>2, <2>3
<1>18. ASSUME NEW fd \in Fds
       PROVE  \/ fds[fd] = Closed \/ fds[fd] = Standard
              \/ fds[fd] \in OpenEntry /\ fds[fd].cloexec
  <2>1. \A pipe \in Pipes : EndOf(Rd(pipe)) \in OpenEntry /\ EndOf(Wr(pipe)) \in OpenEntry
    BY SessionAssumption DEF EndOf, OpenEntry
  <2>2. {"disk_outbound", "disk_inbound", "monitor_to_db", "db_to_monitor", "exec"} \subseteq Pipes
    BY DEF Pipes
  <2>3. \A k \in 1 .. 6 : EndOf(files[k]) \in OpenEntry
    BY <1>8, <2>1, <2>2
  <2>4. \/ fds[fd] = Closed \/ fds[fd] = Standard \/ \E k \in 1 .. 6 : fds[fd] = EndOf(files[k])
        \/ fds[fd] = EndOf(Rd("disk_outbound")) \/ fds[fd] = EndOf(Wr("disk_inbound"))
    BY <1>8, <1>11, <1>12, <1>14, <1>15, <1>16
  <2> QED
    BY <2>1, <2>2, <2>3, <2>4, EntriesDiffer
<1>19. \E a1, b1, c1, d1 \in 0 .. Room :
           /\ \A fd \in Fds : /\ fds[fd].file = Rd("disk_outbound") <=> fd = a1
                              /\ fds[fd].file = Wr("disk_inbound") <=> fd = b1
                              /\ fds[fd].file = Rd("monitor_to_db") <=> fd = c1
                              /\ fds[fd].file = Wr("db_to_monitor") <=> fd = d1
           /\ \A fd \in Fds : \/ fds[fd] = Closed \/ fds[fd] = Standard
                              \/ fds[fd] \in OpenEntry /\ fds[fd].cloexec
  <2>1. a \in 0 .. Room /\ b \in 0 .. Room /\ c \in 0 .. Room /\ d \in 0 .. Room
    BY <1>4, <1>11, <1>12
  <2> WITNESS a \in 0 .. Room, b \in 0 .. Room, c \in 0 .. Room, d \in 0 .. Room
  <2> QED
    BY <1>17, <1>18, Zenon
<1> QED
  BY <1>19, Zenon DEF fds, files

\* The invariant of remap_fds holds in a state in which it begins.
LEMMA RemapBegins == RemapInit' => IInv'
BY RemapInitIInv, PTL

\* The same for what remap_fds promises.
LEMMA RemapEnds == IInv' => RemapInPlace'
BY IInvImpliesInPlace, PTL

\* The child begins with the mappings of setup_db_process and room to move them.
LEMMA ForkChild ==
    ASSUME MonitorTable, Fork
    PROVE  IInv' /\ ChildSetup'
<1> DEFINE fds == OpenPipes(monitor_fds, <<Rd("monitor_to_db"), Wr("monitor_to_db"),
                                           Rd("db_to_monitor"), Wr("db_to_monitor"),
                                           Rd("exec"), Wr("exec")>>)
<1>1. PICK a, b, c, d \in 0 .. Room :
          /\ \A fd \in Fds : /\ fds[fd].file = Rd("disk_outbound") <=> fd = a
                             /\ fds[fd].file = Wr("disk_inbound") <=> fd = b
                             /\ fds[fd].file = Rd("monitor_to_db") <=> fd = c
                             /\ fds[fd].file = Wr("db_to_monitor") <=> fd = d
          /\ \A fd \in Fds : \/ fds[fd] = Closed \/ fds[fd] = Standard
                             \/ fds[fd] \in OpenEntry /\ fds[fd].cloexec
  BY ForkPlaces, Zenon
<1>2. /\ table' = Drop(fds, {Rd("exec")})
      /\ mappings' = [i \in 1 .. 4 |-> [source |-> FdOf(fds, DbFiles[i]),
                                        target |-> DbFds[i], close_on_exec |-> FALSE]]
      /\ original' = table' /\ remapped' = 0
  BY DEF Fork
<1> HIDE DEF fds
<1>3. a \in Fds /\ b \in Fds /\ c \in Fds /\ d \in Fds
  BY RoomInFds
<1>4. /\ DbFiles[1] = Rd("disk_outbound") /\ DbFiles[2] = Wr("disk_inbound")
      /\ DbFiles[3] = Rd("monitor_to_db") /\ DbFiles[4] = Wr("db_to_monitor")
      /\ DbFds[1] = 3 /\ DbFds[2] = 4 /\ DbFds[3] = 5 /\ DbFds[4] = 6
  BY DEF DbFiles, DbFds
<1>5. /\ FdOf(fds, DbFiles[1]) = a /\ FdOf(fds, DbFiles[2]) = b
      /\ FdOf(fds, DbFiles[3]) = c /\ FdOf(fds, DbFiles[4]) = d
  BY <1>1, <1>3, <1>4 DEF FdOf
<1> DEFINE place(i) == FdOf(fds, DbFiles[i])
<1>6. \A i \in 1 .. 4 : /\ place(i) \in Fds /\ place(i) \in 0 .. Room
                        /\ fds[place(i)].file = DbFiles[i]
  <2>1. /\ fds[a].file = DbFiles[1] /\ fds[b].file = DbFiles[2]
        /\ fds[c].file = DbFiles[3] /\ fds[d].file = DbFiles[4]
    BY <1>1, <1>3, <1>4
  <2> QED
    BY <1>3, <1>5, <2>1
<1>7. \A i, j \in 1 .. 4 : i # j => place(i) # place(j) /\ DbFds[i] # DbFds[j]
  <2>1. \A i, j \in 1 .. 4 : i # j => DbFiles[i] # DbFiles[j] /\ DbFds[i] # DbFds[j]
    <3>1. /\ Rd("disk_outbound") # Wr("disk_inbound")
          /\ Rd("disk_outbound") # Rd("monitor_to_db") /\ Rd("disk_outbound") # Wr("db_to_monitor")
          /\ Wr("disk_inbound") # Rd("monitor_to_db") /\ Wr("disk_inbound") # Wr("db_to_monitor")
          /\ Rd("monitor_to_db") # Wr("db_to_monitor")
      BY DEF Rd, Wr
    <3> QED
      BY <1>4, <3>1
  <2> QED
    BY <1>6, <2>1
<1>8. \A i \in 1 .. 4 : DbFiles[i] # Nothing /\ DbFiles[i] # Rd("exec") /\ DbFds[i] \in 3 .. 6
  <2>1. /\ Rd("disk_outbound") \notin {Nothing, Rd("exec")}
        /\ Wr("disk_inbound") \notin {Nothing, Rd("exec")}
        /\ Rd("monitor_to_db") \notin {Nothing, Rd("exec")}
        /\ Wr("db_to_monitor") \notin {Nothing, Rd("exec")}
    BY DEF Rd, Wr, Nothing
  <2> QED
    BY <1>4, <2>1
<1>9. \A fd \in Fds : table'[fd] = Closed \/ table'[fd] = fds[fd]
  BY <1>2 DEF Drop
<1>10. \A i \in 1 .. 4 : table'[place(i)].file = DbFiles[i] /\ table'[place(i)] # Closed
  BY <1>2, <1>6, <1>8, EntriesDiffer DEF Drop
<1>11. table' \in Tables
  <2>1. Standard \in OpenEntry
    <3>1. "inherited" \in Pipes
      BY DEF Pipes
    <3> QED
      BY <3>1, SessionAssumption DEF Standard, OpenEntry
  <2>2. \A fd \in Fds : table'[fd] \in OpenEntry \cup {Closed}
    BY <1>1, <1>9, <2>1
  <2>3. table' = [fd \in Fds |-> table'[fd]]
    BY <1>2 DEF Drop
  <2> QED
    BY <2>2, <2>3 DEF Tables
<1>12. \A i \in 1 .. 4 : /\ mappings'[i].source = place(i)
                         /\ mappings'[i].target = DbFds[i]
                         /\ mappings'[i].close_on_exec = FALSE
                         /\ mappings'[i] \in FdMapping
  <2>1. \A i \in 1 .. 4 : place(i) \in Fds /\ DbFds[i] \in Fds
    <3>1. 3 .. 6 \subseteq Fds
      BY FdAssumption, SessionAssumption DEF Fds
    <3> HIDE DEF place
    <3> QED
      BY <1>6, <1>8, <3>1
  <2> HIDE DEF place
  <2>2. mappings' = [i \in 1 .. 4 |-> [source |-> place(i), target |-> DbFds[i],
                                       close_on_exec |-> FALSE]]
    BY <1>2 DEF place
  <2> QED
    BY <2>1, <2>2 DEF FdMapping
<1>13. mappings' \in Seq(FdMapping) /\ Count' = 4 /\ DOMAIN mappings' = 1 .. 4
  <2>1. DOMAIN mappings' = 1 .. 4 /\ mappings' = [i \in 1 .. 4 |-> mappings'[i]]
    BY <1>2
  <2>2. mappings' \in [1 .. 4 -> FdMapping]
    BY <1>12, <2>1
  <2>3. mappings' \in Seq(FdMapping)
    BY <2>2, SeqDef
  <2>4. Len(mappings') = 4
    BY <2>1, <2>3, LenProperties
  <2> QED
    BY <2>1, <2>3, <2>4 DEF Count
<1> HIDE DEF place
<1>14. remap_base' \in Nat /\ remap_base' <= Room + 1
  <2> DEFINE named == {0} \cup Named'
  <2>1. named \in SUBSET Nat /\ \A n \in named : n <= Room
    <3>1. Room \in Nat /\ Room >= 6
      BY RoomInFds
    <3>2. \A n \in Named' : n \in Nat /\ n <= Room
      BY <1>6, <1>8, <1>12, <1>13, <3>1 DEF Named
    <3> QED
      BY <3>1, <3>2
  <2>2. 0 \in named /\ Room \in Nat
    BY RoomInFds
  <2>3. remap_base' = Max(named) + 1
    BY DEF remap_base
  <2> HIDE DEF named
  <2>4. Max(named) \in named
    BY <2>1, <2>2, MaxExists
  <2>5. Max(named) \in Nat /\ Max(named) <= Room
    BY <2>1, <2>4
  <2> HIDE DEF Room
  <2> QED
    BY <2>2, <2>3, <2>5
<1>15. Remappable'
  <2>1. \A i \in DOMAIN mappings' : original'[mappings'[i].source] # Closed
    BY <1>2, <1>10, <1>12, <1>13
  <2>2. \A i, j \in DOMAIN mappings' :
            i # j => /\ mappings'[i].source # mappings'[j].source
                     /\ mappings'[i].target # mappings'[j].target
    BY <1>7, <1>12, <1>13 DEF place
  <2>3. remap_base' + Count' <= MaxFd + 1
    <3>1. Count' = 4 /\ MaxFd \in Nat
      BY <1>13, FdAssumption
    <3>2. remap_base' \in Nat /\ remap_base' <= MaxFd - 3
      BY <1>14, <3>1 DEF Room
    <3>3. \A n \in Nat : n <= MaxFd - 3 => n + 4 <= MaxFd + 1
      BY <3>1
    <3> QED
      BY <3>1, <3>2, <3>3, Zenon
  <2> QED
    BY <2>1, <2>2, <2>3 DEF Remappable
<1>16. IInv'
  BY <1>2, <1>11, <1>13, <1>15, RemapBegins DEF RemapInit
<1>17. ChildSetup'
  <2>1. \A i \in 1 .. 4 : /\ Target(i)' = DbFds[i]
                          /\ mappings'[i].close_on_exec = FALSE
                          /\ original'[Source(i)'].file = DbFiles[i]
    BY <1>2, <1>10, <1>12 DEF Target, Source
  <2>2. \A fd \in Fds : original'[fd].cloexec \/ original'[fd].file \in {Nothing, Rd("inherited")}
    BY <1>1, <1>2, <1>9, EntriesDiffer
  <2> QED
    BY <1>13, <2>1, <2>2 DEF ChildSetup
<1> QED
  BY <1>16, <1>17

\* The table of the monitor, by its actions.
LEMMA MonitorTableStep ==
    ASSUME OwnFds, MonitorTable, [Next]_vars
    PROVE  MonitorTable'
<1>1. ASSUME Fork PROVE MonitorTable'
  <2> DEFINE files == <<Rd("monitor_to_db"), Wr("monitor_to_db"), Rd("db_to_monitor"),
                        Wr("db_to_monitor"), Rd("exec"), Wr("exec")>>
             fds == OpenPipes(monitor_fds, files)
  <2>1. monitor = "StartDb" /\ monitor' = "AwaitExec" /\ monitor_fds' = Drop(fds, {Wr("exec")})
    BY <1>1 DEF Fork
  <2>2. PICK open \in Inherited : TableOfMonitor(open)
    BY <2>1 DEF MonitorTable
  <2>3. /\ open \subseteq Fds
        /\ \A fd \in open : monitor_fds[fd] = Standard
        /\ \A fd \in Fds \ open : monitor_fds[fd] = Closed \/ monitor_fds[fd].cloexec
    BY <2>2, SessionAssumption DEF TableOfMonitor
  <2>4. Len(files) \in Nat
    OBVIOUS
  <2> HIDE DEF files
  <2>5. /\ \A fd \in open : fds[fd] = Standard
        /\ \A fd \in Fds \ open : fds[fd] = Closed \/ fds[fd].cloexec
    BY <2>3, <2>4, OpenKeepsTable, Zenon
  <2> HIDE DEF fds
  <2>6. Rd("inherited") \notin {Wr("exec")}
    BY DEF Rd, Wr
  <2>7. /\ \A fd \in open : monitor_fds'[fd] = Standard
        /\ \A fd \in Fds \ open : monitor_fds'[fd] = Closed \/ monitor_fds'[fd].cloexec
    BY <2>1, <2>3, <2>5, <2>6, DropKeepsTable
  <2> QED
    BY <2>1, <2>7 DEF MonitorTable, TableOfMonitor
<1>2. ASSUME monitor \notin {"Finished", "Aborted"}, monitor' # "StartDb",
             NEW files, Rd("inherited") \notin files, monitor_fds' = Drop(monitor_fds, files)
      PROVE  MonitorTable'
  <2>1. PICK open \in Inherited : TableOfMonitor(open)
    BY <1>2 DEF MonitorTable
  <2>2. /\ open \subseteq Fds
        /\ \A fd \in open : monitor_fds[fd] = Standard
        /\ \A fd \in Fds \ open : monitor_fds[fd] = Closed \/ monitor_fds[fd].cloexec
    BY <2>1, SessionAssumption DEF TableOfMonitor
  <2>3. /\ \A fd \in open : monitor_fds'[fd] = Standard
        /\ \A fd \in Fds \ open : monitor_fds'[fd] = Closed \/ monitor_fds'[fd].cloexec
    BY <1>2, <2>2, DropKeepsTable
  <2> QED
    BY <1>2, <2>3 DEF MonitorTable, TableOfMonitor
<1>3. Rd("inherited") \notin OfTheChild /\ Rd("inherited") \notin ToDb
  BY DbFileSet DEF OfTheChild, ToDb, Rd, Wr
<1>4. ASSUME Spawned PROVE MonitorTable'
  <2>1. CASE monitor' = "Aborted"
    BY <2>1 DEF MonitorTable
  <2>2. CASE monitor' # "Aborted"
    <3>1. /\ monitor = "AwaitExec" /\ monitor' = "SendQuery"
          /\ monitor_fds' = Drop(monitor_fds, OfTheChild)
      BY <1>4, <2>2 DEF Spawned
    <3> QED
      BY <1>2, <1>3, <3>1
  <2> QED
    BY <2>1, <2>2
<1>5. ASSUME Report PROVE MonitorTable'
  <2>1. /\ monitor = "WaitDisk" /\ monitor' \in {"Start", "Aborted"}
        /\ monitor_fds' = Drop(monitor_fds, ToDb)
    BY <1>5 DEF Report, AfterVerdict, ToDb
  <2> QED
    BY <1>2, <1>3, <2>1
<1>6. ASSUME SpawnFails \/ Finish PROVE MonitorTable'
  BY <1>6 DEF SpawnFails, Finish, MonitorTable
<1>7. ASSUME SendQuery \/ ReadCommand \/ SendLimit \/ ValidateBySorting \/ ValidatePresorted
                \/ WaitDb
      PROVE  MonitorTable'
  <2>1. monitor \notin {"StartDb", "Finished", "Aborted"} /\ UNCHANGED monitor_fds
    BY <1>7 DEF SendQuery, ReadCommand, SendLimit, ValidateBySorting, ValidatePresorted, WaitDb,
                session
  <2>2. monitor' \in {"SendLimit", "ReadCommand", "BySorting", "Presorted", "WaitDb", "WaitDisk"}
    BY <1>7 DEF SendQuery, ReadCommand, SendLimit, ValidateBySorting, ValidatePresorted, WaitDb,
                Write, Judge, GoOn, VerdictAtEnd
  <2> QED
    BY <2>1, <2>2 DEF MonitorTable, TableOfMonitor
<1>8. ASSUME Skip \/ DbNext \/ ExecFails \/ DbFails \/ DiskExits \/ Stopped \/ UNCHANGED vars
      PROVE  MonitorTable'
  <2>1. UNCHANGED <<monitor_fds, monitor>>
    BY <1>8 DEF Skip, DbNext, Remap, ExecDb, DbTalks, PrintRow, DbExit, ExecFails, DbFails,
                DiskExits, Stopped, vars, fd_vars, others
  <2> QED
    BY <2>1 DEF MonitorTable, TableOfMonitor
<1> QED
  BY <1>1, <1>4, <1>5, <1>6, <1>7, <1>8, StartDiskTable DEF Next, MonitorNext

\* The table of the child, by its actions and those of the monitor.
Executing == db \in {"ReadQuery", "AskLimit", "ReadLimit", "Validate", "Rows"}

\* exec keeps the four ends in their places and closes the other pipes.
LEMMA ExecPlaces ==
    ASSUME ChildTable, ExecDb
    PROVE  ChildTable'
<1>1. /\ db = "Remap" /\ remapped = 2 * Count /\ db' = "ReadQuery" /\ table' = Exec(table)
  BY DEF ExecDb
<1>2. IInv /\ ChildSetup /\ RemapInPlace
  BY <1>1, IInvImpliesInPlace DEF ChildTable
<1>3. /\ mappings \in Seq(FdMapping) /\ original \in Tables /\ DOMAIN mappings = 1 .. 4
  BY <1>2, MappingFields DEF IInv, TypeOK, ChildSetup
<1>4. \A i \in 1 .. 4 : /\ mappings[i].target = DbFds[i] /\ DbFds[i] \in Fds
                        /\ original[mappings[i].source] \in OpenEntry
                        /\ original[mappings[i].source].file = DbFiles[i]
                        /\ mappings[i].close_on_exec = FALSE
  <2>1. \A i \in 1 .. 4 : mappings[i].source \in Fds /\ mappings[i].target \in Fds
    BY <1>2, <1>3, MappingFields DEF Source, Target, ChildSetup
  <2>2. \A i \in 1 .. 4 : original[mappings[i].source] # Closed
    BY <1>2, <1>3 DEF IInv, Remappable
  <2> QED
    BY <1>2, <1>3, <2>1, <2>2 DEF ChildSetup, Source, Target, Tables
<1>5. ASSUME NEW i \in 1 .. 4 PROVE table'[DbFds[i]].file = DbFiles[i]
  <2>1. table[DbFds[i]] = Flagged(original[mappings[i].source], FALSE)
    BY <1>1, <1>2, <1>3, <1>4 DEF RemapInPlace
  <2>2. /\ Flagged(original[mappings[i].source], FALSE).file = DbFiles[i]
        /\ ~Flagged(original[mappings[i].source], FALSE).cloexec
    BY <1>4 DEF Flagged, OpenEntry
  <2> QED
    BY <1>1, <1>4, <2>1, <2>2 DEF Exec
<1>6. ASSUME NEW fd \in Fds \ ToSet(DbFds)
      PROVE  table'[fd].file \in {Nothing, Rd("inherited")}
  <2>1. fd \notin {mappings[i].target : i \in DOMAIN mappings}
    <3>1. /\ ToSet(DbFds) = {3, 4, 5, 6}
          /\ DbFds[1] = 3 /\ DbFds[2] = 4 /\ DbFds[3] = 5 /\ DbFds[4] = 6
      BY DEF ToSet, DbFds
    <3> QED
      BY <1>3, <1>4, <3>1
  <2>2. table[fd] = Closed \/ table[fd] = original[fd]
    BY <1>1, <1>2, <2>1 DEF RemapInPlace
  <2>3. original[fd].cloexec \/ original[fd].file \in {Nothing, Rd("inherited")}
    BY <1>2 DEF ChildSetup
  <2> QED
    BY <1>1, <2>2, <2>3, EntriesDiffer DEF Exec
<1> QED
  BY <1>1, <1>5, <1>6 DEF ChildTable, DescriptorsInPlace

\* There is no child at the start,
LEMMA ChildTableInit == Init => ChildTable
BY DEF Init, ChildTable, DescriptorsInPlace

\* and every step keeps the table of one that there is.
LEMMA ChildTableStep ==
    ASSUME MonitorTable, ChildTable, [Next]_vars
    PROVE  ChildTable'
<1>1. ASSUME Fork PROVE ChildTable'
  <2>1. db' = "Remap" /\ IInv' /\ ChildSetup'
    BY <1>1, ForkChild DEF Fork
  <2> QED
    BY <2>1, RemapEnds DEF ChildTable, DescriptorsInPlace
<1>2. ASSUME Remap PROVE ChildTable'
  <2>1. db = "Remap" /\ db' = "Remap" /\ RemapStep
    BY <1>2 DEF Remap
  <2>2. IInv' /\ RemapInPlace'
    BY <2>1, RemapKeepsIInv, RemapEnds DEF ChildTable
  <2>3. ChildSetup'
    BY <2>1 DEF ChildTable, ChildSetup, RemapStep, Count, Source, Target
  <2> QED
    BY <2>1, <2>2, <2>3 DEF ChildTable, DescriptorsInPlace
<1>3. ASSUME db' # "Remap", ~Executing' PROVE ChildTable'
  BY <1>3 DEF ChildTable, DescriptorsInPlace, Executing
<1>4. ASSUME UNCHANGED <<table, call_vars>>, db' = db \/ (Executing /\ Executing')
      PROVE  ChildTable'
  <2>1. CASE db = "Remap"
    <3>1. db' = "Remap" /\ IInv /\ ChildSetup /\ UNCHANGED remap_vars
      BY <1>4, <2>1 DEF ChildTable, Executing, call_vars, remap_vars
    <3>2. IInv' /\ RemapInPlace'
      BY <3>1, RemapKeepsIInv, RemapEnds
    <3>3. ChildSetup'
      BY <3>1 DEF ChildSetup, remap_vars, Count, Source, Target
    <3> QED
      BY <3>1, <3>2, <3>3 DEF ChildTable, DescriptorsInPlace
  <2>2. CASE db # "Remap"
    BY <1>4, <2>2 DEF ChildTable, DescriptorsInPlace, Executing, call_vars
  <2> QED
    BY <2>1, <2>2
<1>5. ASSUME SendQuery \/ ReadCommand \/ SendLimit \/ ValidateBySorting \/ ValidatePresorted
                \/ WaitDb
      PROVE  ChildTable'
  <2>1. UNCHANGED call_vars
    BY <1>5 DEF SendQuery, ReadCommand, SendLimit, ValidateBySorting, ValidatePresorted, WaitDb,
                session
  <2>2. UNCHANGED <<db, table>> \/ (db' # "Remap" /\ ~Executing')
    BY <1>5 DEF SendQuery, ReadCommand, SendLimit, ValidateBySorting, ValidatePresorted, WaitDb,
                Write, Judge, GoOn, DbEnded, Executing
  <2> QED
    BY <1>3, <1>4, <2>1, <2>2
<1>6. ASSUME DbTalks \/ PrintRow PROVE ChildTable'
  <2>1. UNCHANGED <<table, call_vars>> /\ Executing /\ Executing'
    BY <1>6 DEF DbTalks, PrintRow, ReadQuery, AskLimit, ReadLimit, Validate, Executing
  <2> QED
    BY <1>4, <2>1
<1>7. ASSUME DbExit \/ ExecFails \/ DbFails PROVE ChildTable'
  <2>1. db' # "Remap" /\ ~Executing'
    BY <1>7 DEF DbExit, ExecFails, DbFails, Executing
  <2> QED
    BY <1>3, <2>1
<1>8. ASSUME Skip \/ StartDisk \/ SpawnFails \/ Spawned \/ Finish \/ Report \/ DiskExits
                \/ Stopped \/ UNCHANGED vars
      PROVE  ChildTable'
  <2>1. UNCHANGED <<table, call_vars, db>>
    BY <1>8 DEF Skip, StartDisk, SpawnFails, Spawned, Finish, Report, DiskExits, Stopped, vars,
                fd_vars
  <2> QED
    BY <1>4, <2>1
<1> QED
  BY <1>1, <1>2, <1>5, <1>6, <1>7, <1>8, ExecPlaces DEF Next, MonitorNext, DbNext
-----------------------------------------------------------------------------
\* The inductive invariant.
SessionIInv == /\ DataTypeOK /\ OwnFds /\ Processes /\ SuiteSoFar /\ Dialogue
               /\ VerdictsAreRight /\ MonitorTable /\ ChildTable

\* The invariant holds at the start,
LEMMA SessionInitIInv == Init => SessionIInv
<1>1. Init => VerdictsAreRight
  BY DEF Init, VerdictsAreRight
<1> QED
  BY <1>1, DataTypeInit, OwnFdsInit, ProcessesInit, SuiteSoFarInit, DialogueInit,
     MonitorTableInit, ChildTableInit DEF SessionIInv

\* every step keeps it,
LEMMA SessionKeepsIInv == SessionIInv /\ [Next]_vars => SessionIInv'
<1> SUFFICES ASSUME SessionIInv, [Next]_vars PROVE SessionIInv'
  OBVIOUS
<1>1. /\ DataTypeOK /\ OwnFds /\ Processes /\ SuiteSoFar /\ Dialogue
      /\ VerdictsAreRight /\ MonitorTable /\ ChildTable
  BY DEF SessionIInv
<1>2. DataTypeOK' /\ OwnFds' /\ Processes' /\ SuiteSoFar' /\ Dialogue'
  BY <1>1, DataTypeStep, OwnFdsStep, ProcessesStep, SuiteSoFarStep, DialogueStep
<1>3. VerdictsAreRight' /\ MonitorTable' /\ ChildTable'
  BY <1>1, VerdictsStep, MonitorTableStep, ChildTableStep
<1> QED
  BY <1>2, <1>3 DEF SessionIInv

\* and so it always holds.
LEMMA SessionInvariance == Spec => []SessionIInv
BY SessionInitIInv, SessionKeepsIInv, PTL DEF Spec

\* The verdicts the monitor reports are right both ways, for any suite, any rows
\* and pipes of any capacity, wherever a database dies.
THEOREM VerdictsRight == Spec => []VerdictsAreRight
<1>1. SessionIInv => VerdictsAreRight
  BY DEF SessionIInv
<1> QED
  BY <1>1, SessionInvariance, PTL

\* The monitor runs the enabled queries in their order up to the first failure,
\* and leaves none out when it finishes.
THEOREM SuiteFollowed == Spec => []RunsFollowSuite
<1>1. SessionIInv => RunsFollowSuite
  BY SuiteIsFollowed DEF SessionIInv
<1> QED
  BY <1>1, SessionInvariance, PTL

\* No process of a session and no descriptor of its pipes outlives it.
THEOREM SessionsEnd == Spec => []NoProcessLeft
<1>1. SessionIInv => NoProcessLeft
  BY NothingIsLeft DEF SessionIInv
<1> QED
  BY <1>1, SessionInvariance, PTL

\* A database that runs has its four ends at 3 to 6 and no other pipe of the
\* monitor, whatever descriptors the monitor was started with as long as the
\* ends of the pipes of a session find room.
THEOREM DescriptorsRight == Spec => []DescriptorsInPlace
<1>1. SessionIInv => DescriptorsInPlace
  BY DEF SessionIInv, ChildTable
<1> QED
  BY <1>1, SessionInvariance, PTL
=============================================================================
