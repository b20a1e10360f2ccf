------------------------- MODULE OperatorTreeProofs --------------------------
(* For every set of operator trees: the blocks a Cross spills are adjacent,  *)
(* and once the root has answered for the first time nothing is allocated.   *)
(* For every query with joins: the order of its joins has every table once,  *)
(* and what the joins enforce are the predicates of the query.               *)
EXTENDS OperatorTree, JoinOrders, RowBlocksProofs, FiniteSetTheorems

Modes == {"New", "Out", "InMemory", "PartitionRight", "PartitionLeft", "Partitioned"}

\* The types of the variables.
TypeOK ==
    /\ built \in 0 .. plan.size
    /\ stack \in Seq(Nodes)
    /\ returned \in {"Call", "Some", "None"}
    /\ mode \in [Nodes -> Modes]
    /\ has_left \in [Nodes -> BOOLEAN]
    /\ right_start \in [Nodes -> Nat] /\ total \in [Nodes -> Nat]
    /\ allocs \in Seq(0 .. plan.size)
    /\ settled \in SUBSET Nodes

\* The child an operator in the middle of a call calls: the one it drains or
\* streams in its current mode.
CalledChild(n) ==
    IF \/ plan.kind[n] = "Cross" /\ mode[n] = "New"
       \/ plan.kind[n] = "HashJoin" /\ mode[n] \in {"New", "PartitionRight"}
    THEN plan.right[n] ELSE plan.left[n]

\* Calls go from a node to nodes constructed before it.
Descending == \A i, j \in DOMAIN stack : i < j => stack[j] < stack[i]

CallsMatchModes ==
    \A i \in 1 .. Len(stack) - 1 : stack[i + 1] = CalledChild(stack[i])

\* A value to deal with came from the child the operator calls.
AnswerSettled ==
    stack # <<>> /\ returned \in {"Some", "None"} => CalledChild(Top) \in settled

\* What an operator has become by the time it returns from next().
SettledMode(n) ==
    /\ plan.kind[n] = "Filter" => plan.left[n] \in settled
    /\ plan.kind[n] = "Sort" => mode[n] = "Out"
    /\ plan.kind[n] = "Cross" => mode[n] = "Out" /\ plan.left[n] \in settled
    /\ plan.kind[n] = "HashJoin" =>
          \/ mode[n] = "Partitioned"
          \/ mode[n] = "InMemory" /\ plan.left[n] \in settled

SettledModes == \A n \in settled : SettledMode(n)

LeftSettled == \A n \in Nodes : has_left[n] => plan.left[n] \in settled

\* Between its first batch and its last a Cross is draining its right child,
\* which has answered before, and its last batch is the last one allocated.
SpillInProgress ==
    \A n \in Nodes :
        plan.kind[n] = "Cross" /\ mode[n] = "New" /\ total[n] > 0 =>
            /\ \E i \in DOMAIN stack : stack[i] = n
            /\ plan.right[n] \in settled
            /\ right_start[n] + total[n] = Len(allocs)

JoinReady(n) == mode[n] \in {"InMemory", "Partitioned"}

\* A join is constructed exactly when it has left its constructor's loops.
BuiltJoins ==
    \A n \in Nodes : plan.kind[n] = "HashJoin" => (JoinReady(n) <=> n <= built)

\* The outermost call is next() of the root of the constructed tree, or the
\* constructor of the next join.
BottomCall ==
    stack # <<>> =>
        \/ built = plan.size /\ stack[1] = Root
        \/ /\ built < plan.size /\ stack[1] = built + 1
           /\ plan.kind[built + 1] = "HashJoin"

RootBuilt == Root \in settled => built = plan.size

\* What has returned a row is constructed, and what has allocated is at least
\* being constructed.
WithinBuilt ==
    /\ \A n \in settled : n <= built
    /\ \A k \in DOMAIN allocs : allocs[k] <= built + 1

IInv == /\ plan \in Plans
        /\ TypeOK
        /\ Descending /\ CallsMatchModes /\ AnswerSettled
        /\ SettledModes /\ LeftSettled /\ SettledCallsSettled
        /\ SpillInProgress /\ SpillContiguous
        /\ BuiltJoins /\ BottomCall /\ RootBuilt /\ WithinBuilt
-----------------------------------------------------------------------------
\* What PlansAssumption says of the plan in force.
LEMMA PlanFacts ==
    ASSUME plan \in Plans
    PROVE  /\ plan.size \in Nat \ {0} /\ Root \in Nodes /\ Nodes \subseteq Nat \ {0}
           /\ plan.kind \in [Nodes -> Kinds]
           /\ \A n \in Nodes :
                 /\ plan.kind[n] # "Scan" => plan.left[n] \in Nodes /\ plan.left[n] < n
                 /\ plan.kind[n] \in {"Cross", "HashJoin"} =>
                        plan.right[n] \in Nodes /\ plan.right[n] < n
  BY PlansAssumption DEF Nodes, Root

\* Pushing on and popping from the call stack.
LEMMA PushFacts ==
    ASSUME NEW S, NEW s \in Seq(S), NEW e \in S, NEW t, t = Append(s, e)
    PROVE  /\ t \in Seq(S) /\ Len(t) = Len(s) + 1 /\ t # <<>>
           /\ t[Len(s) + 1] = e /\ \A i \in 1 .. Len(s) : t[i] = s[i]
  OBVIOUS

\* Popping keeps the calls below the innermost one.
LEMMA PopFacts ==
    ASSUME NEW S, NEW s \in Seq(S), s # <<>>, NEW t, t = SubSeq(s, 1, Len(s) - 1)
    PROVE  /\ t \in Seq(S) /\ Len(t) = Len(s) - 1 /\ Len(s) \in Nat \ {0}
           /\ \A i \in 1 .. Len(s) - 1 : t[i] = s[i]
<1>1. Len(s) \in Nat \ {0}
  OBVIOUS
<1>2. SubSeq(s, 1, Len(s) - 1) \in Seq(S)
  OBVIOUS
<1>3. \A i \in 1 .. Len(s) - 1 : SubSeq(s, 1, Len(s) - 1)[i] = s[i]
  OBVIOUS
<1>4. Len(SubSeq(s, 1, Len(s) - 1)) = Len(s) - 1
  <2> DEFINE k == Len(s) - 1
  <2>1. k \in Int /\ k >= 0 /\ \A i \in 1 .. k : s[i] \in S
    BY <1>1
  <2> HIDE DEF k
  <2>2. Len(SubSeq(s, 1, k)) = IF 1 <= k THEN k - 1 + 1 ELSE 0
    BY <2>1, SubSeqProperties
  <2>3. Len(SubSeq(s, 1, k)) = k
    BY <2>1, <2>2
  <2> QED
    BY <2>3 DEF k
<1> QED
  BY <1>1, <1>2, <1>3, <1>4

\* The innermost operator is a node.
LEMMA TopFacts ==
    ASSUME TypeOK, stack # <<>>
    PROVE  Len(stack) \in Nat \ {0} /\ Top \in Nodes /\ Len(stack) \in DOMAIN stack
  BY DEF TypeOK, Top

\* The initial state satisfies the invariant.
LEMMA InitIInv == Init => IInv
<1> SUFFICES ASSUME Init PROVE IInv
  OBVIOUS
<1>1. plan \in Plans /\ plan.size \in Nat \ {0} /\ Nodes \subseteq Nat \ {0}
  BY PlanFacts DEF Init
<1>2. TypeOK
  BY <1>1 DEF Init, TypeOK, Modes, Nodes
<1>3. Descending /\ CallsMatchModes /\ AnswerSettled /\ SettledCallsSettled /\ BottomCall
  BY DEF Init, Descending, CallsMatchModes, AnswerSettled, SettledCallsSettled, BottomCall
<1>4. SettledModes /\ LeftSettled /\ RootBuilt /\ WithinBuilt
  BY DEF Init, SettledModes, LeftSettled, RootBuilt, WithinBuilt
<1>5. SpillInProgress /\ SpillContiguous
  BY DEF Init, SpillInProgress, SpillContiguous
<1>6. BuiltJoins
  BY <1>1 DEF Init, BuiltJoins, JoinReady
<1> QED
  BY <1>1, <1>2, <1>3, <1>4, <1>5, <1>6 DEF IInv
-----------------------------------------------------------------------------
\* The plan never changes.
LEMMA PlanFrozen == Next => plan' = plan
  BY DEF Next, Construct, ProbeSchema, CallRoot, ScanReturn, FilterPull, FilterReturn,
         SortPull, SortInitialised, SortReturn, CrossSpill, CrossSpilled, CrossPullLeft,
         CrossReturn, CrossEnd, JoinBuild, JoinInMemory, JoinOverBudget, JoinFlush,
         JoinPartition, JoinRightPartitioned, JoinPartitioned, JoinPullLeft, JoinReturn,
         JoinEnd, GraceReturn, Stopped, vars
-----------------------------------------------------------------------------
\* What a step may do to the stack of calls.
Stays == /\ stack' = stack /\ settled' = settled
         /\ \A n \in Nodes : JoinReady(n)' <=> JoinReady(n)
         /\ returned' \in {"Call", returned}
         /\ stack # <<>> /\ returned' # "Call" =>
               \A n \in Nodes : CalledChild(n)' = CalledChild(n)

Starts(n) == /\ stack = <<>> /\ stack' = <<n>>
             /\ returned' = "Call"
             /\ UNCHANGED <<built, mode, settled>>

Calls(n, child) ==
    /\ stack # <<>> /\ n = Top /\ child \in Nodes /\ child < n
    /\ stack' = Append(stack, child)
    /\ child = CalledChild(n)'
    /\ returned' = "Call"
    /\ n \in settled => child \in settled
    /\ \A m \in Nodes : JoinReady(m)' <=> JoinReady(m)
    /\ settled' = settled /\ built' = built

Answers(n) ==
    /\ stack # <<>> /\ n = Top /\ SettledMode(n)
    /\ stack' = SubSeq(stack, 1, Len(stack) - 1)
    /\ returned' \in {"Some", "None"}
    /\ settled' = settled \cup {n}
    /\ UNCHANGED <<built, mode>>

Leaves(n) ==
    /\ stack # <<>> /\ n = Top
    /\ plan.kind[n] = "HashJoin" /\ ~JoinReady(n) /\ JoinReady(n)'
    /\ \A m \in Nodes \ {n} : mode'[m] = mode[m]
    /\ stack' = SubSeq(stack, 1, Len(stack) - 1)
    /\ built' = n /\ returned' = "Call"
    /\ settled' = settled

\* Construction of a node other than a join.
Builds == /\ stack = <<>> /\ stack' = <<>>
          /\ built < plan.size /\ plan.kind[built + 1] # "HashJoin"
          /\ built' = built + 1 /\ returned' = "Call"
          /\ UNCHANGED <<mode, settled>>

Shapes == \/ Stays /\ built' = built
          \/ Builds
          \/ built = plan.size /\ Starts(Root)
          \/ built < plan.size /\ plan.kind[built + 1] = "HashJoin" /\ Starts(built + 1)
          \/ \E n, child \in Nodes : Calls(n, child)
          \/ \E n \in Nodes : Answers(n)
          \/ \E n \in Nodes : Leaves(n)

\* A node whose next() has returned has become what SettledMode says, so it is
\* in none of the modes in which it drains a child.
LEMMA DrainingUnsettled ==
    ASSUME SettledModes, NEW n, plan.kind[n] \in Kinds,
           \/ plan.kind[n] \in {"Sort", "Cross", "HashJoin"} /\ mode[n] = "New"
           \/ plan.kind[n] = "HashJoin" /\ mode[n] \in {"PartitionRight", "PartitionLeft"}
    PROVE  n \notin settled
  BY DEF SettledModes, SettledMode

\* Every step has one of the shapes.
LEMMA StepShapes == IInv /\ Next => Shapes
<1> SUFFICES ASSUME IInv, Next PROVE Shapes
  OBVIOUS
<1>0. PICK t : t = Top
  OBVIOUS
<1>1. TypeOK /\ SettledModes /\ LeftSettled /\ AnswerSettled /\ BuiltJoins /\ plan' = plan
      /\ Nodes' = Nodes
  BY PlanFrozen DEF IInv, Nodes
<1>2. /\ plan.size \in Nat \ {0} /\ Root \in Nodes /\ plan.kind \in [Nodes -> Kinds]
      /\ \A n \in Nodes : /\ plan.kind[n] # "Scan" => plan.left[n] \in Nodes /\ plan.left[n] < n
                          /\ plan.kind[n] \in {"Cross", "HashJoin"} =>
                                 plan.right[n] \in Nodes /\ plan.right[n] < n
  BY PlanFacts DEF IInv
<1>3. /\ mode \in [Nodes -> Modes] /\ returned \in {"Call", "Some", "None"}
      /\ has_left \in [Nodes -> BOOLEAN] /\ settled \subseteq Nodes
      /\ built \in 0 .. plan.size
  BY <1>1 DEF TypeOK
<1>4. stack # <<>> => t \in Nodes
  BY <1>0, <1>1, TopFacts
<1>5. ASSUME stack # <<>>, SettledMode(t), UNCHANGED <<built, mode>>,
             NEW value \in {"Some", "None"}, ReturnNext(value)
      PROVE  Shapes
  BY <1>0, <1>4, <1>5 DEF ReturnNext, Shapes, Answers
<1>6. ASSUME NEW child \in Nodes, stack # <<>>, child < t, CallNext(child), built' = built,
             child = CalledChild(t)', t \in settled => child \in settled,
             \A m \in Nodes : JoinReady(m)' <=> JoinReady(m)
      PROVE  Shapes
  <2>1. Calls(t, child)
    BY <1>0, <1>6 DEF CallNext, Calls
  <2> QED
    BY <1>4, <1>6, <2>1 DEF Shapes
<1>7. ASSUME mode' = mode PROVE \A m \in Nodes : JoinReady(m)' <=> JoinReady(m)
  BY <1>7 DEF JoinReady
<1>8. ASSUME mode' = mode, NEW n \in Nodes PROVE CalledChild(n)' = CalledChild(n)
  BY <1>1, <1>8 DEF CalledChild
<1>9. CASE Construct
  BY <1>2, <1>3, <1>9 DEF Construct, Shapes, Builds, Starts
<1>10. CASE ProbeSchema
  BY <1>7, <1>10 DEF ProbeSchema, Shapes, Stays
<1>11. CASE CallRoot
  BY <1>11 DEF CallRoot, CallNext, Shapes, Starts
<1>12. CASE ScanReturn
  BY <1>0, <1>5, <1>12 DEF ScanReturn, Running, SettledMode
<1>13. CASE FilterPull
  <2>1. /\ stack # <<>> /\ plan.kind[t] = "Filter" /\ t \in Nodes /\ mode[t] \in Modes
        /\ plan.kind[t] \in Kinds
    BY <1>0, <1>2, <1>3, <1>4, <1>13 DEF FilterPull, Running
  <2>2. plan.left[t] = CalledChild(t)'
    BY <1>0, <1>1, <1>3, <1>13, <2>1 DEF FilterPull, CalledChild, Become
  <2>3. t \in settled => plan.left[t] \in settled
    BY <1>1, <2>1 DEF SettledModes, SettledMode
  <2> QED
    BY <1>0, <1>2, <1>6, <1>7, <1>13, <2>1, <2>2, <2>3 DEF FilterPull
<1>14. CASE FilterReturn
  <2>1. stack # <<>> /\ t \in Nodes /\ mode[t] \in Modes
    BY <1>0, <1>3, <1>4, <1>14 DEF FilterReturn, Running
  <2>2. SettledMode(t)
    BY <1>0, <1>1, <1>14, <2>1 DEF FilterReturn, Running, SettledMode, AnswerSettled, CalledChild
  <2> QED
    BY <1>5, <1>14, <2>1, <2>2 DEF FilterReturn
<1>15. CASE SortPull
  <2>1. /\ stack # <<>> /\ plan.kind[t] = "Sort" /\ t \in Nodes /\ mode[t] \in Modes
        /\ plan.kind[t] \in Kinds /\ mode[t] = "New"
    BY <1>0, <1>2, <1>3, <1>4, <1>15 DEF SortPull, Running
  <2>2. plan.left[t] = CalledChild(t)'
    BY <1>0, <1>1, <1>3, <1>15, <2>1 DEF SortPull, CalledChild, Become
  <2>3. t \notin settled
    BY <1>1, <2>1, DrainingUnsettled
  <2> QED
    BY <1>0, <1>2, <1>6, <1>7, <1>15, <2>1, <2>2, <2>3 DEF SortPull
<1>16. CASE SortInitialised
  <2>1. stack # <<>> /\ plan.kind[t] \in Kinds /\ t \in Nodes
    BY <1>0, <1>2, <1>4, <1>16 DEF SortInitialised, Running
  <2>2. \A m \in Nodes : JoinReady(m)' <=> JoinReady(m)
    BY <1>0, <1>3, <1>16, <2>1 DEF SortInitialised, Running, Become, JoinReady
  <2> QED
    BY <1>16, <2>2 DEF SortInitialised, Shapes, Stays
<1>17. CASE SortReturn
  <2>1. stack # <<>> /\ t \in Nodes /\ mode[t] \in Modes
    BY <1>0, <1>3, <1>4, <1>17 DEF SortReturn, Running
  <2>2. SettledMode(t)
    BY <1>0, <1>1, <1>17, <2>1 DEF SortReturn, Running, SettledMode
  <2> QED
    BY <1>5, <1>17, <2>1, <2>2 DEF SortReturn
<1>18. CASE CrossSpill
  <2>1. /\ stack # <<>> /\ plan.kind[t] = "Cross" /\ t \in Nodes /\ mode[t] \in Modes
        /\ plan.kind[t] \in Kinds /\ mode[t] = "New"
    BY <1>0, <1>2, <1>3, <1>4, <1>18 DEF CrossSpill, Running
  <2>2. plan.right[t] = CalledChild(t)'
    BY <1>0, <1>1, <1>3, <1>18, <2>1 DEF CrossSpill, CalledChild, Become
  <2>3. t \notin settled
    BY <1>1, <2>1, DrainingUnsettled
  <2> QED
    BY <1>0, <1>2, <1>6, <1>7, <1>18, <2>1, <2>2, <2>3 DEF CrossSpill
<1>19. CASE CrossSpilled
  <2>1. stack # <<>> /\ plan.kind[t] \in Kinds /\ t \in Nodes
    BY <1>0, <1>2, <1>4, <1>19 DEF CrossSpilled, Running
  <2>2. \A m \in Nodes : JoinReady(m)' <=> JoinReady(m)
    BY <1>0, <1>3, <1>19, <2>1 DEF CrossSpilled, Running, Become, JoinReady
  <2> QED
    BY <1>19, <2>2 DEF CrossSpilled, Shapes, Stays
<1>20. CASE CrossPullLeft
  <2>1. /\ stack # <<>> /\ plan.kind[t] = "Cross" /\ t \in Nodes /\ mode[t] \in Modes
        /\ plan.kind[t] \in Kinds /\ mode[t] = "Out"
    BY <1>0, <1>2, <1>3, <1>4, <1>20 DEF CrossPullLeft, Running
  <2>2. plan.left[t] = CalledChild(t)'
    BY <1>0, <1>1, <1>3, <1>20, <2>1 DEF CrossPullLeft, CalledChild, Become
  <2>3. t \in settled => plan.left[t] \in settled
    BY <1>1, <2>1 DEF SettledModes, SettledMode
  <2> QED
    BY <1>0, <1>2, <1>6, <1>7, <1>20, <2>1, <2>2, <2>3 DEF CrossPullLeft
<1>21. CASE CrossReturn
  <2>1. stack # <<>> /\ t \in Nodes /\ mode[t] \in Modes
    BY <1>0, <1>3, <1>4, <1>21 DEF CrossReturn, Running
  <2>2. SettledMode(t)
    BY <1>0, <1>1, <1>21, <2>1
       DEF CrossReturn, Running, SettledMode, AnswerSettled, CalledChild, LeftSettled
  <2> QED
    BY <1>5, <1>21, <2>1, <2>2 DEF CrossReturn
<1>22. CASE CrossEnd
  <2>1. stack # <<>> /\ t \in Nodes /\ mode[t] \in Modes
    BY <1>0, <1>3, <1>4, <1>22 DEF CrossEnd, Running
  <2>2. SettledMode(t)
    BY <1>0, <1>1, <1>22, <2>1 DEF CrossEnd, Running, SettledMode, AnswerSettled, CalledChild
  <2> QED
    BY <1>5, <1>22, <2>1, <2>2 DEF CrossEnd
<1>23. CASE JoinBuild
  <2>1. /\ stack # <<>> /\ plan.kind[t] = "HashJoin" /\ t \in Nodes /\ mode[t] \in Modes
        /\ plan.kind[t] \in Kinds /\ mode[t] = "New"
    BY <1>0, <1>2, <1>3, <1>4, <1>23 DEF JoinBuild, Running
  <2>2. plan.right[t] = CalledChild(t)'
    BY <1>0, <1>1, <1>3, <1>23, <2>1 DEF JoinBuild, CalledChild, Become
  <2>3. t \notin settled
    BY <1>1, <2>1, DrainingUnsettled
  <2> QED
    BY <1>0, <1>2, <1>6, <1>7, <1>23, <2>1, <2>2, <2>3 DEF JoinBuild
<1>24. CASE JoinInMemory
  <2>1. /\ stack # <<>> /\ plan.kind[t] = "HashJoin" /\ t \in Nodes
        /\ ~JoinReady(t)
    BY <1>0, <1>4, <1>24 DEF JoinInMemory, Running, JoinReady
  <2>2. JoinReady(t)' /\ \A m \in Nodes \ {t} : mode'[m] = mode[m]
    BY <1>0, <1>3, <1>24, <2>1 DEF JoinInMemory, Become, JoinReady
  <2> QED
    BY <1>0, <1>24, <2>1, <2>2 DEF JoinInMemory, Constructed, Shapes, Leaves
<1>25. CASE JoinOverBudget
  <2>1. stack # <<>> /\ plan.kind[t] \in Kinds /\ t \in Nodes
    BY <1>0, <1>2, <1>4, <1>25 DEF JoinOverBudget, Running
  <2>2. \A m \in Nodes : JoinReady(m)' <=> JoinReady(m)
    BY <1>0, <1>3, <1>25, <2>1 DEF JoinOverBudget, Running, Become, JoinReady
  <2>3. \A m \in Nodes : CalledChild(m)' = CalledChild(m)
    BY <1>0, <1>1, <1>3, <1>25, <2>1 DEF JoinOverBudget, Running, Become, CalledChild
  <2> QED
    BY <1>25, <2>2, <2>3 DEF JoinOverBudget, Shapes, Stays
<1>26. CASE JoinFlush
  <2>1. stack # <<>> /\ plan.kind[t] \in Kinds /\ t \in Nodes
    BY <1>0, <1>2, <1>4, <1>26 DEF JoinFlush, Running
  <2>2. \A m \in Nodes : JoinReady(m)' <=> JoinReady(m)
    BY <1>0, <1>3, <1>26, <2>1 DEF JoinFlush, Running, Become, JoinReady
  <2>3. \A m \in Nodes : CalledChild(m)' = CalledChild(m)
    BY <1>0, <1>1, <1>3, <1>26, <2>1 DEF JoinFlush, Running, Become, CalledChild
  <2> QED
    BY <1>26, <2>2, <2>3 DEF JoinFlush, Shapes, Stays
<1>27. CASE JoinPartition
  <2>1. /\ stack # <<>> /\ plan.kind[t] = "HashJoin" /\ t \in Nodes
        /\ plan.kind[t] \in Kinds /\ mode[t] \in {"PartitionRight", "PartitionLeft"}
    BY <1>0, <1>2, <1>4, <1>27 DEF JoinPartition, Running
  <2>2. t \notin settled
    BY <1>1, <2>1, DrainingUnsettled
  <2>3. CASE mode[t] = "PartitionRight" /\ CallNext(plan.right[t])
    <3>1. plan.right[t] = CalledChild(t)'
      BY <1>1, <1>27, <2>1, <2>3 DEF JoinPartition, CalledChild
    <3> QED
      BY <1>2, <1>6, <1>7, <1>27, <2>1, <2>2, <2>3, <3>1 DEF JoinPartition
  <2>4. CASE mode[t] = "PartitionLeft" /\ CallNext(plan.left[t])
    <3>1. plan.left[t] = CalledChild(t)'
      BY <1>1, <1>27, <2>1, <2>4 DEF JoinPartition, CalledChild
    <3> QED
      BY <1>2, <1>6, <1>7, <1>27, <2>1, <2>2, <2>4, <3>1 DEF JoinPartition
  <2> QED
    BY <1>0, <1>27, <2>3, <2>4 DEF JoinPartition
<1>28. CASE JoinRightPartitioned
  <2>1. /\ stack # <<>> /\ plan.kind[t] = "HashJoin" /\ t \in Nodes /\ mode[t] \in Modes
        /\ plan.kind[t] \in Kinds /\ mode[t] = "PartitionRight"
    BY <1>0, <1>2, <1>3, <1>4, <1>28 DEF JoinRightPartitioned, Running
  <2>2. plan.left[t] = CalledChild(t)'
    BY <1>0, <1>1, <1>3, <1>28, <2>1 DEF JoinRightPartitioned, CalledChild, Become
  <2>3. t \notin settled
    BY <1>1, <2>1, DrainingUnsettled
  <2>4. \A m \in Nodes : JoinReady(m)' <=> JoinReady(m)
    BY <1>0, <1>3, <1>28, <2>1 DEF JoinRightPartitioned, Become, JoinReady
  <2> QED
    BY <1>0, <1>2, <1>6, <1>28, <2>1, <2>2, <2>3, <2>4 DEF JoinRightPartitioned
<1>29. CASE JoinPartitioned
  <2>1. /\ stack # <<>> /\ plan.kind[t] = "HashJoin" /\ t \in Nodes
        /\ ~JoinReady(t)
    BY <1>0, <1>4, <1>29 DEF JoinPartitioned, Running, JoinReady
  <2>2. JoinReady(t)' /\ \A m \in Nodes \ {t} : mode'[m] = mode[m]
    BY <1>0, <1>3, <1>29, <2>1 DEF JoinPartitioned, Become, JoinReady
  <2> QED
    BY <1>0, <1>29, <2>1, <2>2 DEF JoinPartitioned, Constructed, Shapes, Leaves
<1>30. CASE JoinPullLeft
  <2>1. /\ stack # <<>> /\ plan.kind[t] = "HashJoin" /\ t \in Nodes /\ mode[t] \in Modes
        /\ plan.kind[t] \in Kinds /\ mode[t] = "InMemory"
    BY <1>0, <1>2, <1>3, <1>4, <1>30 DEF JoinPullLeft, Running
  <2>2. plan.left[t] = CalledChild(t)'
    BY <1>0, <1>1, <1>3, <1>30, <2>1 DEF JoinPullLeft, CalledChild, Become
  <2>3. t \in settled => plan.left[t] \in settled
    BY <1>1, <2>1 DEF SettledModes, SettledMode
  <2> QED
    BY <1>0, <1>2, <1>6, <1>7, <1>30, <2>1, <2>2, <2>3 DEF JoinPullLeft
<1>31. CASE JoinReturn
  <2>1. stack # <<>> /\ t \in Nodes /\ mode[t] \in Modes
    BY <1>0, <1>3, <1>4, <1>31 DEF JoinReturn, Running
  <2>2. SettledMode(t)
    BY <1>0, <1>1, <1>31, <2>1
       DEF JoinReturn, Running, SettledMode, AnswerSettled, CalledChild, LeftSettled
  <2> QED
    BY <1>5, <1>31, <2>1, <2>2 DEF JoinReturn
<1>32. CASE JoinEnd
  <2>1. stack # <<>> /\ t \in Nodes /\ mode[t] \in Modes
    BY <1>0, <1>3, <1>4, <1>32 DEF JoinEnd, Running
  <2>2. SettledMode(t)
    BY <1>0, <1>1, <1>32, <2>1 DEF JoinEnd, Running, SettledMode, AnswerSettled, CalledChild
  <2> QED
    BY <1>5, <1>32, <2>1, <2>2 DEF JoinEnd
<1>33. CASE GraceReturn
  <2>1. stack # <<>> /\ t \in Nodes /\ mode[t] \in Modes
    BY <1>0, <1>3, <1>4, <1>33 DEF GraceReturn, Running
  <2>2. SettledMode(t)
    BY <1>0, <1>1, <1>33, <2>1 DEF GraceReturn, Running, SettledMode
  <2> QED
    BY <1>5, <1>33, <2>1, <2>2 DEF GraceReturn
<1>34. CASE Stopped
  BY <1>7, <1>8, <1>34 DEF Stopped, vars, Shapes, Stays
<1> QED
  BY <1>9, <1>10, <1>11, <1>12, <1>13, <1>14, <1>15, <1>16, <1>17, <1>18, <1>19,
     <1>20, <1>21, <1>22, <1>23, <1>24, <1>25, <1>26, <1>27, <1>28, <1>29, <1>30, <1>31,
     <1>32, <1>33, <1>34 DEF Next
-----------------------------------------------------------------------------
\* Only the innermost operator changes its mode, and only before it has
\* returned from next() for the first time.
ModeStep ==
    \/ mode' = mode
    \/ \E n \in Nodes, m \in Modes \ {"New"} :
          /\ stack # <<>> /\ n = Top /\ n \notin settled
          /\ mode' = [mode EXCEPT ![n] = m]

\* A step changes the mode of the innermost operator at most, forwards.
LEMMA ModeSteps == IInv /\ Next => ModeStep
<1> SUFFICES ASSUME IInv, Next PROVE ModeStep
  OBVIOUS
<1>1. TypeOK /\ SettledModes
  BY DEF IInv
<1>2. CASE mode' = mode
  BY <1>2 DEF ModeStep
<1>3. CASE SortInitialised \/ CrossSpilled \/ JoinInMemory \/ JoinOverBudget
           \/ JoinRightPartitioned \/ JoinPartitioned
  <2>1. PICK n : n = Top
    OBVIOUS
  <2>2. /\ stack # <<>> /\ n \in Nodes /\ plan.kind[n] \in {"Sort", "Cross", "HashJoin"}
        /\ \/ mode[n] = "New"
           \/ plan.kind[n] = "HashJoin" /\ mode[n] \in {"PartitionRight", "PartitionLeft"}
    BY <1>1, <1>3, <2>1, TopFacts
       DEF SortInitialised, CrossSpilled, JoinInMemory, JoinOverBudget,
           JoinRightPartitioned, JoinPartitioned, Running
  <2>3. n \notin settled
    BY <1>1, <2>2, DrainingUnsettled DEF Kinds
  <2>4. \E m \in Modes \ {"New"} : mode' = [mode EXCEPT ![n] = m]
    BY <1>3, <2>1 DEF SortInitialised, CrossSpilled, JoinInMemory, JoinOverBudget,
                      JoinRightPartitioned, JoinPartitioned, Become, Modes
  <2> QED
    BY <2>1, <2>2, <2>3, <2>4 DEF ModeStep
<1> QED
  BY <1>2, <1>3
     DEF Next, Construct, ProbeSchema, CallRoot, ScanReturn, FilterPull, FilterReturn, SortPull,
         SortReturn,
         CrossSpill, CrossPullLeft, CrossReturn, CrossEnd, JoinBuild, JoinFlush,
         JoinPartition, JoinPullLeft, JoinReturn, JoinEnd, GraceReturn, Stopped, vars

\* A current left row came from the left child.
LeftStep ==
    \/ has_left' = has_left
    \/ \E n \in Nodes, b \in BOOLEAN :
          /\ has_left' = [has_left EXCEPT ![n] = b]
          /\ b => plan.left[n] \in settled

\* A step changes has_left of the innermost operator at most.
LEMMA LeftSteps == IInv /\ Next => LeftStep
<1> SUFFICES ASSUME IInv, Next PROVE LeftStep
  OBVIOUS
<1>1. TypeOK /\ SettledModes
  BY DEF IInv
<1>2. PICK n : n = Top
  OBVIOUS
<1>3. CASE has_left' = has_left
  BY <1>3 DEF LeftStep
<1>4. CASE CrossPullLeft \/ JoinPullLeft
  <2>1. n \in Nodes /\ has_left' = [has_left EXCEPT ![n] = FALSE]
    BY <1>1, <1>2, <1>4, TopFacts DEF CrossPullLeft, JoinPullLeft, Running, SetLeft
  <2> QED
    BY <2>1 DEF LeftStep
<1>5. CASE CrossReturn \/ JoinReturn
  <2>1. n \in Nodes /\ has_left' = [has_left EXCEPT ![n] = TRUE]
    BY <1>1, <1>2, <1>5, TopFacts DEF CrossReturn, JoinReturn, Running, SetLeft
  <2>2. plan.left[n] \in settled
    BY <1>2, <1>5, <2>1 DEF CrossReturn, JoinReturn, Running, IInv, LeftSettled,
                            AnswerSettled, CalledChild
  <2> QED
    BY <2>1, <2>2 DEF LeftStep
<1> QED
  BY <1>3, <1>4, <1>5
     DEF Next, Construct, ProbeSchema, CallRoot, ScanReturn, FilterPull, FilterReturn,
         SortPull, SortInitialised, SortReturn, CrossSpill, CrossSpilled, CrossEnd,
         JoinBuild, JoinInMemory, JoinOverBudget, JoinFlush, JoinPartition,
         JoinRightPartitioned, JoinPartitioned, JoinEnd, GraceReturn, Stopped, vars

\* Who allocates: an operator dropped before a node is constructed, a sort or
\* a join before its first row, or a Cross that is spilling its right child.
AllocStep ==
    \/ UNCHANGED spillVars
    \/ /\ stack = <<>> /\ built < plan.size
       /\ allocs' = Append(allocs, 0) /\ UNCHANGED <<right_start, total>>
    \/ \E n \in Nodes :
          /\ stack # <<>> /\ n = Top /\ n \notin settled
          /\ allocs' = Append(allocs, n)
          /\ \/ plan.kind[n] # "Cross" /\ UNCHANGED <<right_start, total>>
             \/ /\ plan.kind[n] = "Cross" /\ mode[n] = "New" /\ plan.right[n] \in settled
                /\ right_start' = IF total[n] = 0
                                  THEN [right_start EXCEPT ![n] = Len(allocs)]
                                  ELSE right_start
                /\ total' = [total EXCEPT ![n] = @ + 1]

\* A step appends one batch to the allocations at most.
LEMMA AllocSteps == IInv /\ Next => AllocStep
<1> SUFFICES ASSUME IInv, Next PROVE AllocStep
  OBVIOUS
<1>1. TypeOK /\ SettledModes /\ AnswerSettled
  BY DEF IInv
<1>2. PICK n : n = Top
  OBVIOUS
<1>3. CASE UNCHANGED spillVars
  BY <1>3 DEF AllocStep
<1>4. CASE ProbeSchema
  BY <1>4 DEF ProbeSchema, Alloc, AllocStep
<1>5. CASE /\ SortPull \/ SortInitialised \/ JoinFlush
           /\ Alloc(Top)
  <2>1. /\ stack # <<>> /\ n \in Nodes /\ plan.kind[n] \in {"Sort", "HashJoin"}
        /\ \/ mode[n] = "New"
           \/ plan.kind[n] = "HashJoin" /\ mode[n] \in {"PartitionRight", "PartitionLeft"}
    BY <1>1, <1>2, <1>5, TopFacts DEF SortPull, SortInitialised, JoinFlush, Running
  <2>2. n \notin settled
    BY <1>1, <2>1, DrainingUnsettled DEF Kinds
  <2> QED
    BY <1>2, <1>5, <2>1, <2>2 DEF Alloc, AllocStep
<1>6. CASE (CrossSpill \/ CrossSpilled) /\ FlushBatch /\ returned \in {"Some", "None"}
  <2>1. /\ stack # <<>> /\ n \in Nodes /\ plan.kind[n] = "Cross" /\ mode[n] = "New"
    BY <1>1, <1>2, <1>6, TopFacts DEF CrossSpill, CrossSpilled, Running
  <2>2. n \notin settled
    BY <1>1, <2>1, DrainingUnsettled DEF Kinds
  <2>3. plan.right[n] \in settled
    BY <1>1, <1>2, <1>6, <2>1 DEF AnswerSettled, CalledChild
  <2> QED
    BY <1>2, <1>6, <2>1, <2>2, <2>3 DEF FlushBatch, AllocStep
<1> QED
  BY <1>3, <1>4, <1>5, <1>6
     DEF Next, Construct, CallRoot, ScanReturn, FilterPull, FilterReturn, SortPull,
         SortInitialised, SortReturn, CrossSpill, CrossSpilled, CrossPullLeft,
         CrossReturn, CrossEnd, JoinBuild, JoinInMemory, JoinOverBudget, JoinFlush,
         JoinPartition, JoinRightPartitioned, JoinPartitioned, JoinPullLeft, JoinReturn,
         JoinEnd, GraceReturn, Stopped, vars, spillVars
-----------------------------------------------------------------------------
\* The stack after a step, for each of the shapes.
LEMMA StackAfter ==
    ASSUME IInv, Next
    PROVE  \/ Stays /\ built' = built
           \/ Builds
           \/ /\ stack = <<>> /\ Len(stack') = 1 /\ returned' = "Call"
              /\ UNCHANGED <<built, mode, settled>>
              /\ stack'[1] \in Nodes
              /\ \/ built = plan.size /\ stack'[1] = Root
                 \/ /\ built < plan.size /\ stack'[1] = built + 1
                    /\ plan.kind[built + 1] = "HashJoin"
           \/ \E n, child \in Nodes :
                 /\ Calls(n, child)
                 /\ Len(stack') = Len(stack) + 1 /\ stack'[Len(stack) + 1] = child
                 /\ \A i \in 1 .. Len(stack) : stack'[i] = stack[i]
           \/ \E n \in Nodes :
                 /\ Answers(n)
                 /\ Len(stack') = Len(stack) - 1
                 /\ \A i \in 1 .. Len(stack) - 1 : stack'[i] = stack[i]
           \/ \E n \in Nodes : Leaves(n) /\ stack' = <<>> /\ n = built + 1
<1>1. TypeOK /\ plan \in Plans
  BY DEF IInv
<1>2. /\ stack \in Seq(Nodes) /\ built \in Nat
      /\ plan.size \in Nat \ {0} /\ Root \in Nodes /\ Nodes \subseteq Nat \ {0}
  BY <1>1, PlanFacts DEF TypeOK
<1>3. Shapes
  BY StepShapes
<1>4. ASSUME NEW n \in Nodes, stack = <<>>, stack' = <<n>>
      PROVE  Len(stack') = 1 /\ stack'[1] = n
  BY <1>4
<1>5. CASE built = plan.size /\ Starts(Root)
  BY <1>2, <1>4, <1>5 DEF Starts
<1>6. CASE built < plan.size /\ plan.kind[built + 1] = "HashJoin" /\ Starts(built + 1)
  <2>1. built + 1 \in Nodes
    BY <1>2, <1>6 DEF Nodes
  <2> QED
    BY <1>2, <1>4, <1>6, <2>1 DEF Starts
<1>7. ASSUME NEW n \in Nodes, NEW child \in Nodes, Calls(n, child)
      PROVE  /\ Len(stack') = Len(stack) + 1 /\ stack'[Len(stack) + 1] = child
             /\ \A i \in 1 .. Len(stack) : stack'[i] = stack[i]
  <2>1. stack' = Append(stack, child)
    BY <1>7 DEF Calls
  <2> QED
    BY <1>2, <2>1, PushFacts
<1>8. ASSUME stack # <<>>, stack' = SubSeq(stack, 1, Len(stack) - 1)
      PROVE  /\ Len(stack') = Len(stack) - 1 /\ stack' \in Seq(Nodes)
             /\ \A i \in 1 .. Len(stack) - 1 : stack'[i] = stack[i]
  BY <1>2, <1>8, PopFacts
<1>9. ASSUME NEW n \in Nodes, Leaves(n)
      PROVE  stack' = <<>> /\ n = built + 1
  <2>1. /\ Len(stack) \in Nat \ {0} /\ n = stack[Len(stack)] /\ stack # <<>>
        /\ plan.kind[n] = "HashJoin" /\ ~JoinReady(n) /\ n \in 1 .. plan.size
    BY <1>1, <1>9, TopFacts DEF Leaves, Top, Nodes
  <2>2. n > built
    BY <1>2, <2>1 DEF IInv, BuiltJoins, Nodes
  <2>3. stack[1] = built + 1
    BY <1>2, <2>1, <2>2 DEF IInv, BottomCall
  <2>4. Len(stack) = 1
    <3> SUFFICES ASSUME Len(stack) # 1 PROVE FALSE
      OBVIOUS
    <3>1. 1 \in DOMAIN stack /\ Len(stack) \in DOMAIN stack /\ 1 < Len(stack)
      BY <1>2, <2>1
    <3>2. stack[Len(stack)] < stack[1]
      BY <3>1 DEF IInv, Descending
    <3>3. n \in Nat /\ ~(n < built + 1)
      BY <1>2, <2>1, <2>2
    <3> QED
      BY <2>1, <2>3, <3>2, <3>3
  <2>5. Len(stack') = 0 /\ stack' \in Seq(Nodes)
    BY <1>8, <1>9, <2>4 DEF Leaves
  <2> QED
    BY <2>1, <2>3, <2>4, <2>5
<1> QED
  BY <1>3, <1>5, <1>6, <1>7, <1>8, <1>9 DEF Shapes, Answers

\* What a step does not do.
LEMMA Monotone ==
    ASSUME IInv, Next
    PROVE  /\ plan' = plan /\ Nodes' = Nodes /\ Root' = Root
           /\ settled \subseteq settled'
           /\ \A n \in settled : mode'[n] = mode[n]
           /\ \A i \in 1 .. Len(stack) - 1 :
                 stack[i] \in Nodes /\ mode'[stack[i]] = mode[stack[i]]
<1>1. TypeOK /\ Descending /\ plan \in Plans /\ Nodes \subseteq Nat
  BY PlanFacts DEF IInv
<1>2. /\ stack \in Seq(Nodes) /\ mode \in [Nodes -> Modes] /\ settled \subseteq Nodes
  BY <1>1 DEF TypeOK
<1>3. plan' = plan /\ Nodes' = Nodes /\ Root' = Root
  BY PlanFrozen DEF Nodes, Root
<1>4. settled \subseteq settled'
  BY StepShapes DEF Shapes, Stays, Builds, Starts, Calls, Answers, Leaves
<1>5. ModeStep
  BY ModeSteps
<1>6. \A n \in settled : mode'[n] = mode[n]
  BY <1>2, <1>5 DEF ModeStep
<1>7. \A i \in 1 .. Len(stack) - 1 : stack[i] \in Nodes /\ stack[i] # Top
  <2> SUFFICES ASSUME NEW i \in 1 .. Len(stack) - 1
               PROVE  stack[i] \in Nodes /\ stack[i] # Top
    OBVIOUS
  <2>1. Len(stack) \in Nat /\ i \in DOMAIN stack /\ Len(stack) \in DOMAIN stack
        /\ i < Len(stack)
    BY <1>2
  <2>2. stack[Len(stack)] < stack[i] /\ stack[i] \in Nodes /\ stack[Len(stack)] \in Nodes
    BY <1>1, <1>2, <2>1 DEF Descending
  <2>3. stack[Len(stack)] \in Nat /\ stack[i] \in Nat
    BY <1>1, <2>2
  <2> QED
    BY <2>2, <2>3 DEF Top
<1>8. \A i \in 1 .. Len(stack) - 1 : mode'[stack[i]] = mode[stack[i]]
  BY <1>2, <1>5, <1>7 DEF ModeStep
<1> QED
  BY <1>3, <1>4, <1>6, <1>7, <1>8
-----------------------------------------------------------------------------
\* Each part of the invariant is preserved by every step.
LEMMA TypesKept == IInv /\ Next => TypeOK'
<1> SUFFICES ASSUME IInv, Next PROVE TypeOK'
  OBVIOUS
<1>1. TypeOK /\ plan' = plan /\ Nodes' = Nodes /\ plan.size' = plan.size
  BY Monotone DEF IInv
<1>2. plan.size \in Nat \ {0} /\ Root \in Nodes /\ Nodes \subseteq Nat \ {0}
  BY PlanFacts DEF IInv
<1>3. /\ built \in 0 .. plan.size /\ stack \in Seq(Nodes)
      /\ returned \in {"Call", "Some", "None"}
      /\ mode \in [Nodes -> Modes] /\ has_left \in [Nodes -> BOOLEAN]
      /\ right_start \in [Nodes -> Nat] /\ total \in [Nodes -> Nat]
      /\ allocs \in Seq(0 .. plan.size) /\ settled \in SUBSET Nodes
  BY <1>1 DEF TypeOK
<1>4. Shapes
  BY StepShapes
<1>5. stack' \in Seq(Nodes)
  <2>1. ASSUME NEW n \in Nodes, stack' = <<n>> PROVE stack' \in Seq(Nodes)
    BY <2>1
  <2>2. built < plan.size => built + 1 \in Nodes
    BY <1>2, <1>3 DEF Nodes
  <2>3. CASE Stays \/ Builds
    BY <1>3, <2>3 DEF Stays, Builds
  <2>4. CASE \E n, child \in Nodes : Calls(n, child)
    BY <1>3, <2>4 DEF Calls
  <2>5. CASE \E n \in Nodes : Answers(n) \/ Leaves(n)
    BY <1>3, <2>5, PopFacts DEF Answers, Leaves
  <2> QED
    BY <1>2, <1>4, <2>1, <2>2, <2>3, <2>4, <2>5 DEF Shapes, Starts
<1>6. built' \in 0 .. plan.size
  <2>1. built < plan.size => built + 1 \in 0 .. plan.size
    BY <1>2, <1>3
  <2> QED
    BY <1>3, <2>1, StackAfter DEF Builds, Calls, Answers, Leaves, Stays, BottomCall, Nodes
<1>7. settled' \in SUBSET Nodes
  BY <1>3, <1>4 DEF Shapes, Stays, Builds, Starts, Calls, Answers, Leaves
<1>8. mode' \in [Nodes -> Modes]
  BY <1>3, ModeSteps DEF ModeStep
<1>9. has_left' \in [Nodes -> BOOLEAN]
  BY <1>3, LeftSteps DEF LeftStep
<1>10. /\ right_start' \in [Nodes -> Nat] /\ total' \in [Nodes -> Nat]
       /\ allocs' \in Seq(0 .. plan.size)
  <2>1. \A n \in Nodes \cup {0} : n \in 0 .. plan.size
    BY <1>2 DEF Nodes
  <2>2. AllocStep
    BY AllocSteps
  <2>3. allocs' \in Seq(0 .. plan.size)
    <3>1. ASSUME NEW n \in 0 .. plan.size, allocs' = Append(allocs, n)
          PROVE  allocs' \in Seq(0 .. plan.size)
      BY <1>3, <3>1
    <3>2. allocs' = allocs \/ \E n \in 0 .. plan.size : allocs' = Append(allocs, n)
      BY <2>1, <2>2 DEF AllocStep, spillVars
    <3> QED
      BY <1>3, <3>1, <3>2
  <2>4. Len(allocs) \in Nat
    BY <1>3
  <2>5. right_start' \in [Nodes -> Nat]
    BY <1>3, <2>2, <2>4 DEF AllocStep, spillVars
  <2>6. total' \in [Nodes -> Nat]
    <3>1. total' = total \/ \E n \in Nodes : total' = [total EXCEPT ![n] = @ + 1]
      BY <2>2, Zenon DEF AllocStep, spillVars
    <3>2. \A n \in Nodes : total[n] + 1 \in Nat
      BY <1>3
    <3> QED
      BY <1>3, <3>1, <3>2
  <2> QED
    BY <2>3, <2>5, <2>6
<1>11. returned' \in {"Call", "Some", "None"}
  BY <1>3, <1>4 DEF Shapes, Stays, Builds, Starts, Calls, Answers, Leaves
<1> QED
  BY <1>1, <1>5, <1>6, <1>7, <1>8, <1>9, <1>10, <1>11 DEF TypeOK

\* A call goes to a child; a return removes the innermost call.
LEMMA CallsKept == IInv /\ Next => Descending' /\ CallsMatchModes'
<1> SUFFICES ASSUME IInv, Next PROVE Descending' /\ CallsMatchModes'
  OBVIOUS
<1>1. /\ Descending /\ CallsMatchModes /\ Nodes \subseteq Nat \ {0}
      /\ stack \in Seq(Nodes) /\ stack' \in Seq(Nodes')
  BY TypesKept, PlanFacts DEF IInv, TypeOK
<1>2. PICK k \in Nat : k = Len(stack) /\ DOMAIN stack = 1 .. k
  BY <1>1
<1>3. PICK l \in Nat : l = Len(stack') /\ DOMAIN stack' = 1 .. l
  BY <1>1
<1>4. /\ \A i, j \in 1 .. k : i < j => stack[j] < stack[i]
      /\ \A i \in 1 .. k - 1 : stack[i + 1] = CalledChild(stack[i])
      /\ \A i \in 1 .. k : stack[i] \in Nat
  <2>1. \A i \in 1 .. k : stack[i] \in Nodes
    BY <1>1, <1>2
  <2>2. \A i, j \in 1 .. k : i < j => stack[j] < stack[i]
    BY <1>1, <1>2, Zenon DEF Descending
  <2>3. \A i \in 1 .. k - 1 : stack[i + 1] = CalledChild(stack[i])
    BY <1>1, <1>2, Zenon DEF CallsMatchModes
  <2> QED
    BY <1>1, <2>1, <2>2, <2>3
<1>5. /\ plan' = plan /\ Nodes' = Nodes
      /\ \A i \in 1 .. k - 1 : mode'[stack[i]] = mode[stack[i]]
  BY <1>2, Monotone
<1>6. SUFFICES /\ \A i, j \in 1 .. l : i < j => stack'[j] < stack'[i]
               /\ \A i \in 1 .. l - 1 : stack'[i + 1] = CalledChild(stack[i])'
  BY <1>3 DEF Descending, CallsMatchModes
<1>7. CASE l <= k /\ \A i \in 1 .. l : stack'[i] = stack[i]
  <2>1. \A i, j \in 1 .. l : i < j => stack'[j] < stack'[i]
    BY <1>4, <1>7
  <2>2. ASSUME NEW i \in 1 .. l - 1
        PROVE  stack'[i + 1] = CalledChild(stack[i])'
    <3>1. i \in 1 .. k - 1 /\ i \in 1 .. l /\ i + 1 \in 1 .. l
      BY <1>7
    <3> QED
      BY <1>4, <1>5, <1>7, <3>1 DEF CalledChild
  <2> QED
    BY <2>1, <2>2
<1>8. CASE l <= 1
  BY <1>8
<1>9. ASSUME NEW n \in Nodes, NEW child \in Nodes, Calls(n, child),
             l = k + 1, stack'[k + 1] = child, \A i \in 1 .. k : stack'[i] = stack[i]
      PROVE  /\ \A i, j \in 1 .. l : i < j => stack'[j] < stack'[i]
             /\ \A i \in 1 .. l - 1 : stack'[i + 1] = CalledChild(stack[i])'
  <2>1. child < n /\ n = stack[k] /\ k # 0 /\ child \in Nat
    BY <1>1, <1>2, <1>9 DEF Calls, Top
  <2>2. ASSUME NEW i \in 1 .. l, NEW j \in 1 .. l, i < j
        PROVE  stack'[j] < stack'[i]
    <3>1. CASE j <= k
      BY <1>4, <1>9, <2>2, <3>1
    <3>2. CASE j = k + 1
      <4>1. stack[k] <= stack[i] /\ i \in 1 .. k /\ stack[i] \in Nat /\ n \in Nat
        BY <1>4, <1>9, <2>1, <2>2, <3>2
      <4> QED
        BY <1>9, <2>1, <3>2, <4>1
    <3> QED
      BY <1>9, <3>1, <3>2
  <2>3. ASSUME NEW i \in 1 .. l - 1
        PROVE  stack'[i + 1] = CalledChild(stack[i])'
    <3>1. CASE i < k
      <4>1. i \in 1 .. k - 1 /\ i \in 1 .. k /\ i + 1 \in 1 .. k
        BY <3>1
      <4> QED
        BY <1>4, <1>5, <1>9, <4>1 DEF CalledChild
    <3>2. CASE i = k
      <4>1. k \in 1 .. k
        BY <2>1
      <4> QED
        BY <1>5, <1>9, <2>1, <3>2, <4>1 DEF Calls, CalledChild
    <3> QED
      BY <1>9, <3>1, <3>2
  <2> QED
    BY <2>2, <2>3
<1>10. CASE Stays
  BY <1>2, <1>3, <1>7, <1>10 DEF Stays
<1>11. ASSUME NEW n \in Nodes, Answers(n), Len(stack') = Len(stack) - 1,
              \A i \in 1 .. Len(stack) - 1 : stack'[i] = stack[i]
       PROVE  l <= k /\ \A i \in 1 .. l : stack'[i] = stack[i]
  BY <1>2, <1>3, <1>11
<1>12. CASE stack' = <<>> \/ Len(stack') = 1
  BY <1>3, <1>8, <1>12
<1> QED
  BY <1>2, <1>3, <1>7, <1>9, <1>10, <1>11, <1>12, StackAfter DEF Builds

\* A returned value came from the child that the operator below called.
LEMMA AnswersKept == IInv /\ Next => AnswerSettled'
<1> SUFFICES ASSUME IInv, Next, stack' # <<>>, returned' # "Call"
             PROVE  CalledChild(Top)' \in settled'
  BY DEF AnswerSettled
<1>1. /\ AnswerSettled /\ CallsMatchModes /\ stack \in Seq(Nodes) /\ stack' \in Seq(Nodes')
      /\ returned \in {"Call", "Some", "None"} /\ plan' = plan
  BY TypesKept, Monotone DEF IInv, TypeOK
<1>2. PICK k \in Nat : k = Len(stack) /\ DOMAIN stack = 1 .. k
  BY <1>1
<1>3. CASE Stays
  <2>1. stack # <<>> /\ Top' = Top /\ returned' = returned /\ settled' = settled
    BY <1>3 DEF Stays, Top
  <2>2. CalledChild(Top) \in settled /\ Top \in Nodes
    BY <1>1, <1>2, <2>1, TopFacts DEF AnswerSettled, IInv
  <2>3. \A n \in Nodes : CalledChild(n)' = CalledChild(n)
    BY <1>3, <2>1 DEF Stays
  <2>4. CalledChild(Top)' = CalledChild(Top)
    <3>1. PICK n \in Nodes : n = Top /\ n = Top'
      BY <2>1, <2>2
    <3>2. CalledChild(n)' = CalledChild(Top)' /\ CalledChild(n) = CalledChild(Top)
      BY <3>1 DEF CalledChild
    <3> QED
      BY <2>3, <3>2
  <2> QED
    BY <2>1, <2>2, <2>4
<1>4. ASSUME NEW n \in Nodes, Answers(n), Len(stack') = Len(stack) - 1,
             \A i \in 1 .. Len(stack) - 1 : stack'[i] = stack[i]
      PROVE  CalledChild(Top)' \in settled'
  <2>1. PICK l \in Nat : l = Len(stack') /\ l # 0
    BY <1>1
  <2>2. k = l + 1 /\ l \in 1 .. k - 1 /\ stack'[l] = stack[l]
    BY <1>2, <1>4, <2>1
  <2>3. n = stack[l + 1] /\ n \in settled' /\ mode' = mode
    BY <1>2, <1>4, <2>2 DEF Answers, Top
  <2>4. stack[l + 1] = CalledChild(stack[l])
    BY <1>1, <1>2, <2>2 DEF CallsMatchModes
  <2>5. CalledChild(Top)' = CalledChild(stack[l])
    BY <1>1, <2>1, <2>2, <2>3 DEF CalledChild, Top
  <2> QED
    BY <2>3, <2>4, <2>5
<1> QED
  BY <1>3, <1>4, StackAfter DEF Builds, Calls, Leaves

\* A node returns from next() when it has become what SettledMode says.
LEMMA SettledModesKept == IInv /\ Next => SettledModes' /\ LeftSettled'
<1> SUFFICES ASSUME IInv, Next PROVE SettledModes' /\ LeftSettled'
  OBVIOUS
<1>1. /\ plan' = plan /\ Nodes' = Nodes /\ settled \subseteq settled'
      /\ \A n \in settled : mode'[n] = mode[n]
  BY Monotone
<1>2. SettledModes'
  <2> SUFFICES ASSUME NEW n \in settled' PROVE SettledMode(n)'
    BY DEF SettledModes
  <2>1. SettledMode(n) /\ mode'[n] = mode[n]
    BY <1>1, StepShapes DEF Shapes, Stays, Builds, Starts, Calls, Answers, Leaves,
                            IInv, SettledModes
  <2> QED
    BY <1>1, <2>1 DEF SettledMode
<1>3. LeftSettled'
  <2>1. has_left \in [Nodes -> BOOLEAN] /\ LeftSettled /\ LeftStep
    BY LeftSteps DEF IInv, TypeOK
  <2> QED
    BY <1>1, <2>1 DEF LeftSettled, LeftStep
<1> QED
  BY <1>2, <1>3

\* A settled operator calls settled children.
LEMMA SettledCallsKept == IInv /\ Next => SettledCallsSettled'
<1> SUFFICES ASSUME IInv, Next PROVE SettledCallsSettled'
  OBVIOUS
<1>1. /\ SettledCallsSettled /\ Descending /\ stack \in Seq(Nodes)
      /\ stack' \in Seq(Nodes') /\ Nodes \subseteq Nat \ {0}
  BY TypesKept, PlanFacts DEF IInv, TypeOK
<1>2. PICK k \in Nat : k = Len(stack) /\ DOMAIN stack = 1 .. k
  BY <1>1
<1>3. PICK l \in Nat : l = Len(stack') /\ DOMAIN stack' = 1 .. l
  BY <1>1
<1>4. /\ \A i, j \in 1 .. k : i < j => stack[j] < stack[i]
      /\ \A i, j \in 1 .. k : i < j /\ stack[i] \in settled => stack[j] \in settled
  BY <1>1, <1>2, Zenon DEF Descending, SettledCallsSettled
<1>5. \A i \in 1 .. k : stack[i] \in Nat
  <2>1. \A i \in 1 .. k : stack[i] \in Nodes
    BY <1>1, <1>2
  <2> QED
    BY <1>1, <2>1
<1> SUFFICES ASSUME NEW i \in 1 .. l, NEW j \in 1 .. l, i < j, stack'[i] \in settled'
             PROVE  stack'[j] \in settled'
  BY <1>3 DEF SettledCallsSettled
<1>6. CASE Stays
  <2>1. stack' = stack /\ settled' = settled /\ l = k
    BY <1>2, <1>3, <1>6 DEF Stays
  <2> QED
    BY <1>4, <2>1
<1>7. CASE stack' = <<>> \/ Len(stack') = 1
  BY <1>3, <1>7
<1>8. ASSUME NEW n \in Nodes, NEW child \in Nodes, Calls(n, child),
             Len(stack') = Len(stack) + 1, stack'[Len(stack) + 1] = child,
             \A m \in 1 .. Len(stack) : stack'[m] = stack[m]
      PROVE  stack'[j] \in settled'
  <2>1. /\ l = k + 1 /\ n = stack[k] /\ settled' = settled
        /\ n \in settled => child \in settled
    BY <1>2, <1>3, <1>8 DEF Calls, Top
  <2>2. i \in 1 .. k /\ stack[i] \in settled
    BY <1>2, <1>8, <2>1
  <2>3. k \in 1 .. k /\ (i = k \/ i < k)
    BY <2>2
  <2>4. stack[k] \in settled
    BY <1>4, <2>2, <2>3
  <2>5. CASE j = k + 1
    BY <1>2, <1>8, <2>1, <2>4, <2>5
  <2>6. CASE j \in 1 .. k
    BY <1>2, <1>4, <1>8, <2>1, <2>2, <2>6
  <2> QED
    BY <2>1, <2>5, <2>6
<1>9. ASSUME NEW n \in Nodes, Answers(n), Len(stack') = Len(stack) - 1,
             \A m \in 1 .. Len(stack) - 1 : stack'[m] = stack[m]
      PROVE  stack'[j] \in settled'
  <2>1. k = l + 1 /\ n = stack[k] /\ settled' = settled \cup {n}
    BY <1>2, <1>3, <1>9 DEF Answers, Top
  <2>2. /\ i \in 1 .. k /\ j \in 1 .. k /\ k \in 1 .. k /\ i < k
        /\ stack'[i] = stack[i] /\ stack'[j] = stack[j]
    BY <1>2, <1>9, <2>1
  <2>3. stack[i] # n
    BY <1>4, <1>5, <2>1, <2>2
  <2> QED
    BY <1>4, <2>1, <2>2, <2>3
<1> QED
  BY <1>6, <1>7, <1>8, <1>9, StackAfter DEF Builds

\* Joins are constructed one after the other, from the first call into their
\* constructor until it returns.
LEMMA ConstructionKept == IInv /\ Next => BuiltJoins' /\ BottomCall' /\ RootBuilt'
<1> SUFFICES ASSUME IInv, Next PROVE BuiltJoins' /\ BottomCall' /\ RootBuilt'
  OBVIOUS
<1>1. /\ BuiltJoins /\ BottomCall /\ RootBuilt /\ Descending
      /\ built \in Nat /\ built <= plan.size
      /\ stack \in Seq(Nodes) /\ plan.size \in Nat \ {0} /\ settled \subseteq Nodes
      /\ Root \in Nodes /\ mode \in [Nodes -> Modes]
  BY PlanFacts DEF IInv, TypeOK
<1>2. /\ plan' = plan /\ Nodes' = Nodes /\ Root' = Root
      /\ settled \subseteq settled' /\ \A n \in settled : mode'[n] = mode[n]
      /\ \A n \in Nodes : n \in Nat /\ n <= plan.size
  BY <1>1, Monotone DEF Nodes
<1>3. /\ \A n \in Nodes : plan.kind[n] = "HashJoin" => (JoinReady(n) <=> n <= built)
      /\ stack # <<>> =>
            \/ built = plan.size /\ stack[1] = Root
            \/ built < plan.size /\ stack[1] = built + 1 /\ plan.kind[built + 1] = "HashJoin"
      /\ Root \in settled => built = plan.size
  BY <1>1 DEF BuiltJoins, BottomCall, RootBuilt
<1> DEFINE Goal ==
          /\ \A n \in Nodes : plan.kind[n] = "HashJoin" => (JoinReady(n)' <=> n <= built')
          /\ stack' # <<>> =>
                \/ built' = plan.size /\ stack'[1] = Root
                \/ /\ built' < plan.size /\ stack'[1] = built' + 1
                   /\ plan.kind[built' + 1] = "HashJoin"
          /\ Root \in settled' => built' = plan.size
<1>4. SUFFICES Goal
  BY <1>2 DEF BuiltJoins, BottomCall, RootBuilt
<1>5. ASSUME built' = built, \A n \in Nodes : JoinReady(n)' <=> JoinReady(n)
      PROVE  \A n \in Nodes : plan.kind[n] = "HashJoin" => (JoinReady(n)' <=> n <= built')
  BY <1>3, <1>5
<1>6. ASSUME mode' = mode PROVE \A n \in Nodes : JoinReady(n)' <=> JoinReady(n)
  BY <1>6 DEF JoinReady
<1>7. ASSUME stack # <<>> PROVE 1 \in DOMAIN stack
  BY <1>1, <1>7
<1>8. CASE Stays /\ built' = built
  BY <1>3, <1>5, <1>8 DEF Stays
<1>9. CASE Builds
  <2>1. built' = built + 1 /\ built' <= plan.size /\ stack' = <<>> /\ settled' = settled
    BY <1>1, <1>9 DEF Builds
  <2>2. ASSUME NEW n \in Nodes, plan.kind[n] = "HashJoin"
        PROVE  JoinReady(n)' <=> n <= built'
    <3>1. n # built + 1 /\ (JoinReady(n)' <=> JoinReady(n))
      BY <1>6, <1>9, <2>2 DEF Builds
    <3> QED
      BY <1>1, <1>2, <1>3, <2>1, <2>2, <3>1
  <2>3. Root \notin settled
    BY <1>1, <1>3, <1>9 DEF Builds
  <2> QED
    BY <2>1, <2>2, <2>3
<1>10. CASE /\ stack = <<>> /\ UNCHANGED <<built, mode, settled>>
            /\ \/ built = plan.size /\ stack'[1] = Root
               \/ /\ built < plan.size /\ stack'[1] = built + 1
                  /\ plan.kind[built + 1] = "HashJoin"
  BY <1>3, <1>5, <1>6, <1>10
<1>11. ASSUME NEW n \in Nodes, NEW child \in Nodes, Calls(n, child),
              \A i \in 1 .. Len(stack) : stack'[i] = stack[i]
       PROVE  Goal
  <2>1. stack # <<>> /\ stack'[1] = stack[1]
    BY <1>1, <1>7, <1>11 DEF Calls
  <2> QED
    BY <1>3, <1>5, <1>11, <2>1 DEF Calls
<1>12. ASSUME NEW n \in Nodes, Answers(n), Len(stack') = Len(stack) - 1,
              \A i \in 1 .. Len(stack) - 1 : stack'[i] = stack[i]
       PROVE  Goal
  <2>1. built' = built /\ mode' = mode /\ settled' = settled \cup {n} /\ stack # <<>>
        /\ n = stack[Len(stack)] /\ SettledMode(n)
    BY <1>12 DEF Answers, Top
  <2>2. \A m \in Nodes : plan.kind[m] = "HashJoin" => (JoinReady(m)' <=> m <= built')
    BY <1>5, <1>6, <2>1
  <2>3. stack' # <<>> => stack'[1] = stack[1]
    <3>1. stack' \in Seq(Nodes)
      BY <1>2, TypesKept DEF TypeOK
    <3> QED
      BY <1>1, <1>12, <3>1
  <2>4. Root \in settled' => built' = plan.size
    <3> SUFFICES ASSUME n = Root, built # plan.size PROVE FALSE
      BY <1>3, <2>1
    <3>1. built < plan.size /\ stack[1] = built + 1 /\ plan.kind[built + 1] = "HashJoin"
      BY <1>3, <2>1
    <3>2. Len(stack) \in Nat \ {0} /\ n <= stack[1]
      <4>1. Len(stack) \in Nat \ {0} /\ 1 \in DOMAIN stack /\ Len(stack) \in DOMAIN stack
        BY <1>1, <1>7, <2>1
      <4>2. stack[1] \in Nat /\ stack[Len(stack)] \in Nat
        BY <1>1, <1>2, <4>1
      <4>3. 1 < Len(stack) => stack[Len(stack)] < stack[1]
        BY <1>1, <4>1 DEF Descending
      <4> QED
        BY <2>1, <4>1, <4>2, <4>3
    <3>3. n = built + 1
      BY <1>1, <1>2, <3>1, <3>2 DEF Root
    <3>4. JoinReady(n)
      BY <2>1, <3>1, <3>3 DEF SettledMode, JoinReady
    <3> QED
      BY <1>1, <1>3, <3>1, <3>3, <3>4
  <2> QED
    BY <1>3, <2>1, <2>2, <2>3, <2>4
<1>13. ASSUME NEW n \in Nodes, Leaves(n), stack' = <<>>, n = built + 1
       PROVE  Goal
  <2>1. /\ built' = built + 1 /\ settled' = settled /\ JoinReady(n)'
        /\ \A m \in Nodes \ {n} : mode'[m] = mode[m]
    BY <1>13 DEF Leaves
  <2>2. ASSUME NEW m \in Nodes, plan.kind[m] = "HashJoin"
        PROVE  JoinReady(m)' <=> m <= built'
    <3>1. CASE m = n
      BY <1>1, <1>13, <2>1, <3>1
    <3>2. CASE m # n
      <4>1. JoinReady(m)' <=> JoinReady(m)
        BY <2>1, <3>2 DEF JoinReady
      <4> QED
        BY <1>1, <1>2, <1>3, <1>13, <2>1, <2>2, <3>2, <4>1
    <3> QED
      BY <3>1, <3>2
  <2>3. Root \notin settled
    BY <1>1, <1>2, <1>3, <1>13
  <2> QED
    BY <1>13, <2>1, <2>2, <2>3
<1> QED
  BY <1>8, <1>9, <1>10, <1>11, <1>12, <1>13, StackAfter

\* The innermost operator is constructed, or it is the join under construction.
LEMMA TopWithinBuilt ==
    ASSUME IInv, stack # <<>>
    PROVE  /\ Top \in Nat /\ Top <= built + 1
           /\ SettledMode(Top) => Top <= built
<1>1. /\ built \in Nat /\ plan.size \in Nat /\ stack \in Seq(Nodes)
      /\ \A n \in Nodes : n \in Nat /\ n <= plan.size
  BY PlanFacts DEF IInv, TypeOK, Nodes
<1>2. PICK n : n = Top
  OBVIOUS
<1>3. /\ n \in Nodes /\ Len(stack) \in Nat \ {0} /\ n = stack[Len(stack)]
      /\ 1 \in DOMAIN stack /\ Len(stack) \in DOMAIN stack
  BY <1>1, <1>2, TopFacts DEF IInv, Top
<1>4. n <= stack[1]
  <2>1. 1 < Len(stack) => stack[Len(stack)] < stack[1]
    BY <1>3 DEF IInv, Descending
  <2>2. stack[1] \in Nat
    BY <1>1, <1>3
  <2> QED
    BY <1>1, <1>3, <2>1, <2>2
<1>5. CASE built = plan.size
  BY <1>1, <1>2, <1>3, <1>5
<1>6. CASE built # plan.size
  <2>1. stack[1] = built + 1 /\ plan.kind[built + 1] = "HashJoin"
    BY <1>6 DEF IInv, BottomCall
  <2>2. SettledMode(n) /\ n = built + 1 => JoinReady(n) /\ plan.kind[n] = "HashJoin"
    BY <2>1 DEF SettledMode, JoinReady
  <2>3. SettledMode(n) /\ n = built + 1 => n <= built
    BY <1>3, <2>2 DEF IInv, BuiltJoins
  <2> QED
    BY <1>1, <1>2, <1>3, <1>4, <2>1, <2>3
<1> QED
  BY <1>5, <1>6

\* Nothing runs before it is constructed, but a join while it is.
LEMMA WithinBuiltKept == IInv /\ Next => WithinBuilt'
<1> SUFFICES ASSUME IInv, Next PROVE WithinBuilt'
  OBVIOUS
<1>1. /\ built \in Nat /\ settled \subseteq Nat
      /\ allocs \in Seq(0 .. plan.size) /\ plan.size \in Nat
      /\ \A n \in settled : n <= built
      /\ \A k \in DOMAIN allocs : allocs[k] <= built + 1
  BY PlanFacts DEF IInv, TypeOK, WithinBuilt
<1>2. /\ built' \in Nat /\ built <= built'
      /\ \A n \in settled' : n \in settled \/ (stack # <<>> /\ n = Top /\ SettledMode(n))
  BY <1>1, StackAfter DEF Stays, Builds, Calls, Answers, Leaves
<1>3. ASSUME NEW n \in settled' PROVE n <= built'
  <2>1. CASE n \in settled
    BY <1>1, <1>2, <2>1
  <2>2. CASE stack # <<>> /\ n = Top /\ SettledMode(n)
    <3>1. n \in Nat /\ n <= built
      BY <2>2, TopWithinBuilt
    <3> QED
      BY <1>1, <1>2, <3>1
  <2> QED
    BY <1>2, <2>1, <2>2
<1>4. ASSUME NEW n \in 0 .. plan.size, n <= built + 1, allocs' = Append(allocs, n)
      PROVE  \A k \in DOMAIN allocs' : allocs'[k] <= built + 1
  <2>1. /\ DOMAIN allocs' = 1 .. Len(allocs) + 1 /\ Len(allocs) \in Nat
        /\ \A k \in 1 .. Len(allocs) + 1 :
               allocs'[k] = IF k = Len(allocs) + 1 THEN n ELSE allocs[k]
    BY <1>1, <1>4
  <2> QED
    BY <1>1, <1>4, <2>1
<1>5. \A k \in DOMAIN allocs' : allocs'[k] <= built + 1
  <2>1. CASE allocs' = allocs
    BY <1>1, <2>1
  <2>2. CASE allocs' = Append(allocs, 0)
    BY <1>1, <1>4, <2>2
  <2>3. CASE stack # <<>> /\ allocs' = Append(allocs, Top)
    <3>1. Top \in Nodes /\ Top <= built + 1
      BY <2>3, TopFacts, TopWithinBuilt DEF IInv
    <3>2. Top \in 0 .. plan.size
      BY <1>1, <3>1 DEF Nodes
    <3> QED
      BY <1>4, <2>3, <3>1, <3>2
  <2> QED
    BY <2>1, <2>2, <2>3, AllocSteps DEF AllocStep, spillVars
<1>6. \A k \in DOMAIN allocs' : allocs'[k] \in Nat
  <2>1. plan' = plan /\ allocs' \in Seq(0 .. plan'.size)
    BY PlanFrozen, TypesKept DEF TypeOK
  <2>2. allocs' \in Seq(0 .. plan.size)
    BY <2>1
  <2> QED
    BY <1>1, <2>2
<1> QED
  BY <1>1, <1>2, <1>3, <1>5, <1>6 DEF WithinBuilt

\* An operator that allocates is the innermost one, and no Cross below it on
\* the stack is between two of its batches: the child it drains has answered,
\* so nothing above it on the stack allocates.
LEMMA NoForeignAllocation ==
    ASSUME IInv, NEW n \in Nodes, NEW i \in DOMAIN stack, stack[i] = n, n # Top,
           plan.kind[n] = "Cross", mode[n] = "New", plan.right[n] \in settled
    PROVE  Top \in settled
<1>1. /\ stack \in Seq(Nodes) /\ CallsMatchModes /\ SettledCallsSettled
  BY DEF IInv, TypeOK
<1>2. PICK k \in Nat : k = Len(stack) /\ DOMAIN stack = 1 .. k
  BY <1>1
<1>3. i \in 1 .. k /\ i # k /\ Top = stack[k]
  BY <1>2 DEF Top
<1>4. i \in 1 .. k - 1 /\ i + 1 \in 1 .. k /\ k \in 1 .. k /\ (i + 1 = k \/ i + 1 < k)
  BY <1>2, <1>3
<1>5. stack[i + 1] \in settled
  BY <1>1, <1>2, <1>4, Zenon DEF CallsMatchModes, CalledChild
<1> QED
  BY <1>1, <1>2, <1>3, <1>4, <1>5, Zenon DEF SettledCallsSettled

\* What a batch more does to the ranges of blocks of the Cross operators.
LEMMA SpillsKept == IInv /\ Next => SpillInProgress' /\ SpillContiguous'
<1> SUFFICES ASSUME IInv, Next PROVE SpillInProgress' /\ SpillContiguous'
  OBVIOUS
<1>1. /\ SpillInProgress /\ SpillContiguous /\ SettledModes
      /\ stack \in Seq(Nodes) /\ Nodes \subseteq Nat \ {0}
      /\ right_start \in [Nodes -> Nat] /\ total \in [Nodes -> Nat]
      /\ mode \in [Nodes -> Modes] /\ allocs \in Seq(0 .. plan.size)
  BY PlanFacts DEF IInv, TypeOK
<1>2. plan' = plan /\ Nodes' = Nodes /\ settled \subseteq settled'
  BY Monotone
<1>3. AllocStep /\ ModeStep
  BY AllocSteps, ModeSteps
<1>4. PICK a \in Nat : a = Len(allocs) /\ DOMAIN allocs = 1 .. a
  BY <1>1
<1>5. \/ allocs' = allocs
      \/ /\ DOMAIN allocs' = 1 .. a + 1 /\ Len(allocs') = a + 1
         /\ \A i \in 1 .. a : allocs'[i] = allocs[i]
  <2>1. ASSUME NEW o \in 0 .. plan.size, allocs' = Append(allocs, o)
        PROVE  /\ DOMAIN allocs' = 1 .. a + 1 /\ Len(allocs') = a + 1
               /\ \A i \in 1 .. a : allocs'[i] = allocs[i]
    BY <1>1, <1>4, <2>1, PushFacts
  <2>2. \A n \in Nodes \cup {0} : n \in 0 .. plan.size
    BY PlanFacts DEF Nodes, IInv
  <2> QED
    BY <1>3, <2>1, <2>2 DEF AllocStep, spillVars
<1>6. ASSUME NEW n \in Nodes, plan.kind[n] = "Cross",
             right_start'[n] = right_start[n], total'[n] = total[n]
      PROVE  \A i \in 1 .. total'[n] :
                 right_start'[n] + i \in DOMAIN allocs' /\ allocs'[right_start'[n] + i] = n
  <2> SUFFICES ASSUME NEW i \in 1 .. total[n]
               PROVE  /\ right_start[n] + i \in DOMAIN allocs'
                      /\ allocs'[right_start[n] + i] = n
    BY <1>6
  <2>1. right_start[n] + i \in 1 .. a /\ allocs[right_start[n] + i] = n
    BY <1>1, <1>4, <1>6 DEF SpillContiguous
  <2> QED
    BY <1>4, <1>5, <2>1
<1>7. ASSUME NEW n \in Nodes, plan.kind[n] = "Cross", mode'[n] = "New"
      PROVE  mode[n] = "New" /\ n \notin settled'
  <2>1. mode[n] = "New"
    BY <1>1, <1>3, <1>7 DEF ModeStep
  <2>2. n \notin settled /\ ~SettledMode(n)
    BY <1>1, <1>7, <2>1 DEF SettledModes, SettledMode
  <2>3. n \notin settled'
    BY <2>2, StepShapes DEF Shapes, Stays, Builds, Starts, Calls, Answers, Leaves
  <2> QED
    BY <2>1, <2>3
<1>8. ASSUME NEW n \in Nodes, plan.kind[n] = "Cross", mode'[n] = "New",
             NEW i \in DOMAIN stack, stack[i] = n
      PROVE  \E j \in DOMAIN stack' : stack'[j] = n
  <2>1. PICK k \in Nat : k = Len(stack) /\ DOMAIN stack = 1 .. k /\ Top = stack[k]
    BY <1>1 DEF Top
  <2>2. stack' \in Seq(Nodes) /\ DOMAIN stack' = 1 .. Len(stack')
    BY <1>2, TypesKept DEF TypeOK
  <2>3. stack # <<>> /\ i \in 1 .. k
    BY <1>8, <2>1
  <2>4. CASE Stays
    BY <1>8, <2>4 DEF Stays
  <2>5. ASSUME NEW m \in Nodes, NEW child \in Nodes, Calls(m, child),
               Len(stack') = Len(stack) + 1,
               \A j \in 1 .. Len(stack) : stack'[j] = stack[j]
        PROVE  \E j \in DOMAIN stack' : stack'[j] = n
    <3>1. i \in 1 .. k + 1 /\ DOMAIN stack' = 1 .. k + 1 /\ stack'[i] = n
      BY <1>8, <2>1, <2>2, <2>3, <2>5
    <3> QED
      BY <3>1
  <2>6. ASSUME NEW m \in Nodes, Answers(m), Len(stack') = Len(stack) - 1,
               \A j \in 1 .. Len(stack) - 1 : stack'[j] = stack[j]
        PROVE  \E j \in DOMAIN stack' : stack'[j] = n
    <3>1. m \in settled' /\ m = stack[k]
      BY <2>1, <2>6 DEF Answers
    <3>2. i # k
      BY <1>7, <1>8, <3>1
    <3>3. DOMAIN stack' = 1 .. k - 1 /\ i \in 1 .. k - 1
      BY <2>1, <2>2, <2>3, <2>6, <3>2
    <3>4. stack'[i] = n
      BY <1>8, <2>1, <2>6, <3>3
    <3> QED
      BY <3>3, <3>4
  <2>7. ASSUME NEW m \in Nodes, Leaves(m), m = built + 1
        PROVE  FALSE
    <3>1. plan.kind[m] = "HashJoin" /\ m = stack[k] /\ ~JoinReady(m)
      BY <2>1, <2>7 DEF Leaves
    <3>2. stack[1] = m
      <4>1. built + 1 <= plan.size /\ plan.size \in Nat
        BY <2>7, PlanFacts DEF Nodes, IInv
      <4> QED
        BY <2>3, <2>7, <4>1 DEF IInv, BottomCall, TypeOK
    <3>3. i = 1
      <4>1. 1 \in DOMAIN stack /\ k \in DOMAIN stack /\ (k = 1 \/ 1 < k)
        BY <2>1, <2>3
      <4>2. ~(stack[k] < stack[1])
        BY <1>1, <2>7, <3>1, <3>2
      <4>3. ~(1 < k)
        BY <4>1, <4>2 DEF IInv, Descending
      <4> QED
        BY <2>1, <2>3, <4>1, <4>3
    <3> QED
      BY <1>8, <3>1, <3>2, <3>3
  <2> QED
    BY <2>3, <2>4, <2>5, <2>6, <2>7, StackAfter DEF Builds
<1> DEFINE InProgress(n) ==
             mode'[n] = "New" /\ total'[n] > 0 =>
                /\ \E i \in DOMAIN stack' : stack'[i] = n
                /\ plan.right[n] \in settled'
                /\ right_start'[n] + total'[n] = Len(allocs')
           Contiguous(n) ==
             \A i \in 1 .. total'[n] :
                 right_start'[n] + i \in DOMAIN allocs' /\ allocs'[right_start'[n] + i] = n
<1>9. ASSUME NEW n \in Nodes, plan.kind[n] = "Cross",
             right_start'[n] = right_start[n], total'[n] = total[n]
      PROVE  InProgress(n) /\ Contiguous(n)
  <2>1. Contiguous(n)
    BY <1>6, <1>9
  <2>2. ASSUME mode'[n] = "New", total[n] > 0
        PROVE  /\ \E i \in DOMAIN stack' : stack'[i] = n
               /\ plan.right[n] \in settled'
               /\ right_start[n] + total[n] = Len(allocs')
    <3>1. mode[n] = "New"
      BY <1>7, <1>9, <2>2
    <3>2. plan.right[n] \in settled /\ right_start[n] + total[n] = Len(allocs)
      BY <1>1, <1>9, <2>2, <3>1 DEF SpillInProgress
    <3>3. PICK i \in DOMAIN stack : stack[i] = n
      BY <1>1, <1>9, <2>2, <3>1 DEF SpillInProgress
    <3>4. \E j \in DOMAIN stack' : stack'[j] = n
      BY <1>8, <1>9, <2>2, <3>3
    <3>5. stack # <<>> /\ (n # Top => Top \in settled)
      BY <1>1, <1>9, <3>1, <3>2, <3>3, NoForeignAllocation
    <3>6. total[n] + 1 # total[n]
      BY <1>1
    <3>7. allocs' = allocs
      BY <1>1, <1>3, <1>9, <3>5, <3>6 DEF AllocStep, spillVars
    <3> QED
      BY <1>2, <3>2, <3>4, <3>7
  <2> QED
    BY <1>9, <2>1, <2>2
<1>10. ASSUME NEW n \in Nodes, plan.kind[n] = "Cross",
              stack # <<>>, n = Top, mode[n] = "New", plan.right[n] \in settled,
              allocs' = Append(allocs, n), total'[n] = total[n] + 1,
              right_start'[n] = IF total[n] = 0 THEN Len(allocs) ELSE right_start[n]
       PROVE  InProgress(n) /\ Contiguous(n)
  <2>1. /\ DOMAIN allocs' = 1 .. a + 1 /\ Len(allocs') = a + 1 /\ allocs'[a + 1] = n
        /\ \A i \in 1 .. a : allocs'[i] = allocs[i]
    <3>1. n \in 0 .. plan.size
      BY PlanFacts DEF Nodes, IInv
    <3> QED
      BY <1>1, <1>4, <1>10, <3>1, PushFacts
  <2>2. total[n] \in Nat /\ right_start[n] \in Nat
    BY <1>1
  <2>3. total[n] > 0 => right_start[n] + total[n] = a
    BY <1>1, <1>4, <1>10 DEF SpillInProgress
  <2>4. right_start'[n] \in Nat /\ right_start'[n] + total'[n] = a + 1
    <3>1. CASE total[n] = 0
      BY <1>4, <1>10, <2>2, <3>1
    <3>2. CASE total[n] > 0
      <4>1. right_start'[n] = right_start[n] /\ right_start[n] + total[n] = a
        BY <1>10, <2>2, <2>3, <3>2
      <4>2. total'[n] = total[n] + 1
        BY <1>10
      <4> QED
        BY <2>2, <4>1, <4>2
    <3> QED
      BY <2>2, <3>1, <3>2
  <2>5. \E i \in DOMAIN stack : stack[i] = n
    <3>1. TypeOK
      BY DEF IInv
    <3> QED
      BY <1>10, <3>1, TopFacts DEF Top
  <2>6. InProgress(n)
    BY <1>2, <1>8, <1>10, <2>1, <2>4, <2>5
  <2>7. ASSUME NEW i \in 1 .. total'[n]
        PROVE  right_start'[n] + i \in DOMAIN allocs' /\ allocs'[right_start'[n] + i] = n
    <3>1. CASE i = total[n] + 1
      BY <1>10, <2>1, <2>4, <3>1
    <3>2. CASE i \in 1 .. total[n]
      <4>1. right_start'[n] = right_start[n]
        BY <1>10, <2>2, <3>2
      <4>2. right_start[n] + i \in 1 .. a /\ allocs[right_start[n] + i] = n
        BY <1>1, <1>4, <1>10, <3>2 DEF SpillContiguous
      <4> QED
        BY <2>1, <4>1, <4>2
    <3> QED
      BY <1>10, <2>2, <3>1, <3>2
  <2> QED
    BY <2>6, <2>7
<1>11. ASSUME NEW n \in Nodes, plan.kind[n] = "Cross"
       PROVE  InProgress(n) /\ Contiguous(n)
  <2>1. CASE right_start'[n] = right_start[n] /\ total'[n] = total[n]
    BY <1>9, <1>11, <2>1
  <2>2. CASE ~(right_start'[n] = right_start[n] /\ total'[n] = total[n])
    <3>1. /\ stack # <<>> /\ n = Top /\ mode[n] = "New" /\ plan.right[n] \in settled
          /\ allocs' = Append(allocs, n)
          /\ total' = [total EXCEPT ![n] = @ + 1]
          /\ right_start' = IF total[n] = 0 THEN [right_start EXCEPT ![n] = Len(allocs)]
                                            ELSE right_start
      <4>1. ASSUME NEW m \in Nodes, m # n, total' = [total EXCEPT ![m] = @ + 1],
                   right_start' = IF total[m] = 0
                                  THEN [right_start EXCEPT ![m] = Len(allocs)]
                                  ELSE right_start
            PROVE  FALSE
        BY <1>1, <2>2, <4>1
      <4> QED
        BY <1>3, <2>2, <4>1 DEF AllocStep, spillVars
    <3>2. /\ total'[n] = total[n] + 1
          /\ right_start'[n] = IF total[n] = 0 THEN Len(allocs) ELSE right_start[n]
      BY <1>1, <3>1
    <3> QED
      BY <1>10, <1>11, <3>1, <3>2
  <2> QED
    BY <2>1, <2>2
<1> QED
  BY <1>2, <1>11 DEF SpillInProgress, SpillContiguous
-----------------------------------------------------------------------------
\* The invariant is inductive.
LEMMA Inductive == IInv /\ [Next]_vars => IInv'
<1> SUFFICES ASSUME IInv, [Next]_vars PROVE IInv'
  OBVIOUS
<1>1. CASE Next
  <2>1. plan' \in Plans
    BY <1>1, PlanFrozen DEF IInv
  <2> QED
    BY <1>1, <2>1, TypesKept, CallsKept, AnswersKept, SettledModesKept, SettledCallsKept,
       ConstructionKept, WithinBuiltKept, SpillsKept DEF IInv
<1>2. CASE UNCHANGED vars
  <2>1. /\ plan' = plan /\ built' = built /\ stack' = stack /\ returned' = returned
        /\ mode' = mode /\ has_left' = has_left /\ right_start' = right_start
        /\ total' = total /\ allocs' = allocs /\ settled' = settled
    BY <1>2 DEF vars
  <2>2. TypeOK' /\ plan' \in Plans
    BY <2>1 DEF IInv, TypeOK, Nodes
  <2>3. Descending' /\ CallsMatchModes' /\ AnswerSettled'
    BY <2>1 DEF IInv, Descending, CallsMatchModes, AnswerSettled, CalledChild, Nodes, Root, Top
  <2>4. SettledModes' /\ LeftSettled' /\ SettledCallsSettled'
    BY <2>1 DEF IInv, SettledModes, SettledMode, LeftSettled, SettledCallsSettled,
                CalledChild, Nodes, Root, Top
  <2>5. SpillInProgress' /\ SpillContiguous'
    BY <2>1 DEF IInv, SpillInProgress, SpillContiguous, Nodes
  <2>6. BuiltJoins' /\ BottomCall' /\ RootBuilt' /\ WithinBuilt'
    BY <2>1 DEF IInv, BuiltJoins, JoinReady, BottomCall, RootBuilt, WithinBuilt, Nodes, Root
  <2> QED
    BY <2>2, <2>3, <2>4, <2>5, <2>6 DEF IInv
<1> QED
  BY <1>1, <1>2

\* The invariant holds in every reachable state.
LEMMA Invariance == Spec => []IInv
  BY InitIInv, Inductive, PTL DEF Spec

\* In every operator tree a hash join that fills its table or its partition buffers
\* is the outermost call, and no operator constructed later has run or spilled.
THEOREM JoinsAlwaysBuildAlone == Spec => []JoinsBuildAlone
<1>1. ASSUME IInv PROVE JoinsBuildAlone
  <2> SUFFICES ASSUME NEW i \in DOMAIN stack, plan.kind[stack[i]] = "HashJoin",
                      ~JoinReady(stack[i])
               PROVE  /\ i = 1
                      /\ \A n \in settled : n < stack[1]
                      /\ \A k \in DOMAIN allocs : allocs[k] <= stack[1]
    BY DEF JoinsBuildAlone, JoinReady
  <2>1. PICK n : n = stack[i]
    OBVIOUS
  <2>2. /\ stack # <<>> /\ n \in Nodes /\ n <= plan.size /\ n > built
        /\ plan.size \in Nat /\ built \in Nat /\ Nodes \subseteq Nat
    BY <1>1, <2>1, PlanFacts DEF IInv, TypeOK, BuiltJoins, Nodes
  <2>3. stack[1] = built + 1
    BY <1>1, <2>2 DEF IInv, BottomCall
  <2>4. i = 1
    <3>1. 1 \in DOMAIN stack /\ i \in Nat /\ (i = 1 \/ 1 < i)
      BY <1>1, <2>2 DEF IInv, TypeOK
    <3>2. 1 < i => n < built + 1
      BY <1>1, <2>1, <2>3, <3>1 DEF IInv, Descending
    <3> QED
      BY <2>2, <3>1, <3>2
  <2>5. /\ \A m \in settled : m \in Nat /\ m <= built
        /\ \A k \in DOMAIN allocs : allocs[k] <= built + 1
    BY <1>1, <2>2 DEF IInv, TypeOK, WithinBuilt
  <2> QED
    BY <2>2, <2>3, <2>4, <2>5
<1> QED
  BY <1>1, Invariance, PTL

\* In every operator tree the batches a Cross spills are adjacent on the disk,
\* so that reading total_blocks blocks from right_start_block yields its right
\* side: what CrossOperator assumes and build_operator nowhere enforces.
THEOREM SpillsAreContiguous == Spec => []SpillContiguous
<1>1. IInv => SpillContiguous
  BY DEF IInv
<1> QED
  BY <1>1, Invariance, PTL

\* A node's whole subtree does its draining in the first call it receives.
THEOREM SettledCalls == Spec => []SettledCallsSettled
<1>1. IInv => SettledCallsSettled
  BY DEF IInv
<1> QED
  BY <1>1, Invariance, PTL

\* Once next() of the root has returned, no operator allocates another block.
THEOREM QuietAfterFirstRow == Spec => NoAllocationAfterFirstRow
<1>1. IInv /\ Next /\ Root \in settled => UNCHANGED allocs
  <2> SUFFICES ASSUME IInv, Next, Root \in settled, allocs' # allocs PROVE FALSE
    OBVIOUS
  <2>1. /\ stack \in Seq(Nodes) /\ SettledCallsSettled /\ BottomCall
        /\ built = plan.size /\ plan.size \in Nat
    BY PlanFacts DEF IInv, TypeOK, RootBuilt
  <2>2. stack # <<>> /\ Top \notin settled
    BY <2>1, AllocSteps DEF AllocStep, spillVars
  <2>3. stack[1] = Root
    BY <2>1, <2>2 DEF BottomCall
  <2>4. PICK k \in Nat : k = Len(stack) /\ DOMAIN stack = 1 .. k /\ Top = stack[k]
    BY <2>1 DEF Top
  <2>5. 1 \in 1 .. k /\ k \in 1 .. k /\ (k = 1 \/ 1 < k)
    BY <2>1, <2>2, <2>4
  <2> QED
    BY <2>1, <2>2, <2>3, <2>4, <2>5, Zenon DEF SettledCallsSettled
<1>2. IInv /\ [Next]_vars => [(Root \in settled) => UNCHANGED allocs]_vars
  BY <1>1 DEF vars
<1> QED
  BY <1>2, Invariance, PTL DEF Spec, NoAllocationAfterFirstRow
-----------------------------------------------------------------------------
(* What follows from the promise of Operator::next (ResultStream) for the    *)
(* caller of the root who collects the rows: they are in order, none comes   *)
(* twice, and at None all of them have come.  It holds of every operator     *)
(* that implements ResultStream, whatever its rows and its order are.        *)
CONSTANTS Results, Precedes(_, _)
VARIABLES owed, emitted, ended

Stream == INSTANCE ResultStream

\* The rows returned so far.
Returned == {emitted[i] : i \in DOMAIN emitted}

CollectedTypeOK ==
    /\ owed \in SUBSET Results
    /\ emitted \in Seq(Results)
    /\ ended \in BOOLEAN

\* No row is returned after one that it should have preceded.
InOrder ==
    \A i, j \in DOMAIN emitted : i < j => ~Precedes(emitted[j], emitted[i])

\* No row is returned twice.
NoDuplicates ==
    \A i, j \in DOMAIN emitted : i # j => emitted[i] # emitted[j]

\* A row that is still owed follows what was returned, and is not part of it.
OwedComesLater ==
    \A row \in owed, i \in DOMAIN emitted :
        row # emitted[i] /\ ~Precedes(row, emitted[i])

\* None is returned only when nothing is owed.
CompleteAtEnd == ended => owed = {}

CollectedIInv == CollectedTypeOK /\ InOrder /\ NoDuplicates /\ OwedComesLater /\ CompleteAtEnd
-----------------------------------------------------------------------------
\* The invariant of the collected rows is inductive.
LEMMA StreamInvariance == Stream!Spec => []CollectedIInv
<1>1. Stream!Init => CollectedIInv
  <2> SUFFICES ASSUME Stream!Init PROVE CollectedIInv
    OBVIOUS
  <2>1. CollectedTypeOK
    <3>1. owed \in SUBSET Results /\ ended \in BOOLEAN
      BY Zenon DEF Stream!Init
    <3>2. emitted \in Seq(Results)
      BY DEF Stream!Init
    <3> QED
      BY <3>1, <3>2 DEF CollectedTypeOK
  <2>2. InOrder /\ NoDuplicates /\ OwedComesLater
    BY DEF Stream!Init, InOrder, NoDuplicates, OwedComesLater
  <2>3. CompleteAtEnd
    BY Zenon DEF Stream!Init, CompleteAtEnd
  <2> QED
    BY <2>1, <2>2, <2>3 DEF CollectedIInv
<1>2. CollectedIInv /\ [Stream!Next]_Stream!vars => CollectedIInv'
  <2> SUFFICES ASSUME CollectedIInv, [Stream!Next]_Stream!vars PROVE CollectedIInv'
    OBVIOUS
  <2> USE DEF CollectedIInv
  <2>1. CASE UNCHANGED Stream!vars
    BY <2>1 DEF Stream!vars, CollectedTypeOK, InOrder, NoDuplicates, OwedComesLater, CompleteAtEnd
  <2>2. CASE Stream!Finish
    BY <2>2 DEF Stream!Finish, CollectedTypeOK, InOrder, NoDuplicates, OwedComesLater, CompleteAtEnd
  <2>3. ASSUME NEW row \in owed, Stream!Emit(row) PROVE CollectedIInv'
    <3>1. /\ ~ended /\ ended' = ended /\ owed' = owed \ {row} /\ row \in Results
          /\ \A other \in owed : ~Precedes(other, row)
          /\ emitted' = Append(emitted, row) /\ emitted \in Seq(Results)
      BY <2>3 DEF Stream!Emit, CollectedTypeOK
    <3>2. PICK n \in Nat : n = Len(emitted) /\ DOMAIN emitted = 1 .. n
      BY <3>1
    <3>3. /\ DOMAIN emitted' = 1 .. n + 1 /\ emitted'[n + 1] = row
          /\ \A i \in 1 .. n : emitted'[i] = emitted[i]
      BY <3>1, <3>2
    <3>4. CollectedTypeOK'
      BY <3>1 DEF CollectedTypeOK
    <3>5. \A i \in 1 .. n : row # emitted[i] /\ ~Precedes(row, emitted[i])
      BY <3>2 DEF OwedComesLater
    <3>6. InOrder'
      BY <3>2, <3>3, <3>5 DEF InOrder
    <3>7. NoDuplicates'
      BY <3>2, <3>3, <3>5 DEF NoDuplicates
    <3>8. OwedComesLater'
      BY <3>1, <3>2, <3>3 DEF OwedComesLater
    <3>9. CompleteAtEnd'
      BY <3>1 DEF CompleteAtEnd
    <3> QED
      BY <3>4, <3>6, <3>7, <3>8, <3>9
  <2> QED
    BY <2>1, <2>2, <2>3 DEF Stream!Next
<1> QED
  BY <1>1, <1>2, PTL DEF Stream!Spec

\* The rows come in the order promised: what ORDER BY asks of a sort.
THEOREM StreamInOrder == Stream!Spec => []InOrder
  BY StreamInvariance, PTL DEF CollectedIInv

\* No row comes twice.
THEOREM StreamNoDuplicates == Stream!Spec => []NoDuplicates
  BY StreamInvariance, PTL DEF CollectedIInv

\* When None comes, the rows returned are all the rows of the result.
THEOREM StreamComplete ==
    ASSUME NEW R
    PROVE  (owed = R) /\ Stream!Spec => [](ended => Returned = R)
<1>1. CollectedIInv /\ owed \cup Returned = R /\ [Stream!Next]_Stream!vars
          => (owed \cup Returned = R)'
  <2> SUFFICES ASSUME CollectedIInv, owed \cup Returned = R, [Stream!Next]_Stream!vars
               PROVE  owed' \cup Returned' = R
    OBVIOUS
  <2>1. CASE UNCHANGED Stream!vars \/ Stream!Finish
    BY <2>1 DEF Stream!vars, Stream!Finish, Returned
  <2>2. ASSUME NEW row \in owed, Stream!Emit(row) PROVE owed' \cup Returned' = R
    <3>1. /\ owed' = owed \ {row} /\ emitted' = Append(emitted, row)
          /\ emitted \in Seq(Results) /\ row \in Results
      BY <2>2 DEF Stream!Emit, CollectedIInv, CollectedTypeOK
    <3>2. PICK n \in Nat : n = Len(emitted) /\ DOMAIN emitted = 1 .. n
      BY <3>1
    <3>3. /\ DOMAIN emitted' = 1 .. n + 1 /\ emitted'[n + 1] = row
          /\ \A i \in 1 .. n : emitted'[i] = emitted[i]
      BY <3>1, <3>2
    <3>4. Returned' = Returned \cup {row}
      <4>1. ASSUME NEW x \in Returned' PROVE x \in Returned \cup {row}
        <5>1. PICK i \in 1 .. n + 1 : x = emitted'[i]
          BY <3>3, <4>1 DEF Returned
        <5>2. i \in 1 .. n \/ i = n + 1
          OBVIOUS
        <5> QED
          BY <3>2, <3>3, <5>1, <5>2 DEF Returned
      <4>2. \A i \in 1 .. n : i \in 1 .. n + 1
        OBVIOUS
      <4>3. Returned \subseteq Returned' /\ row \in Returned'
        BY <3>2, <3>3, <4>2 DEF Returned
      <4> QED
        BY <4>1, <4>3
    <3> QED
      BY <3>1, <3>4
  <2> QED
    BY <2>1, <2>2 DEF Stream!Next
<1>2. owed = R /\ Stream!Init => owed \cup Returned = R
  BY DEF Stream!Init, Returned
<1>3. CollectedIInv /\ owed \cup Returned = R => (ended => Returned = R)
  BY DEF CollectedIInv, CompleteAtEnd
<1> QED
  BY <1>1, <1>2, <1>3, StreamInvariance, PTL DEF Stream!Spec
-----------------------------------------------------------------------------
(* The joins of a query.                                                     *)

\* The tables of a query: their schemas, with columns named by C, and estimates.
JoinedTables(C, schemas, blocks) ==
    /\ schemas \in Seq(Seq(C)) /\ schemas # <<>>
    /\ blocks \in Seq(Nat) /\ Len(blocks) = Len(schemas)

\* An order of k tables in which each is the next one after those before it.
IsGreedy(order, k, schemas, blocks, predicates) ==
    /\ order \in Seq(DOMAIN schemas) /\ Len(order) = k
    /\ order[1] = FirstTable(blocks)
    /\ \A j \in 2 .. k :
           order[j] = NextTable(schemas, blocks, predicates, SubSeq(order, 1, j - 1))
    /\ IsInjective(order)

\* Among numbered things with values there is one with the largest.
LEMMA LargestValue ==
    ASSUME NEW n \in Nat, NEW t \in SUBSET (1 .. n), t # {}, NEW f,
           \A i \in t : f[i] \in Nat
    PROVE  \E i \in t : \A j \in t : f[j] <= f[i]
<1> DEFINE Has(u) == u # {} => \E i \in u : \A j \in u : f[j] <= f[i]
           T == {m \in Nat : \A u \in SUBSET t : u \subseteq 1 .. m => Has(u)}
<1>1. 0 \in T
  <2>1. 1 .. 0 = {}
    OBVIOUS
  <2> QED
    BY <2>1
<1>2. ASSUME NEW m \in Nat, m \in T PROVE m + 1 \in T
  <2>1. ASSUME NEW u \in SUBSET t, u \subseteq 1 .. m + 1, u # {}
        PROVE  \E i \in u : \A j \in u : f[j] <= f[i]
    <3> DEFINE v == u \ {m + 1}
    <3>1. v \subseteq 1 .. m /\ v \in SUBSET t
      BY <2>1
    <3>2. Has(v)
      BY <1>2, <3>1
    <3>3. CASE v = {}
      <4>1. u = {m + 1}
        BY <2>1, <3>3
      <4>2. f[m + 1] \in Nat
        BY <4>1
      <4> QED
        BY <4>1, <4>2
    <3>4. CASE v # {}
      <4>1. PICK i \in v : \A j \in v : f[j] <= f[i]
        BY <3>2, <3>4
      <4>2. CASE m + 1 \in u
        <5>1. f[m + 1] \in Nat /\ f[i] \in Nat /\ \A j \in v : f[j] \in Nat
          BY <4>1, <4>2
        <5>2. CASE f[m + 1] <= f[i]
          BY <4>1, <5>2
        <5>3. CASE ~(f[m + 1] <= f[i])
          <6>1. \A j \in u : f[j] <= f[m + 1]
            BY <4>1, <5>1, <5>3
          <6> QED
            BY <4>2, <6>1
        <5> QED
          BY <5>2, <5>3
      <4>3. CASE m + 1 \notin u
        BY <4>1, <4>3
      <4> QED
        BY <4>2, <4>3
    <3> QED
      BY <3>3, <3>4
  <2> QED
    BY <2>1
<1> HIDE DEF T
<1>3. n \in T
  BY <1>1, <1>2, SetInduction
<1> QED
  BY <1>3 DEF T

\* The schema of an order, and of one table more.
LEMMA CombinedFacts ==
    ASSUME NEW C, NEW schemas \in Seq(Seq(C)), NEW order \in Seq(DOMAIN schemas),
           NEW i \in DOMAIN schemas
    PROVE  /\ Combined(schemas, order) \in Seq(C)
           /\ Combined(schemas, Append(order, i)) = Combined(schemas, order) \o schemas[i]
           /\ \A name : name \in Names(Combined(schemas, order)) <=>
                            \E k \in DOMAIN order : name \in Names(schemas[order[k]])
<1> DEFINE t(o) == [k \in DOMAIN o |-> schemas[o[k]]]
<1>1. \A k \in DOMAIN schemas : schemas[k] \in Seq(C)
  BY ElementOfSeq
<1>2. ASSUME NEW o \in Seq(DOMAIN schemas) PROVE t(o) \in Seq(Seq(C))
  <2>1. \A k \in DOMAIN o : o[k] \in DOMAIN schemas
    BY ElementOfSeq
  <2>2. DOMAIN o = 1 .. Len(o) /\ Len(o) \in Nat
    BY LenProperties
  <2> QED
    BY <1>1, <2>1, <2>2, IsASeq
<1>3. t(order) \in Seq(Seq(C)) /\ schemas[i] \in Seq(C)
  BY <1>1, <1>2
<1>4. t(Append(order, i)) = Append(t(order), schemas[i])
  <2>1. DOMAIN order = 1 .. Len(order) /\ Len(order) \in Nat
    BY LenProperties
  <2>2. /\ Append(order, i) \in Seq(DOMAIN schemas)
        /\ DOMAIN Append(order, i) = 1 .. Len(order) + 1
        /\ \A k \in 1 .. Len(order) : Append(order, i)[k] = order[k]
        /\ Append(order, i)[Len(order) + 1] = i
    BY AppendProperties
  <2>3. /\ DOMAIN Append(t(order), schemas[i]) = 1 .. Len(order) + 1
        /\ \A k \in 1 .. Len(order) : Append(t(order), schemas[i])[k] = schemas[order[k]]
        /\ Append(t(order), schemas[i])[Len(order) + 1] = schemas[i]
    BY <1>3, <2>1, AppendProperties
  <2>4. t(Append(order, i)) \in Seq(Seq(C)) /\ Append(t(order), schemas[i]) \in Seq(Seq(C))
    BY <1>2, <1>3, <2>2
  <2> DEFINE a == t(Append(order, i))   b == Append(t(order), schemas[i])
  <2>5. Len(a) = Len(order) + 1 /\ Len(b) = Len(order) + 1
    BY <2>1, <2>2, <2>3
  <2>7. \A k \in 1 .. Len(order) + 1 : a[k] = b[k]
    BY <2>1, <2>2, <2>3
  <2> HIDE DEF a, b
  <2>6. a = b
    BY <2>4, <2>5, <2>7, SeqEqual DEF a, b
  <2> QED
    BY <2>6 DEF a, b
<1>5. FlattenSeq(t(order)) \in Seq(C)
      /\ FlattenSeq(Append(t(order), schemas[i])) = FlattenSeq(t(order)) \o schemas[i]
  BY <1>3, FlattenAppend
<1>6. \A name : name \in ToSet(FlattenSeq(t(order))) <=>
                    \E k \in DOMAIN t(order) : name \in ToSet(t(order)[k])
  BY <1>3, FlattenRows, Zenon
<1> QED
  BY <1>4, <1>5, <1>6 DEF Combined, Names

\* The position of a column is a position, and the column is there.
LEMMA PositionFacts ==
    ASSUME NEW C, NEW schema \in Seq(C), NEW name \in Names(schema)
    PROVE  /\ Position(schema, name) \in 1 .. Len(schema)
           /\ schema[Position(schema, name)] = name
           /\ \A i \in 1 .. Len(schema) : schema[i] = name => Position(schema, name) <= i
<1> DEFINE T == {i \in DOMAIN schema : schema[i] = name}
<1>1. DOMAIN schema = 1 .. Len(schema) /\ Len(schema) \in Nat
  BY LenProperties
<1>2. T # {} /\ T \subseteq Nat
  BY <1>1 DEF Names, ToSet
<1>3. PICK i \in T : \A j \in T : i <= j
  BY <1>2, LeastNumber
<1>4. Min(T) \in T /\ \A j \in T : Min(T) <= j
  BY <1>3, Zenon DEF Min
<1> QED
  BY <1>1, <1>4 DEF Position

\* The first of two schemas is looked up first.
LEMMA PositionInConcat ==
    ASSUME NEW C, NEW left \in Seq(C), NEW right \in Seq(C), NEW name
    PROVE  /\ Names(left \o right) = Names(left) \cup Names(right)
           /\ name \in Names(left) => Position(left \o right, name) = Position(left, name)
           /\ name \in Names(right) \ Names(left) =>
                  Position(left \o right, name) = Len(left) + Position(right, name)
<1> DEFINE both == left \o right
<1>1. Names(both) = Names(left) \cup Names(right)
  BY ToSetConcat DEF Names
<1>2. /\ both \in Seq(C) /\ Len(both) = Len(left) + Len(right)
      /\ \A i \in 1 .. Len(left) + Len(right) :
             both[i] = IF i <= Len(left) THEN left[i] ELSE right[i - Len(left)]
      /\ Len(left) \in Nat /\ Len(right) \in Nat
  BY ConcatProperties, LenProperties
<1> HIDE DEF both
<1>3. ASSUME name \in Names(left)
      PROVE  Position(both, name) = Position(left, name)
  <2>1. name \in Names(both)
    BY <1>1, <1>3
  <2> DEFINE p == Position(both, name)   q == Position(left, name)
  <2>2. /\ p \in 1 .. Len(both) /\ both[p] = name
        /\ \A i \in 1 .. Len(both) : both[i] = name => p <= i
    BY <1>2, <2>1, PositionFacts
  <2>3. /\ q \in 1 .. Len(left) /\ left[q] = name
        /\ \A i \in 1 .. Len(left) : left[i] = name => q <= i
    BY <1>3, PositionFacts
  <2> HIDE DEF p, q
  <2>4. both[q] = name /\ q \in 1 .. Len(both)
    BY <1>2, <2>3
  <2>5. p <= q
    BY <2>2, <2>4
  <2>6. left[p] = name /\ p \in 1 .. Len(left)
    BY <1>2, <2>2, <2>3, <2>5
  <2>7. q <= p
    BY <2>3, <2>6
  <2>8. p = q
    BY <2>2, <2>3, <2>5, <2>7
  <2> QED
    BY <2>8 DEF p, q
<1>4. ASSUME name \in Names(right), name \notin Names(left)
      PROVE  Position(both, name) = Len(left) + Position(right, name)
  <2>1. name \in Names(both)
    BY <1>1, <1>4
  <2> DEFINE p == Position(both, name)   q == Position(right, name)
  <2>2. /\ p \in 1 .. Len(both) /\ both[p] = name
        /\ \A i \in 1 .. Len(both) : both[i] = name => p <= i
    BY <1>2, <2>1, PositionFacts
  <2>3. /\ q \in 1 .. Len(right) /\ right[q] = name
        /\ \A i \in 1 .. Len(right) : right[i] = name => q <= i
    BY <1>4, PositionFacts
  <2>n. \A i \in 1 .. Len(left) : left[i] # name
    BY <1>4, LenProperties DEF Names, ToSet
  <2> HIDE DEF p, q
  <2>4. both[Len(left) + q] = name /\ Len(left) + q \in 1 .. Len(both)
    <3>1. PICK j \in Int : j = Len(left) + q
      BY <1>2, <2>3
    <3>2. j \in 1 .. Len(both) /\ ~(j <= Len(left)) /\ j - Len(left) = q
      BY <1>2, <2>3, <3>1
    <3>3. both[j] = right[q]
      BY <1>2, <3>2
    <3> QED
      BY <2>3, <3>1, <3>2, <3>3
  <2>5. p <= Len(left) + q
    BY <2>2, <2>4
  <2>6. ~(p <= Len(left))
    BY <1>2, <2>2, <2>n
  <2>7. p - Len(left) \in 1 .. Len(right) /\ right[p - Len(left)] = name
    BY <1>2, <2>2, <2>6
  <2>8. q <= p - Len(left)
    BY <2>3, <2>7
  <2>9. p = Len(left) + q
    <3>1. p \in Int /\ q \in Int
      BY <2>2, <2>3
    <3> QED
      BY <1>2, <3>1, <2>5, <2>8
  <2> QED
    BY <2>9 DEF p, q
<1> QED
  BY <1>1, <1>3, <1>4 DEF both

\* A join has the keys its predicates contribute, and no others.
LEMMA KeysAre ==
    ASSUME NEW P, NEW predicates \in Seq(P), NEW left, NEW right
    PROVE  /\ \E R : equi_join_keys(predicates, left, right) \in Seq(R)
           /\ \A key : key \in ToSet(equi_join_keys(predicates, left, right)) <=>
                           \E i \in DOMAIN predicates :
                               KeyOf(predicates[i], left, right) = <<key>>
<1> DEFINE key_of(i) == KeyOf(predicates[i], left, right)
           R == UNION {ToSet(key_of(i)) : i \in DOMAIN predicates}
           t == [i \in DOMAIN predicates |-> key_of(i)]
<1>1. \A i \in DOMAIN predicates : key_of(i) = <<>> \/ \E key : key_of(i) = <<key>>
  BY DEF KeyOf
<1>2. ASSUME NEW key PROVE ToSet(<<key>>) = {key} /\ ToSet(<<>>) = {}
  BY DEF ToSet
<1> HIDE DEF key_of
<1>3. \A i \in DOMAIN predicates : key_of(i) \in Seq(R)
  <2> SUFFICES ASSUME NEW i \in DOMAIN predicates PROVE key_of(i) \in Seq(R)
    OBVIOUS
  <2>1. CASE key_of(i) = <<>>
    BY <2>1
  <2>2. ASSUME NEW key, key_of(i) = <<key>> PROVE key_of(i) \in Seq(R)
    <3>1. key \in R
      BY <1>2, <2>2
    <3> HIDE DEF R
    <3> QED
      BY <2>2, <3>1
  <2> QED
    BY <1>1, <2>1, <2>2
<1> HIDE DEF R
<1>4. t \in Seq(Seq(R)) /\ DOMAIN t = DOMAIN predicates
  BY <1>3, LenProperties, IsASeq
<1>5. FlattenSeq(t) \in Seq(R)
  BY <1>4, FlattenAppend, EmptySeq
<1>6. \A key : key \in ToSet(FlattenSeq(t)) <=> \E i \in DOMAIN t : key \in ToSet(t[i])
  BY <1>4, FlattenRows, Zenon
<1>7. \A key : \A i \in DOMAIN predicates : key \in ToSet(t[i]) <=> key_of(i) = <<key>>
  BY <1>1, <1>2
<1>8. equi_join_keys(predicates, left, right) = FlattenSeq(t)
  BY DEF equi_join_keys, key_of
<1> QED
  BY <1>4, <1>5, <1>6, <1>7, <1>8 DEF key_of

\* A join of two sides without common columns: its keys and the predicates
\* left to be applied enforce the predicates whose columns are there.
LEMMA JoinEnforces ==
    ASSUME NEW C, NEW P, NEW predicates \in Seq(P), NEW row,
           NEW left \in Seq(C), NEW right \in Seq(C), Names(left) \cap Names(right) = {}
    PROVE  LET keys == equi_join_keys(predicates, left, right)
           IN  /\ KeysMatch(row, left, keys)
               /\ \A i \in DOMAIN predicates : Residual(predicates[i], left, right, keys) =>
                      evaluate_predicate(row, left \o right, predicates[i])
               <=> \A i \in DOMAIN predicates : Satisfiable(predicates[i], left \o right) =>
                       evaluate_predicate(row, left \o right, predicates[i])
<1> DEFINE keys == equi_join_keys(predicates, left, right)
           both == left \o right
           holds(p) == evaluate_predicate(row, both, p)
           equal(key) == row[key[1]] = row[Len(left) + key[2]]
           key_of(p) == KeyOf(p, left, right)
<1>1. PICK R : keys \in Seq(R)
  BY KeysAre, Zenon
<1>2. \A key : key \in ToSet(keys) <=> \E i \in DOMAIN predicates : key_of(predicates[i]) = <<key>>
  BY KeysAre
<1>n. \A name : /\ name \in Names(both) <=> name \in Names(left) \/ name \in Names(right)
                /\ name \in Names(left) => Position(both, name) = Position(left, name)
                /\ name \in Names(right) => Position(both, name) = Len(left) + Position(right, name)
  BY PositionInConcat
<1>p. /\ \A name \in Names(left) : left[Position(left, name)] = name
      /\ \A name \in Names(right) : right[Position(right, name)] = name
  BY PositionFacts
\* What a key of a predicate says.
<1>3. ASSUME NEW p, NEW key, key_of(p) = <<key>>
      PROVE  /\ p.operator = "EQ" /\ p.on = "Column" /\ Satisfiable(p, both)
             /\ holds(p) <=> equal(key)
             /\ \/ left[key[1]] = p.column /\ right[key[2]] = p.value
                \/ left[key[1]] = p.value /\ right[key[2]] = p.column
  <2>1. p.operator = "EQ" /\ p.on = "Column"
    BY <1>3 DEF KeyOf
  <2>2. holds(p) <=> row[Position(both, p.column)] = row[Position(both, p.value)]
    BY <2>1 DEF evaluate_predicate, Compare
  <2>3. CASE p.column \in Names(left) /\ p.value \in Names(right)
    <3>1. key = <<Position(left, p.column), Position(right, p.value)>>
      BY <1>3, <2>1, <2>3 DEF KeyOf
    <3>2. key[1] = Position(left, p.column) /\ key[2] = Position(right, p.value)
      BY <3>1
    <3> HIDE DEF both, holds
    <3>3. Satisfiable(p, both)
      BY <1>n, <2>3 DEF Satisfiable
    <3>4. /\ Position(both, p.column) = key[1]
          /\ Position(both, p.value) = Len(left) + key[2]
      BY <1>n, <2>3, <3>2
    <3>5. left[key[1]] = p.column /\ right[key[2]] = p.value
      BY <1>p, <2>3, <3>2
    <3> QED
      BY <2>1, <2>2, <3>3, <3>4, <3>5
  <2>4. CASE ~(p.column \in Names(left) /\ p.value \in Names(right))
    <3>1. /\ key = <<Position(left, p.value), Position(right, p.column)>>
          /\ p.value \in Names(left) /\ p.column \in Names(right)
      BY <1>3, <2>1, <2>4 DEF KeyOf
    <3>2. key[1] = Position(left, p.value) /\ key[2] = Position(right, p.column)
      BY <3>1
    <3> HIDE DEF both, holds
    <3>3. Satisfiable(p, both)
      BY <1>n, <3>1 DEF Satisfiable
    <3>4. /\ Position(both, p.value) = key[1]
          /\ Position(both, p.column) = Len(left) + key[2]
      BY <1>n, <3>1, <3>2
    <3>5. left[key[1]] = p.value /\ right[key[2]] = p.column
      BY <1>p, <3>1, <3>2
    <3> QED
      BY <2>1, <2>2, <3>3, <3>4, <3>5
  <2> QED
    BY <2>3, <2>4
<1>4. KeysMatch(row, left, keys) <=> \A key \in ToSet(keys) : equal(key)
  BY DEF KeysMatch, ToSet
<1>5. ASSUME NEW p
      PROVE  WasJoinKey(p, left, right, keys) <=>
                 /\ p.operator = "EQ" /\ p.on = "Column"
                 /\ \E key \in ToSet(keys) :
                        \/ left[key[1]] = p.column /\ right[key[2]] = p.value
                        \/ left[key[1]] = p.value /\ right[key[2]] = p.column
  <2> HIDE DEF keys
  <2> QED
    BY DEF WasJoinKey, ToSet
<1> HIDE DEF keys, key_of
<1>6. ASSUME KeysMatch(row, left, keys),
             \A i \in DOMAIN predicates : Residual(predicates[i], left, right, keys) =>
                 holds(predicates[i]),
             NEW i \in DOMAIN predicates, Satisfiable(predicates[i], both)
      PROVE  holds(predicates[i])
  <2> DEFINE p == predicates[i]
  <2>1. CASE ~WasJoinKey(p, left, right, keys)
    BY <1>6, <2>1 DEF Residual
  <2>2. CASE WasJoinKey(p, left, right, keys)
    <3>1. PICK key \in ToSet(keys) :
              \/ left[key[1]] = p.column /\ right[key[2]] = p.value
              \/ left[key[1]] = p.value /\ right[key[2]] = p.column
      BY <1>5, <2>2
    <3>2. p.operator = "EQ" /\ p.on = "Column"
      BY <1>5, <2>2
    <3>3. PICK j \in DOMAIN predicates : key_of(predicates[j]) = <<key>>
      BY <1>2, <3>1
    <3> DEFINE q == predicates[j]
    <3>4. /\ \/ left[key[1]] = q.column /\ right[key[2]] = q.value
             \/ left[key[1]] = q.value /\ right[key[2]] = q.column
          /\ holds(q) <=> equal(key)
          /\ q.operator = "EQ" /\ q.on = "Column"
      BY <1>3, <3>3
    <3>5. equal(key)
      BY <1>4, <1>6, <3>1
    <3>6. row[Position(both, q.column)] = row[Position(both, q.value)]
      BY <3>4, <3>5 DEF evaluate_predicate, Compare
    <3>7. row[Position(both, p.column)] = row[Position(both, p.value)]
      <4> HIDE DEF p, q, both
      <4> QED
        BY <3>1, <3>4, <3>6
    <3> QED
      BY <3>2, <3>7 DEF evaluate_predicate, Compare
  <2> QED
    BY <2>1, <2>2
<1>7. ASSUME \A i \in DOMAIN predicates : Satisfiable(predicates[i], both) =>
                 holds(predicates[i])
      PROVE  /\ KeysMatch(row, left, keys)
             /\ \A i \in DOMAIN predicates : Residual(predicates[i], left, right, keys) =>
                    holds(predicates[i])
  <2>1. ASSUME NEW key \in ToSet(keys) PROVE equal(key)
    <3>1. PICK j \in DOMAIN predicates : key_of(predicates[j]) = <<key>>
      BY <1>2, <2>1
    <3>2. Satisfiable(predicates[j], both) /\ (holds(predicates[j]) <=> equal(key))
      BY <1>3, <3>1
    <3> HIDE DEF both, holds, equal
    <3> QED
      BY <1>7, <3>2
  <2>2. KeysMatch(row, left, keys)
    BY <1>4, <2>1
  <2> QED
    BY <1>7, <2>2 DEF Residual
<1> QED
  BY <1>6, <1>7 DEF keys

\* The number of keys is a number, and the last of the best tables is one.
LEMMA NextFacts ==
    ASSUME NEW C, NEW schemas, NEW blocks, JoinedTables(C, schemas, blocks),
           NEW P, NEW predicates \in Seq(P), NEW order,
           DOMAIN schemas \ ToSet(order) # {}
    PROVE  LET next == NextTable(schemas, blocks, predicates, order)
               key_count(i) == Len(equi_join_keys(predicates, Combined(schemas, order),
                                                  schemas[i]))
           IN  /\ next \in DOMAIN schemas \ ToSet(order)
               /\ \A i \in DOMAIN schemas \ ToSet(order) : key_count(i) <= key_count(next)
<1> DEFINE remaining == DOMAIN schemas \ ToSet(order)
           combined == Combined(schemas, order)
           key_count(i) == Len(equi_join_keys(predicates, combined, schemas[i]))
           better(i, j) == Better(schemas, blocks, predicates, combined, i, j)
           Best == {i \in remaining : \A j \in remaining : ~better(j, i)}
<1>1. \A i \in remaining : key_count(i) \in Nat
  <2> SUFFICES ASSUME NEW i \in remaining PROVE key_count(i) \in Nat
    OBVIOUS
  <2> DEFINE keys == equi_join_keys(predicates, combined, schemas[i])
  <2>1. PICK R : keys \in Seq(R)
    BY KeysAre, Zenon
  <2> HIDE DEF keys
  <2>2. Len(keys) \in Nat
    BY <2>1, LenProperties
  <2> QED
    BY <2>2 DEF keys
<1>2. /\ DOMAIN schemas = 1 .. Len(schemas) /\ Len(schemas) \in Nat
      /\ DOMAIN blocks = DOMAIN schemas
      /\ \A i \in DOMAIN schemas : blocks[i] \in Nat
  BY LenProperties DEF JoinedTables
<1>3. \A i, j : better(i, j) <=> \/ key_count(i) > key_count(j)
                                 \/ key_count(i) = key_count(j) /\ blocks[i] > blocks[j]
  BY DEF Better
<1>4. remaining \in SUBSET (1 .. Len(schemas)) /\ remaining # {}
  BY <1>2
<1> HIDE DEF remaining, key_count, better
<1>5. PICK m \in remaining : \A j \in remaining : key_count(j) <= key_count(m)
  <2> DEFINE f == [i \in remaining |-> key_count(i)]
  <2>1. \A i \in remaining : f[i] \in Nat /\ f[i] = key_count(i)
    BY <1>1
  <2> HIDE DEF f
  <2>2. \E i \in remaining : \A j \in remaining : f[j] <= f[i]
    BY <1>2, <1>4, <2>1, LargestValue
  <2> QED
    BY <2>1, <2>2
<1>6. PICK b \in remaining :
          /\ key_count(b) = key_count(m)
          /\ \A j \in remaining : key_count(j) = key_count(m) => blocks[j] <= blocks[b]
  <2> DEFINE most == {i \in remaining : key_count(i) = key_count(m)}
  <2>1. most \in SUBSET (1 .. Len(schemas)) /\ most # {} /\ \A i \in most : blocks[i] \in Nat
    BY <1>2, <1>4
  <2> HIDE DEF most
  <2>2. \E i \in most : \A j \in most : blocks[j] <= blocks[i]
    BY <1>2, <2>1, LargestValue
  <2> QED
    BY <2>2 DEF most
<1>7. b \in Best
  <2> SUFFICES ASSUME NEW j \in remaining PROVE ~better(j, b)
    OBVIOUS
  <2>1. key_count(j) <= key_count(b) /\ (key_count(j) = key_count(b) => blocks[j] <= blocks[b])
    BY <1>5, <1>6
  <2>2. blocks[j] \in Nat /\ blocks[b] \in Nat
    BY <1>2, <1>4
  <2> QED
    BY <1>1, <1>3, <2>1, <2>2
<1>8. Max(Best) \in Best
  <2>1. Best \in SUBSET (1 .. Len(schemas)) /\ Best # {}
    BY <1>4, <1>7
  <2> HIDE DEF Best
  <2> QED
    BY <1>2, <2>1, MaxOfPositions
<1>9. \A i \in Best : \A j \in remaining : key_count(j) <= key_count(i)
  <2> SUFFICES ASSUME NEW i \in Best, NEW j \in remaining PROVE key_count(j) <= key_count(i)
    OBVIOUS
  <2> QED
    BY <1>1, <1>3
<1>10. NextTable(schemas, blocks, predicates, order) = Max(Best)
  BY DEF NextTable, remaining, better
<1> HIDE DEF Best
<1>11. Max(Best) \in remaining
  BY <1>8 DEF Best
<1> QED
  BY <1>8, <1>9, <1>10, <1>11 DEF remaining, key_count

\* The first table is a largest one.
LEMMA FirstFacts ==
    ASSUME NEW C, NEW schemas, NEW blocks, JoinedTables(C, schemas, blocks)
    PROVE  /\ FirstTable(blocks) \in DOMAIN schemas
           /\ \A j \in DOMAIN schemas : blocks[j] <= blocks[FirstTable(blocks)]
<1> DEFINE n == Len(schemas)
           First == {i \in 1 .. n : \A j \in 1 .. n : blocks[i] >= blocks[j]}
<1>1. /\ DOMAIN schemas = 1 .. n /\ n \in Nat /\ n # 0 /\ DOMAIN blocks = 1 .. n
      /\ \A i \in 1 .. n : blocks[i] \in Nat
  BY LenProperties, EmptySeq DEF JoinedTables
<1> HIDE DEF n
<1>2. 1 .. n \in SUBSET (1 .. n) /\ 1 .. n # {}
  <2>1. 1 \in 1 .. n
    BY <1>1
  <2> QED
    BY <2>1
<1>3. PICK b \in 1 .. n : \A j \in 1 .. n : blocks[j] <= blocks[b]
  <2> DEFINE t == 1 .. n
  <2>1. t \in SUBSET (1 .. n) /\ t # {} /\ \A i \in t : blocks[i] \in Nat
    BY <1>1, <1>2
  <2> HIDE DEF t
  <2>2. \E i \in t : \A j \in t : blocks[j] <= blocks[i]
    BY <1>1, <2>1, LargestValue
  <2> QED
    BY <2>2 DEF t
<1>4. b \in First
  BY <1>1, <1>3
<1>5. Max(First) \in First
  <2>1. First \in SUBSET (1 .. n) /\ First # {}
    BY <1>4
  <2> HIDE DEF First
  <2> QED
    BY <1>1, <2>1, MaxOfPositions
<1>6. FirstTable(blocks) = Max(First)
  BY <1>1 DEF FirstTable
<1>7. \A i \in First : \A j \in 1 .. n : blocks[j] <= blocks[i]
  BY <1>1
<1> HIDE DEF First
<1>8. Max(First) \in 1 .. n
  BY <1>5 DEF First
<1> QED
  BY <1>1, <1>5, <1>6, <1>7, <1>8

IsOrders(g, n, schemas, blocks, predicates) ==
    g = [k \in 1 .. n |-> IF k = 1 THEN <<FirstTable(blocks)>>
                          ELSE Extended(schemas, blocks, predicates, g[k - 1])]

\* The recursive function that JoinOrder is defined by exists.
LEMMA OrdersExist ==
    ASSUME NEW schemas, NEW blocks, NEW predicates, Len(schemas) \in Nat \ {0}
    PROVE  \E g : /\ IsOrders(g, Len(schemas), schemas, blocks, predicates)
                  /\ JoinOrder(schemas, blocks, predicates) = g[Len(schemas)]
<1> DEFINE n == Len(schemas)
           next(order) == Extended(schemas, blocks, predicates, order)
           first == <<FirstTable(blocks)>>
           Body(g, m) == [k \in 1 .. m |-> IF k = 1 THEN first ELSE next(g[k - 1])]
           T == {m \in Nat : \E g : g = Body(g, m)}
<1> HIDE DEF next, first
<1>1. 0 \in T
  <2> DEFINE e == [k \in 1 .. 0 |-> first]
  <2>1. e = Body(e, 0)
    OBVIOUS
  <2> QED
    BY <2>1
<1>2. ASSUME NEW m \in Nat, m \in T PROVE m + 1 \in T
  <2>1. PICK g : g = Body(g, m)
    BY <1>2
  <2> DEFINE h == [k \in 1 .. m + 1 |->
                      IF k \in 1 .. m THEN g[k] ELSE IF m = 0 THEN first ELSE next(g[m])]
  <2>2. /\ \A k \in 1 .. m : h[k] = g[k]
        /\ h[m + 1] = IF m = 0 THEN first ELSE next(g[m])
        /\ h = [k \in 1 .. m + 1 |-> h[k]]
    OBVIOUS
  <2> HIDE DEF h
  <2>3. ASSUME NEW k \in 1 .. m + 1
        PROVE  h[k] = IF k = 1 THEN first ELSE next(h[k - 1])
    <3>1. CASE k \in 1 .. m
      <4>1. g[k] = IF k = 1 THEN first ELSE next(g[k - 1])
        BY <2>1, <3>1
      <4>2. k # 1 => k - 1 \in 1 .. m
        BY <3>1
      <4> QED
        BY <2>2, <3>1, <4>1, <4>2
    <3>2. CASE k = m + 1
      <4>1. k - 1 = m /\ (m # 0 => m \in 1 .. m) /\ (k = 1 <=> m = 0)
        BY <3>2
      <4> QED
        BY <2>2, <3>2, <4>1
    <3> QED
      BY <3>1, <3>2
  <2>4. h = Body(h, m + 1)
    BY <2>2, <2>3
  <2>5. m + 1 \in Nat
    OBVIOUS
  <2> QED
    BY <2>4, <2>5
<1> HIDE DEF T
<1>3. n \in T
  BY <1>1, <1>2, SetInduction
<1> DEFINE order == CHOOSE g : g = Body(g, n)
<1>4. \E g : g = Body(g, n)
  BY <1>3 DEF T
<1>5. order = Body(order, n)
  BY <1>4, Zenon
<1>6. JoinOrder(schemas, blocks, predicates) = order[n]
  BY Zenon DEF JoinOrder, next, first
<1> HIDE DEF order
<1>7. IsOrders(order, n, schemas, blocks, predicates)
  BY <1>5 DEF IsOrders, next, first
<1> QED
  BY <1>6, <1>7

LEMMA CountUpTo ==
    ASSUME NEW n \in Nat
    PROVE  IsFiniteSet(1 .. n) /\ Cardinality(1 .. n) = n
<1>1. /\ IsFiniteSet(1 .. n)
      /\ Cardinality(1 .. n) = IF 1 > n THEN 0 ELSE n - 1 + 1
  <2>1. 1 \in Int /\ n \in Int
    OBVIOUS
  <2> QED
    BY ONLY <2>1, FS_Interval
<1>2. (1 > n => n = 0) /\ n - 1 + 1 = n
  OBVIOUS
<1> QED
  BY <1>1, <1>2

\* More things than values: two have the same.
LEMMA TwoAlike ==
    ASSUME NEW n \in Nat, NEW k \in Nat, k < n, NEW f \in [1 .. n -> 1 .. k]
    PROVE  \E x, y \in 1 .. n : x # y /\ f[x] = f[y]
<1> DEFINE S == 1 .. n   T == 1 .. k
<1>1. IsFiniteSet(S) /\ IsFiniteSet(T) /\ f \in [S -> T]
  BY CountUpTo
<1>2. Cardinality(T) < Cardinality(S)
  BY CountUpTo
<1> HIDE DEF S, T
<1>3. \E x, y \in S : x # y /\ f[x] = f[y]
  BY <1>1, <1>2, FS_PigeonHole, Zenon
<1> QED
  BY <1>3 DEF S

\* An order that is too short leaves a table.
LEMMA OrderLeaves ==
    ASSUME NEW n \in Nat, NEW order \in Seq(1 .. n), Len(order) < n
    PROVE  1 .. n \ ToSet(order) # {}
<1> SUFFICES ASSUME 1 .. n \ ToSet(order) = {} PROVE FALSE
  OBVIOUS
<1> DEFINE k == Len(order)
           h == [i \in 1 .. n |-> CHOOSE j \in 1 .. k : order[j] = i]
<1>1. k \in Nat /\ DOMAIN order = 1 .. k
  BY LenProperties
<1>2. \A i \in 1 .. n : h[i] \in 1 .. k /\ order[h[i]] = i
  <2> SUFFICES ASSUME NEW i \in 1 .. n PROVE h[i] \in 1 .. k /\ order[h[i]] = i
    OBVIOUS
  <2>1. \E j \in 1 .. k : order[j] = i
    BY <1>1 DEF ToSet
  <2> QED
    BY <2>1
<1>3. h \in [1 .. n -> 1 .. k]
  BY <1>2
<1> HIDE DEF h
<1>4. /\ IsFiniteSet(1 .. n) /\ Cardinality(1 .. n) = n
      /\ IsFiniteSet(1 .. k) /\ Cardinality(1 .. k) = k
  BY <1>1, CountUpTo
<1>5. PICK x, y \in 1 .. n : x # y /\ h[x] = h[y]
  BY <1>1, <1>3, TwoAlike
<1> QED
  BY <1>2, <1>5

\* An order without repetitions that is long enough leaves none.
LEMMA OrderCovers ==
    ASSUME NEW n \in Nat, NEW order \in Seq(1 .. n), Len(order) = n, IsInjective(order)
    PROVE  ToSet(order) = 1 .. n
<1>1. ToSet(order) \subseteq 1 .. n /\ DOMAIN order = 1 .. n /\ order \in [1 .. n -> 1 .. n]
  BY LenProperties DEF ToSet
<1>2. ASSUME NEW i \in 1 .. n, i \notin ToSet(order) PROVE FALSE
  <2> DEFINE S == 1 .. n
             T == S \ {i}
  <2>1. /\ IsFiniteSet(S) /\ Cardinality(S) = n
        /\ IsFiniteSet(T) /\ Cardinality(T) = n - 1
    <3>1. IsFiniteSet(S) /\ Cardinality(S) = n /\ i \in S
      BY <1>2, CountUpTo
    <3> HIDE DEF S
    <3> QED
      BY <3>1, FS_RemoveElement
  <2>2. order \in [S -> T]
    BY <1>1, <1>2 DEF ToSet
  <2> HIDE DEF S, T
  <2>3. Cardinality(T) < Cardinality(S)
    BY <2>1
  <2>4. PICK x, y \in S : x # y /\ order[x] = order[y]
    BY <2>1, <2>2, <2>3, FS_PigeonHole, Zenon
  <2> QED
    BY <1>1, <2>4 DEF S, IsInjective
<1> QED
  BY <1>1, <1>2

\* The order is greedy, at every table.
LEMMA JoinOrderIsGreedy ==
    ASSUME NEW C, NEW schemas, NEW blocks, JoinedTables(C, schemas, blocks),
           NEW P, NEW predicates \in Seq(P)
    PROVE  IsGreedy(JoinOrder(schemas, blocks, predicates), Len(schemas),
                    schemas, blocks, predicates)
<1> DEFINE n == Len(schemas)
           first == FirstTable(blocks)
           next(order) == NextTable(schemas, blocks, predicates, order)
           greedy(order, k) == IsGreedy(order, k, schemas, blocks, predicates)
<1>1. n \in Nat \ {0} /\ DOMAIN schemas = 1 .. n
  BY LenProperties, EmptySeq DEF JoinedTables
<1>2. PICK g : /\ IsOrders(g, n, schemas, blocks, predicates)
               /\ JoinOrder(schemas, blocks, predicates) = g[n]
  BY <1>1, OrdersExist
<1>3. \A k \in 1 .. n : g[k] = IF k = 1 THEN <<first>> ELSE Append(g[k - 1], next(g[k - 1]))
  BY <1>2, Zenon DEF IsOrders, Extended
<1>4. first \in 1 .. n
  BY <1>1, FirstFacts
<1>5. \A order : 1 .. n \ ToSet(order) # {} => next(order) \in 1 .. n \ ToSet(order)
  BY <1>1, NextFacts
<1>6. \A order, k : greedy(order, k) <=>
          /\ order \in Seq(1 .. n) /\ Len(order) = k
          /\ order[1] = first
          /\ \A j \in 2 .. k : order[j] = next(SubSeq(order, 1, j - 1))
          /\ IsInjective(order)
  BY <1>1 DEF IsGreedy
<1> HIDE DEF n, first, next, greedy
<1> DEFINE T == {m \in Nat : m + 1 <= n => greedy(g[m + 1], m + 1)}
<1>7. 0 \in T
  <2>1. 1 \in 1 .. n /\ g[1] = <<first>>
    BY <1>1, <1>3
  <2>2. <<first>> \in Seq(1 .. n) /\ Len(<<first>>) = 1 /\ <<first>>[1] = first
    BY <1>4
  <2>3. IsInjective(<<first>>)
    BY DEF IsInjective
  <2>4. greedy(<<first>>, 1)
    <3>1. 2 .. 1 = {}
      OBVIOUS
    <3> QED
      BY <1>6, <2>2, <2>3, <3>1
  <2> QED
    BY <2>1, <2>4
<1>8. ASSUME NEW m \in Nat, m \in T PROVE m + 1 \in T
  <2> SUFFICES ASSUME (m + 1) + 1 <= n PROVE greedy(g[(m + 1) + 1], (m + 1) + 1)
    OBVIOUS
  <2>1. PICK k \in Nat : k = m + 1
    OBVIOUS
  <2> DEFINE s == g[k]
  <2>2. greedy(s, k)
    BY <1>1, <1>8, <2>1
  <2>3. g[k + 1] = Append(s, next(s))
    <3>1. k + 1 \in 1 .. n /\ k + 1 # 1 /\ (k + 1) - 1 = k
      BY <1>1, <2>1
    <3> QED
      BY <1>3, <3>1
  <2>4. s \in Seq(1 .. n) /\ Len(s) = k /\ k < n /\ k >= 1
    BY <1>1, <1>6, <2>1, <2>2
  <2> HIDE DEF s
  <2>5. next(s) \in 1 .. n /\ next(s) \notin ToSet(s)
    <3>1. 1 .. n \ ToSet(s) # {}
      BY <1>1, <2>4, OrderLeaves
    <3> QED
      BY <1>5, <3>1
  <2> DEFINE t == Append(s, next(s))
  <2>6. /\ t \in Seq(1 .. n) /\ Len(t) = k + 1
        /\ \A i \in 1 .. k : t[i] = s[i]
        /\ t[k + 1] = next(s)
    BY <2>4, <2>5, AppendProperties
  <2>7. DOMAIN s = 1 .. k /\ DOMAIN t = 1 .. k + 1
    BY <2>4, <2>6, LenProperties
  <2> HIDE DEF t
  <2>8. IsInjective(t)
    <3>1. \A i \in 1 .. k : t[i] # next(s)
      BY <2>5, <2>6, <2>7 DEF ToSet
    <3>2. \A i, j \in 1 .. k : s[i] = s[j] => i = j
      BY <1>6, <2>2, <2>7 DEF IsInjective
    <3>3. \A i \in 1 .. k + 1 : i \in 1 .. k \/ i = k + 1
      BY <2>1
    <3> QED
      BY <2>6, <2>7, <3>1, <3>2, <3>3 DEF IsInjective
  <2>9. \A j \in 1 .. k : SubSeq(t, 1, j) = SubSeq(s, 1, j)
    <3> SUFFICES ASSUME NEW j \in 1 .. k PROVE SubSeq(t, 1, j) = SubSeq(s, 1, j)
      OBVIOUS
    <3>1. \A i \in 1 .. j : t[i] \in 1 .. n /\ s[i] \in 1 .. n /\ t[i] = s[i]
      <4> SUFFICES ASSUME NEW i \in 1 .. j PROVE t[i] \in 1 .. n /\ s[i] \in 1 .. n /\ t[i] = s[i]
        OBVIOUS
      <4>1. i \in 1 .. k
        BY <2>1
      <4>2. t[i] = s[i]
        BY <2>6, <4>1
      <4>3. s[i] \in 1 .. n
        BY <2>4, <4>1, ElementOfSeq
      <4> QED
        BY <4>2, <4>3
    <3> DEFINE a == SubSeq(t, 1, j)   b == SubSeq(s, 1, j)
    <3>2. /\ a \in Seq(1 .. n) /\ Len(a) = j /\ \A i \in 1 .. j : a[i] = t[i]
          /\ b \in Seq(1 .. n) /\ Len(b) = j /\ \A i \in 1 .. j : b[i] = s[i]
      BY <3>1, SubSeqProperties
    <3> HIDE DEF a, b
    <3>3. a = b
      BY <3>1, <3>2, SeqEqual
    <3> QED
      BY <3>3 DEF a, b
  <2>10. ASSUME NEW j \in 2 .. k + 1 PROVE t[j] = next(SubSeq(t, 1, j - 1))
    <3>1. j - 1 \in 1 .. k
      BY <2>1
    <3>2. SubSeq(t, 1, j - 1) = SubSeq(s, 1, j - 1)
      BY <2>9, <3>1
    <3>3. CASE j \in 2 .. k
      <4>1. s[j] = next(SubSeq(s, 1, j - 1))
        BY <1>6, <2>2, <3>3
      <4>2. j \in 1 .. k
        BY <3>3
      <4> QED
        BY <2>6, <3>2, <4>1, <4>2
    <3>4. CASE j = k + 1
      <4>1. SubSeq(s, 1, j - 1) = s
        BY <2>4, <3>4, SubSeqFull
      <4> QED
        BY <2>6, <3>2, <3>4, <4>1
    <3> QED
      BY <2>1, <3>3, <3>4
  <2>11. t[1] = first
    BY <1>6, <2>2, <2>4, <2>6
  <2>12. greedy(t, k + 1)
    BY <1>6, <2>6, <2>8, <2>10, <2>11
  <2> QED
    BY <2>1, <2>3, <2>12 DEF t
<1> HIDE DEF T
<1>9. \A m \in Nat : m \in T
  BY <1>7, <1>8, SetInduction
<1>10. n - 1 \in Nat /\ (n - 1) + 1 = n
  BY <1>1
<1>11. greedy(g[n], n)
  BY <1>9, <1>10 DEF T
<1> QED
  BY <1>2, <1>11 DEF n, greedy

\* The order in which the tables are joined has every table once, and none is
\* larger than the first, which is the one that is never built into memory:
\* the others come to the right sides of the joins (build_join_tree).
THEOREM JoinOrderIsComplete ==
    ASSUME NEW C, NEW schemas, NEW blocks, JoinedTables(C, schemas, blocks),
           NEW P, NEW predicates \in Seq(P)
    PROVE  LET order == JoinOrder(schemas, blocks, predicates)
           IN  /\ order \in Bijection(DOMAIN schemas, DOMAIN schemas)
               /\ \A k \in 2 .. Len(order) :
                      order[k] # order[1] /\ blocks[order[k]] <= blocks[order[1]]
<1> DEFINE order == JoinOrder(schemas, blocks, predicates)
           n == Len(schemas)
<1>1. n \in Nat \ {0} /\ DOMAIN schemas = 1 .. n
  BY LenProperties, EmptySeq DEF JoinedTables
<1>2. /\ order \in Seq(1 .. n) /\ Len(order) = n /\ IsInjective(order)
      /\ order[1] = FirstTable(blocks)
  <2>1. IsGreedy(order, n, schemas, blocks, predicates)
    BY JoinOrderIsGreedy
  <2> HIDE DEF order, n
  <2> QED
    BY <1>1, <2>1 DEF IsGreedy
<1> HIDE DEF order, n
<1>3. order \in [1 .. n -> 1 .. n] /\ DOMAIN order = 1 .. n /\ ToSet(order) = 1 .. n
  BY <1>1, <1>2, LenProperties, OrderCovers
<1>4. order \in Bijection(1 .. n, 1 .. n)
  <2>1. \A i \in 1 .. n : \E k \in 1 .. n : order[k] = i
    BY <1>3 DEF ToSet
  <2> QED
    BY <1>2, <1>3, <2>1 DEF Bijection, Injection, Surjection
<1>5. ASSUME NEW k \in 2 .. n
      PROVE  order[k] # order[1] /\ blocks[order[k]] <= blocks[order[1]]
  <2>1. k \in 1 .. n /\ 1 \in 1 .. n /\ k # 1
    BY <1>1
  <2>2. order[k] # order[1] /\ order[k] \in DOMAIN schemas
    BY <1>1, <1>2, <1>3, <2>1 DEF IsInjective
  <2> QED
    BY <1>2, <2>2, FirstFacts
<1> QED
  BY <1>1, <1>2, <1>4, <1>5 DEF order

\* The orders of fewer tables, before the k-th one is joined.
Before(order, k) == SubSeq(order, 1, k - 1)

\* When equalities connect all tables, every join of the order has a key: the
\* greedy choice (best_pos) never makes a cross product of such a query.
THEOREM ConnectedTablesAreJoined ==
    ASSUME NEW C, NEW schemas, NEW blocks, JoinedTables(C, schemas, blocks),
           NEW P, NEW predicates \in Seq(P), Connected(schemas, predicates)
    PROVE  LET order == JoinOrder(schemas, blocks, predicates)
           IN  \A k \in 2 .. Len(order) :
                   equi_join_keys(predicates, Combined(schemas, Before(order, k)),
                                  schemas[order[k]]) # <<>>
<1> DEFINE order == JoinOrder(schemas, blocks, predicates)
           n == Len(schemas)
<1>1. n \in Nat \ {0} /\ DOMAIN schemas = 1 .. n
  BY LenProperties, EmptySeq DEF JoinedTables
<1>2. IsGreedy(order, n, schemas, blocks, predicates)
  BY JoinOrderIsGreedy
<1> HIDE DEF order, n
<1>3. order \in Seq(1 .. n) /\ Len(order) = n
  BY <1>1, <1>2 DEF IsGreedy
<1> SUFFICES ASSUME NEW k \in 2 .. n
             PROVE  equi_join_keys(predicates, Combined(schemas, Before(order, k)),
                                   schemas[order[k]]) # <<>>
  BY <1>3 DEF order
<1> DEFINE before == Before(order, k)
           combined == Combined(schemas, before)
           keys(i) == equi_join_keys(predicates, combined, schemas[i])
<1>4. before \in Seq(1 .. n) /\ Len(before) = k - 1 /\ k - 1 \in Nat /\ k - 1 < n /\ k - 1 # 0
  <2>1. \A i \in 1 .. k - 1 : order[i] \in 1 .. n
    BY <1>3, ElementOfSeq
  <2>2. k - 1 \in Int /\ 1 <= k - 1 /\ k - 1 - 1 + 1 = k - 1
    OBVIOUS
  <2>3. SubSeq(order, 1, k - 1) \in Seq(1 .. n) /\ Len(SubSeq(order, 1, k - 1)) = k - 1
    BY <2>1, <2>2, SubSeqProperties
  <2> QED
    BY <1>1, <2>2, <2>3 DEF Before
<1>5. order[k] = NextTable(schemas, blocks, predicates, before)
  BY <1>2 DEF IsGreedy, Before
<1> HIDE DEF before
<1>6. 1 .. n \ ToSet(before) # {}
  BY <1>1, <1>4, OrderLeaves
<1>7. \A i \in 1 .. n \ ToSet(before) : Len(keys(i)) <= Len(keys(order[k]))
  BY <1>1, <1>5, <1>6, NextFacts
<1>8. PICK i \in ToSet(before), j \in 1 .. n \ ToSet(before) : Linked(schemas, predicates, i, j)
  <2>1. ToSet(before) \subseteq 1 .. n /\ ToSet(before) # 1 .. n
    <3>1. \A i \in DOMAIN before : before[i] \in 1 .. n
      BY <1>4, LenProperties, ElementOfSeq
    <3> QED
      BY <1>6, <3>1 DEF ToSet
  <2>2. before[1] \in ToSet(before)
    BY <1>4, LenProperties DEF ToSet
  <2>3. ToSet(before) \in SUBSET DOMAIN schemas /\ ToSet(before) # {}
    BY <1>1, <2>1, <2>2
  <2> QED
    BY <1>1, <2>1, <2>3, Zenon DEF Connected
<1>9. PICK p \in DOMAIN predicates : KeyOf(predicates[p], schemas[i], schemas[j]) # <<>>
  <2> DEFINE own == equi_join_keys(predicates, schemas[i], schemas[j])
  <2>1. PICK R : own \in Seq(R)
    BY KeysAre, Zenon
  <2>2. own # <<>>
    BY <1>8 DEF Linked
  <2>3. \A key : key \in ToSet(own) <=>
            \E q \in DOMAIN predicates : KeyOf(predicates[q], schemas[i], schemas[j]) = <<key>>
    BY KeysAre
  <2> HIDE DEF own
  <2>4. own[1] \in ToSet(own)
    BY <2>1, <2>2, EmptySeq, LenProperties DEF ToSet
  <2>5. PICK q \in DOMAIN predicates :
            KeyOf(predicates[q], schemas[i], schemas[j]) = <<own[1]>>
    BY <2>3, <2>4
  <2>6. <<own[1]>> # <<>>
    OBVIOUS
  <2> QED
    BY <2>5, <2>6, Zenon
<1>10. \A name \in Names(schemas[i]) : name \in Names(combined)
  <2>1. before \in Seq(DOMAIN schemas) /\ i \in DOMAIN schemas /\ schemas \in Seq(Seq(C))
    BY <1>1, <1>4, <1>8, LenProperties DEF ToSet, JoinedTables
  <2>2. PICK m \in DOMAIN before : before[m] = i
    BY <1>8 DEF ToSet
  <2> QED
    BY <2>1, <2>2, CombinedFacts
<1>11. \E key : KeyOf(predicates[p], combined, schemas[j]) = <<key>>
  <2> HIDE DEF combined
  <2> QED
    BY <1>9, <1>10 DEF KeyOf
<1>12. keys(j) # <<>>
  <2>1. PICK key : KeyOf(predicates[p], combined, schemas[j]) = <<key>>
    BY <1>11
  <2>2. key \in ToSet(keys(j))
    BY <2>1, KeysAre
  <2> HIDE DEF keys
  <2> QED
    BY <2>2 DEF ToSet
<1>13. ASSUME NEW m PROVE Len(keys(m)) \in Nat /\ (keys(m) # <<>> <=> Len(keys(m)) # 0)
  <2>1. PICK R : keys(m) \in Seq(R)
    BY KeysAre, Zenon
  <2> HIDE DEF keys
  <2> QED
    BY <2>1, LenProperties, EmptySeq
<1> HIDE DEF keys
<1>14. keys(order[k]) # <<>>
  <2>1. Len(keys(j)) # 0 /\ Len(keys(j)) <= Len(keys(order[k]))
    BY <1>7, <1>8, <1>12, <1>13
  <2> QED
    BY <1>13, <2>1
<1> QED
  BY <1>14 DEF keys, before

\* Rows of the tables, one of each, in a sequence like their schemas.
RowsOf(V, schemas, rows) ==
    /\ rows \in Seq(Seq(V)) /\ Len(rows) = Len(schemas)
    /\ \A i \in DOMAIN schemas : Len(rows[i]) = Len(schemas[i])

NoOverlap(schemas) ==
    \A i, j \in DOMAIN schemas : i # j => Names(schemas[i]) \cap Names(schemas[j]) = {}

\* The rows of the first m tables of an order, joined, have under each name what
\* the table with that name has.
FindsValues(C, V, schemas, rows, order, m) ==
    LET tables == SubSeq(order, 1, m)
    IN  /\ Combined(schemas, tables) \in Seq(C) /\ Combined(rows, tables) \in Seq(V)
        /\ Len(Combined(schemas, tables)) = Len(Combined(rows, tables))
        /\ \A name : name \in Names(Combined(schemas, tables)) <=>
                         \E k \in 1 .. m : name \in Names(schemas[order[k]])
        /\ \A k \in 1 .. m : \A name \in Names(schemas[order[k]]) :
               Combined(rows, tables)[Position(Combined(schemas, tables), name)]
                   = rows[order[k]][Position(schemas[order[k]], name)]

\* They do in every order.
LEMMA JoinedRow ==
    ASSUME NEW C, NEW schemas \in Seq(Seq(C)), NoOverlap(schemas),
           NEW V, NEW rows, RowsOf(V, schemas, rows),
           NEW order \in Seq(DOMAIN schemas), IsInjective(order), NEW m \in 0 .. Len(order)
    PROVE  FindsValues(C, V, schemas, rows, order, m)
<1> DEFINE D == DOMAIN schemas
           tables(k) == SubSeq(order, 1, k)
           schema(k) == Combined(schemas, tables(k))
           row(k) == Combined(rows, tables(k))
           Right(k) ==
               /\ schema(k) \in Seq(C) /\ row(k) \in Seq(V) /\ Len(schema(k)) = Len(row(k))
               /\ \A name : name \in Names(schema(k)) <=>
                                \E i \in 1 .. k : name \in Names(schemas[order[i]])
               /\ \A i \in 1 .. k : \A name \in Names(schemas[order[i]]) :
                      row(k)[Position(schema(k), name)]
                          = rows[order[i]][Position(schemas[order[i]], name)]
           T == {k \in Nat : k <= Len(order) => Right(k)}
<1>1. /\ order \in Seq(D) /\ DOMAIN order = 1 .. Len(order) /\ Len(order) \in Nat
      /\ \A k \in 1 .. Len(order) : order[k] \in D
      /\ \A k \in D : schemas[k] \in Seq(C) /\ rows[k] \in Seq(V) /\ Len(rows[k]) = Len(schemas[k])
      /\ rows \in Seq(Seq(V)) /\ DOMAIN rows = D
  BY LenProperties, ElementOfSeq DEF RowsOf
<1>2. \A k \in 0 .. Len(order) : tables(k) \in Seq(D) /\ Len(tables(k)) = k
  <2> SUFFICES ASSUME NEW k \in 0 .. Len(order) PROVE tables(k) \in Seq(D) /\ Len(tables(k)) = k
    OBVIOUS
  <2>1. k \in Int /\ 1 \in Int /\ \A i \in 1 .. k : order[i] \in D
    BY <1>1
  <2> HIDE DEF D
  <2>2. /\ tables(k) \in Seq(D)
        /\ Len(tables(k)) = IF 1 <= k THEN k - 1 + 1 ELSE 0
    BY ONLY <2>1, SubSeqProperties
  <2>3. (1 <= k => k - 1 + 1 = k) /\ (~(1 <= k) => k = 0)
    OBVIOUS
  <2> QED
    BY <2>2, <2>3
<1> HIDE DEF D
<1>3. 0 \in T
  <2>1. tables(0) = <<>>
    BY SubSeqEmpty
  <2>2. schema(0) = <<>> /\ row(0) = <<>>
    <3>1. FlattenSeq(<<>>) = <<>>
      BY DEF FlattenSeq
    <3>2. \A s : [k \in DOMAIN <<>> |-> s[<<>>[k]]] = <<>>
      OBVIOUS
    <3> QED
      BY <2>1, <3>1, <3>2 DEF Combined
  <2>3. 1 .. 0 = {} /\ Names(<<>>) = {} /\ <<>> \in Seq(C) /\ <<>> \in Seq(V)
    BY DEF Names, ToSet
  <2> HIDE DEF schema, row
  <2>4. Right(0)
    BY <2>2, <2>3
  <2> QED
    BY <2>4
<1>4. ASSUME NEW k \in Nat, k \in T PROVE k + 1 \in T
  <2> SUFFICES ASSUME k + 1 <= Len(order) PROVE Right(k + 1)
    OBVIOUS
  <2> DEFINE t == order[k + 1]
  <2>1. Right(k)
    BY <1>1, <1>4
  <2>2. k + 1 \in 1 .. Len(order) /\ t \in D /\ k \in 0 .. Len(order)
    BY <1>1
  <2>3. tables(k + 1) = Append(tables(k), t)
    <3>1. 1 \in 1 .. Len(order) /\ k + 1 \in 1 .. Len(order) /\ (k + 1) - 1 = k
      <4>1. Len(order) \in Nat /\ k + 1 \in 1 .. Len(order)
        BY <1>1, <2>2
      <4>2. PICK l \in Nat : l = Len(order)
        BY <4>1
      <4>3. k + 1 \in 1 .. l
        BY <4>1, <4>2
      <4>4. 1 \in 1 .. l /\ (k + 1) - 1 = k
        BY ONLY k \in Nat, <4>3
      <4> QED
        BY <4>2, <4>3, <4>4
    <3>2. SubSeq(order, 1, k + 1) = SubSeq(order, 1, k) \o <<order[k + 1]>>
      BY <1>1, <3>1, SubSeqRecursiveSecond
    <3> QED
      BY <1>2, <2>2, <3>2, AppendIsConcat
  <2> HIDE DEF t
  <2>4. schema(k + 1) = schema(k) \o schemas[t]
    BY <1>2, <2>2, <2>3, CombinedFacts DEF D
  <2>5. row(k + 1) = row(k) \o rows[t]
    <3>1. tables(k) \in Seq(DOMAIN rows) /\ t \in DOMAIN rows /\ rows \in Seq(Seq(V))
      BY <1>1, <1>2, <2>2
    <3> QED
      BY <2>3, <3>1, CombinedFacts
  <2> DEFINE s == schema(k)   r == row(k)
  <2>6. /\ s \in Seq(C) /\ r \in Seq(V) /\ Len(s) = Len(r)
        /\ \A name : name \in Names(s) <=>
               \E i \in 1 .. k : name \in Names(schemas[order[i]])
        /\ \A i \in 1 .. k : \A name \in Names(schemas[order[i]]) :
               r[Position(s, name)] = rows[order[i]][Position(schemas[order[i]], name)]
    BY <2>1
  <2>7. schemas[t] \in Seq(C) /\ rows[t] \in Seq(V) /\ Len(rows[t]) = Len(schemas[t])
    BY <1>1, <2>2
  <2>l. Len(s) \in Nat /\ Len(r) \in Nat /\ Len(schemas[t]) \in Nat
    BY <2>6, <2>7, LenProperties
  <2>8. \A i \in 1 .. k : order[i] # t /\ order[i] \in D
    <3> SUFFICES ASSUME NEW i \in 1 .. k PROVE order[i] # t /\ order[i] \in D
      OBVIOUS
    <3>1. i \in 1 .. Len(order) /\ i # k + 1
      BY <1>1, <2>2
    <3> QED
      BY <1>1, <2>2, <3>1 DEF IsInjective, t
  <2>9. \A name \in Names(schemas[t]) : name \notin Names(s)
    BY <2>2, <2>6, <2>8 DEF NoOverlap, D
  <2> HIDE DEF s, r
  <2> DEFINE s1 == s \o schemas[t]   r1 == r \o rows[t]
  <2>10. s1 \in Seq(C) /\ r1 \in Seq(V) /\ Len(s1) = Len(r1)
    <3>c. \A x, y \in Seq(C) : x \o y \in Seq(C) /\ Len(x \o y) = Len(x) + Len(y)
      BY ConcatProperties
    <3>1. s1 \in Seq(C) /\ Len(s1) = Len(s) + Len(schemas[t])
      BY <2>6, <2>7, <3>c, Zenon
    <3>2. r1 \in Seq(V) /\ Len(r1) = Len(r) + Len(rows[t])
      BY <2>6, <2>7, ConcatProperties
    <3> HIDE DEF s1, r1
    <3> QED
      BY <2>6, <2>7, <3>1, <3>2
  <2>11. \A i \in 1 .. k + 1 : i \in 1 .. k \/ i = k + 1
    OBVIOUS
  <2>12. \A name : name \in Names(s1) <=>
             \E i \in 1 .. k + 1 : name \in Names(schemas[order[i]])
    <3>1. \A name : name \in Names(s1) <=> name \in Names(s) \/ name \in Names(schemas[t])
      BY <2>6, <2>7, PositionInConcat
    <3>2. \A i \in 1 .. k : i \in 1 .. k + 1
      OBVIOUS
    <3>3. k + 1 \in 1 .. k + 1
      OBVIOUS
    <3> HIDE DEF s1
    <3> QED
      BY <2>6, <2>11, <3>1, <3>2, <3>3, Zenon DEF t
  <2>13. ASSUME NEW i \in 1 .. k + 1, NEW name \in Names(schemas[order[i]])
         PROVE  r1[Position(s1, name)] = rows[order[i]][Position(schemas[order[i]], name)]
    <3>1. CASE i \in 1 .. k
      <4>1. name \in Names(s)
        BY <2>6, <2>13, <3>1
      <4>2. Position(s1, name) = Position(s, name) /\ Position(s, name) \in 1 .. Len(s)
        BY <2>6, <2>7, <4>1, PositionInConcat, PositionFacts
      <4>3. r1[Position(s, name)] = r[Position(s, name)]
        <5>1. PICK p \in Nat : p = Position(s, name)
          BY <4>2
        <5>2. p \in 1 .. Len(r) + Len(rows[t]) /\ p <= Len(r)
          BY <2>6, <2>7, <4>2, <5>1, LenProperties
        <5> QED
          BY <2>6, <2>7, <5>1, <5>2, ConcatProperties
      <4> HIDE DEF r1, s1
      <4> QED
        BY <2>6, <2>13, <3>1, <4>2, <4>3
    <3>2. CASE i = k + 1
      <4>1. name \in Names(schemas[t])
        BY <2>13, <3>2 DEF t
      <4>2. /\ Position(s1, name) = Len(s) + Position(schemas[t], name)
            /\ Position(schemas[t], name) \in 1 .. Len(schemas[t])
        BY <2>6, <2>7, <2>9, <4>1, PositionInConcat, PositionFacts
      <4>3. r1[Len(s) + Position(schemas[t], name)] = rows[t][Position(schemas[t], name)]
        <5>1. PICK p \in Nat : p = Position(schemas[t], name)
          BY <4>2
        <5>2. PICK q \in Int : q = Len(r) + p
          BY <2>6, LenProperties
        <5>3. /\ q \in 1 .. Len(r) + Len(rows[t]) /\ ~(q <= Len(r)) /\ q - Len(r) = p
          <6>1. PICK a \in Nat, b \in Nat : a = Len(r) /\ b = Len(rows[t])
            BY <2>l, <2>7
          <6>2. p \in 1 .. b /\ q = a + p
            BY <2>7, <4>2, <5>1, <5>2, <6>1
          <6>3. q \in 1 .. a + b /\ ~(q <= a) /\ q - a = p
            BY ONLY <6>1, <6>2, a \in Nat, b \in Nat
          <6> QED
            BY <6>1, <6>3
        <5>4. r1[q] = IF q <= Len(r) THEN r[q] ELSE rows[t][q - Len(r)]
          BY <2>6, <2>7, <5>3, ConcatProperties
        <5>5. r1[q] = rows[t][p]
          BY <5>3, <5>4
        <5> QED
          BY <2>6, <5>1, <5>2, <5>5
      <4> HIDE DEF r1, s1
      <4> QED
        BY <3>2, <4>2, <4>3 DEF t
    <3> QED
      BY <2>11, <3>1, <3>2
  <2>14. schema(k + 1) = s1 /\ row(k + 1) = r1
    BY <2>4, <2>5 DEF s, r
  <2> HIDE DEF schema, row, s1, r1
  <2> QED
    BY <2>10, <2>12, <2>13, <2>14
<1> HIDE DEF T
<1>5. m \in T /\ m <= Len(order)
  <2>1. m \in Nat /\ m <= Len(order)
    BY <1>1
  <2> QED
    BY <1>3, <1>4, <2>1, SetInduction
<1> QED
  BY <1>5 DEF T, FindsValues

\* What the joins of an order and the filters around them let through: the rows
\* of the tables in pushed pass the predicates on their table alone, and at every
\* join the keys match and the residual predicates hold.
PassesJoins(schemas, predicates, order, pushed, rows) ==
    /\ \A i \in pushed, p \in DOMAIN predicates :
           Satisfiable(predicates[p], schemas[i]) =>
               evaluate_predicate(rows[i], schemas[i], predicates[p])
    /\ \A k \in 2 .. Len(order) :
           LET left == Combined(schemas, Before(order, k))
               right == schemas[order[k]]
               keys == equi_join_keys(predicates, left, right)
               row == Combined(rows, Before(order, k + 1))
           IN  /\ KeysMatch(row, left, keys)
               /\ \A p \in DOMAIN predicates : Residual(predicates[p], left, right, keys) =>
                      evaluate_predicate(row, left \o right, predicates[p])

\* Of tables without common columns, whichever of their scans are filtered, the
\* joins return those combinations of rows that pass every predicate of the
\* query, and no others: none is enforced nowhere or applied to a wrong column.
THEOREM JoinsKeepRows ==
    ASSUME NEW C, NEW schemas, NEW blocks, JoinedTables(C, schemas, blocks),
           Len(schemas) >= 2, NoOverlap(schemas),
           NEW P, NEW predicates \in Seq(P),
           \A p \in DOMAIN predicates : Satisfiable(predicates[p], FlattenSeq(schemas)),
           NEW pushed \in SUBSET DOMAIN schemas,
           NEW V, NEW rows, RowsOf(V, schemas, rows)
    PROVE  PassesJoins(schemas, predicates, JoinOrder(schemas, blocks, predicates),
                       pushed, rows)
               <=> \A p \in DOMAIN predicates :
                       evaluate_predicate(FlattenSeq(rows), FlattenSeq(schemas), predicates[p])
<1> DEFINE order == JoinOrder(schemas, blocks, predicates)
           n == Len(schemas)
           listed == [i \in 1 .. n |-> i]
           holds(p) == evaluate_predicate(FlattenSeq(rows), FlattenSeq(schemas), predicates[p])
           value(i, name) == rows[i][Position(schemas[i], name)]
           left(k) == Combined(schemas, Before(order, k))
           row(k) == Combined(rows, Before(order, k))
<1>1. /\ n \in Nat \ {0} /\ DOMAIN schemas = 1 .. n /\ schemas \in Seq(Seq(C))
      /\ rows \in Seq(Seq(V)) /\ DOMAIN rows = 1 .. n
  BY LenProperties, EmptySeq DEF JoinedTables, RowsOf
<1>2. order \in Seq(1 .. n) /\ Len(order) = n /\ IsInjective(order)
  <2>1. IsGreedy(order, n, schemas, blocks, predicates)
    BY JoinOrderIsGreedy
  <2> HIDE DEF order, n
  <2> QED
    BY <1>1, <2>1 DEF IsGreedy
<1> HIDE DEF order, n
<1>3. ToSet(order) = 1 .. n /\ DOMAIN order = 1 .. n /\ \A k \in 1 .. n : order[k] \in 1 .. n
  BY <1>1, <1>2, OrderCovers, LenProperties, ElementOfSeq
\* The order in which the query lists the tables is an order, too.
<1>4. /\ listed \in Seq(1 .. n) /\ IsInjective(listed) /\ Len(listed) = n
      /\ \A i \in 1 .. n : listed[i] = i
      /\ Combined(schemas, listed) = FlattenSeq(schemas)
      /\ Combined(rows, listed) = FlattenSeq(rows)
  <2>1. listed \in Seq(1 .. n) /\ DOMAIN listed = 1 .. n /\ Len(listed) = n
    BY <1>1, IsASeq
  <2>2. [k \in 1 .. n |-> schemas[listed[k]]] = schemas
    <3>1. schemas = [k \in 1 .. n |-> schemas[k]]
      BY <1>1, LenProperties
    <3> QED
      BY <3>1
  <2>3. [k \in 1 .. n |-> rows[listed[k]]] = rows
    <3>1. rows = [k \in 1 .. n |-> rows[k]]
      BY <1>1, LenProperties
    <3> QED
      BY <3>1
  <2>4. IsInjective(listed)
    BY DEF IsInjective
  <2> QED
    BY <2>1, <2>2, <2>3, <2>4 DEF Combined
<1> HIDE DEF listed
\* Every order finds, under each name, the value of the table that has it.
<1>5. ASSUME NEW k \in 2 .. n + 1
      PROVE  /\ left(k) \in Seq(C)
             /\ \A name : name \in Names(left(k)) <=>
                              \E i \in 1 .. k - 1 : name \in Names(schemas[order[i]])
             /\ \A i \in 1 .. k - 1 : \A name \in Names(schemas[order[i]]) :
                    row(k)[Position(left(k), name)] = value(order[i], name)
  <2>1. k - 1 \in 0 .. Len(order) /\ order \in Seq(DOMAIN schemas)
    BY <1>1, <1>2
  <2>2. FindsValues(C, V, schemas, rows, order, k - 1)
    BY <1>1, <1>2, <2>1, JoinedRow
  <2> QED
    BY <2>2, Zenon DEF FindsValues, Before
<1>6. /\ FlattenSeq(schemas) \in Seq(C)
      /\ \A name : name \in Names(FlattenSeq(schemas)) <=>
                       \E i \in 1 .. n : name \in Names(schemas[i])
      /\ \A i \in 1 .. n : \A name \in Names(schemas[i]) :
             FlattenSeq(rows)[Position(FlattenSeq(schemas), name)] = value(i, name)
  <2>1. n \in 0 .. Len(listed) /\ listed \in Seq(DOMAIN schemas) /\ SubSeq(listed, 1, n) = listed
    BY <1>1, <1>4, SubSeqFull
  <2>2. /\ Combined(schemas, listed) \in Seq(C)
        /\ \A name : name \in Names(Combined(schemas, listed)) <=>
                         \E i \in 1 .. n : name \in Names(schemas[listed[i]])
        /\ \A i \in 1 .. n : \A name \in Names(schemas[listed[i]]) :
               Combined(rows, listed)[Position(Combined(schemas, listed), name)]
                   = rows[listed[i]][Position(schemas[listed[i]], name)]
    <3>1. FindsValues(C, V, schemas, rows, listed, n)
      BY <1>1, <1>4, <2>1, JoinedRow
    <3> QED
      BY <2>1, <3>1, Zenon DEF FindsValues
  <2>3. \A i \in 1 .. n : schemas[listed[i]] = schemas[i] /\ rows[listed[i]] = rows[i]
    BY <1>4
  <2> QED
    BY <1>4, <2>2, <2>3
\* So a predicate says the same of the joined rows as of the rows of the query.
<1>7. ASSUME NEW k \in 2 .. n + 1, NEW p \in DOMAIN predicates,
             Satisfiable(predicates[p], left(k))
      PROVE  evaluate_predicate(row(k), left(k), predicates[p]) = holds(p)
  <2>1. \A name \in Names(left(k)) :
            row(k)[Position(left(k), name)]
                = FlattenSeq(rows)[Position(FlattenSeq(schemas), name)]
    <3> SUFFICES ASSUME NEW name \in Names(left(k))
                 PROVE  row(k)[Position(left(k), name)]
                            = FlattenSeq(rows)[Position(FlattenSeq(schemas), name)]
      OBVIOUS
    <3> HIDE DEF left, row, value
    <3>1. PICK i \in 1 .. k - 1 : name \in Names(schemas[order[i]])
      BY <1>5
    <3>2. order[i] \in 1 .. n
      <4>1. n \in Nat /\ k \in 2 .. n + 1 /\ i \in 1 .. k - 1
        BY <1>1
      <4>2. i \in 1 .. n
        BY <4>1, SMT
      <4> QED
        BY <1>3, <4>2, Zenon
    <3> QED
      BY <1>5, <1>6, <3>1, <3>2
  <2> HIDE DEF left, row
  <2> QED
    BY <1>7, <2>1 DEF evaluate_predicate, Satisfiable
<1>8. ASSUME NEW i \in 1 .. n, NEW p \in DOMAIN predicates,
             Satisfiable(predicates[p], schemas[i])
      PROVE  evaluate_predicate(rows[i], schemas[i], predicates[p]) = holds(p)
  BY <1>6, <1>8 DEF evaluate_predicate, Satisfiable
\* One more table.
<1>9. ASSUME NEW k \in 2 .. n
      PROVE  /\ left(k + 1) = left(k) \o schemas[order[k]]
             /\ Names(left(k)) \cap Names(schemas[order[k]]) = {}
             /\ schemas[order[k]] \in Seq(C)
  <2>1. k \in 1 .. n /\ order[k] \in 1 .. n /\ k \in 2 .. n + 1
    BY <1>1, <1>3
  <2>2. schemas[order[k]] \in Seq(C)
    BY <1>1, <2>1, ElementOfSeq
  <2>3. Before(order, k + 1) = Append(Before(order, k), order[k]) /\ Before(order, k) \in Seq(1 .. n)
    <3>1. 1 \in 1 .. Len(order) /\ k \in 1 .. Len(order) /\ (k + 1) - 1 = k
      BY <1>1, <1>2, <2>1
    <3>2. SubSeq(order, 1, k) = SubSeq(order, 1, k - 1) \o <<order[k]>>
      BY <1>2, <3>1, SubSeqRecursiveSecond
    <3>3. SubSeq(order, 1, k - 1) \in Seq(1 .. n)
      <4>1. \A i \in 1 .. k - 1 : order[i] \in 1 .. n
        <5>1. \A i \in 1 .. k - 1 : i \in 1 .. n
          BY <1>1, <2>1
        <5> QED
          BY <1>3, <5>1
      <4>2. 1 \in Int /\ k - 1 \in Int
        OBVIOUS
      <4> QED
        BY ONLY <4>1, <4>2, SubSeqProperties
    <3> QED
      BY <2>1, <3>1, <3>2, <3>3, AppendIsConcat DEF Before
  <2>4. left(k + 1) = left(k) \o schemas[order[k]]
    BY <1>1, <2>1, <2>3, CombinedFacts
  <2>5. ASSUME NEW name \in Names(left(k)) PROVE name \notin Names(schemas[order[k]])
    <3> HIDE DEF left
    <3>1. PICK i \in 1 .. k - 1 : name \in Names(schemas[order[i]])
      BY <1>5, <2>1, <2>5
    <3>2. i \in 1 .. n /\ i # k
      BY <1>1, <2>1
    <3>3. order[i] # order[k] /\ order[i] \in 1 .. n
      BY <1>2, <1>3, <2>1, <3>2 DEF IsInjective
    <3> QED
      BY <1>1, <2>1, <3>1, <3>3 DEF NoOverlap
  <2> QED
    BY <2>2, <2>4, <2>5
\* A join enforces the predicates on the tables joined so far.
<1> DEFINE Step(k) ==
               LET right == schemas[order[k]]
                   keys == equi_join_keys(predicates, left(k), right)
               IN  /\ KeysMatch(row(k + 1), left(k), keys)
                   /\ \A p \in DOMAIN predicates :
                          Residual(predicates[p], left(k), right, keys) =>
                              evaluate_predicate(row(k + 1), left(k) \o right, predicates[p])
<1>10. ASSUME NEW k \in 2 .. n
       PROVE  Step(k) <=> \A p \in DOMAIN predicates :
                              Satisfiable(predicates[p], left(k + 1)) => holds(p)
  <2>1. k + 1 \in 2 .. n + 1 /\ k \in 2 .. n + 1
    BY <1>1
  <2>2. left(k) \in Seq(C)
    BY <1>5, <2>1
  <2> DEFINE r == row(k + 1)   l == left(k)
  <2> HIDE DEF holds, left, row
  <2>3. Step(k) <=> \A p \in DOMAIN predicates :
                        Satisfiable(predicates[p], l \o schemas[order[k]]) =>
                            evaluate_predicate(r, l \o schemas[order[k]], predicates[p])
    BY <1>9, <2>2, JoinEnforces
  <2>4. \A p \in DOMAIN predicates : Satisfiable(predicates[p], left(k + 1)) =>
            evaluate_predicate(r, left(k + 1), predicates[p]) = holds(p)
    BY <1>7, <2>1
  <2>5. left(k + 1) = l \o schemas[order[k]]
    BY <1>9
  <2> HIDE DEF Step, r, l
  <2> QED
    BY <2>3, <2>4, <2>5
<1>11. \A p \in DOMAIN predicates : Satisfiable(predicates[p], left(n + 1))
  <2> SUFFICES ASSUME NEW p \in DOMAIN predicates PROVE Satisfiable(predicates[p], left(n + 1))
    OBVIOUS
  <2>1. Satisfiable(predicates[p], FlattenSeq(schemas))
    OBVIOUS
  <2>2. ASSUME NEW name \in Names(FlattenSeq(schemas)) PROVE name \in Names(left(n + 1))
    <3>1. PICK i \in 1 .. n : name \in Names(schemas[i])
      BY <1>6, <2>2
    <3>2. PICK k \in 1 .. n : order[k] = i
      BY <1>3 DEF ToSet
    <3>3. n + 1 \in 2 .. n + 1 /\ (n + 1) - 1 = n
      BY <1>1
    <3> HIDE DEF left
    <3> QED
      BY <1>5, <3>1, <3>2, <3>3
  <2> HIDE DEF left
  <2> QED
    BY <2>1, <2>2 DEF Satisfiable
<1>12. PassesJoins(schemas, predicates, order, pushed, rows) <=>
           /\ \A i \in pushed, p \in DOMAIN predicates :
                  Satisfiable(predicates[p], schemas[i]) =>
                      evaluate_predicate(rows[i], schemas[i], predicates[p])
           /\ \A k \in 2 .. n : Step(k)
  BY <1>2, Zenon DEF PassesJoins
<1> HIDE DEF left, row, Step, holds
<1>13. ASSUME PassesJoins(schemas, predicates, order, pushed, rows), NEW p \in DOMAIN predicates
       PROVE  holds(p)
  <2>1. n \in 2 .. n
    BY <1>1 DEF n
  <2> QED
    BY <1>10, <1>11, <1>12, <1>13, <2>1
<1>14. ASSUME \A p \in DOMAIN predicates : holds(p)
       PROVE  PassesJoins(schemas, predicates, order, pushed, rows)
  <2>1. \A k \in 2 .. n : Step(k)
    BY <1>10, <1>14
  <2>2. \A i \in pushed, p \in DOMAIN predicates :
            Satisfiable(predicates[p], schemas[i]) =>
                evaluate_predicate(rows[i], schemas[i], predicates[p])
    BY <1>1, <1>8, <1>14
  <2> QED
    BY <1>12, <2>1, <2>2
<1> QED
  BY <1>13, <1>14 DEF order, holds
=============================================================================
