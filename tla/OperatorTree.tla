---------------------------- MODULE OperatorTree -----------------------------
(* The operators of one query at work on their shared DiskManager            *)
(* (database/src/executor).  build_operator constructs the tree bottom-up;   *)
(* constructing a hash join already drains children.  Then db_main calls     *)
(* next() of the root until it returns None, and every call runs down the    *)
(* tree.  The rows are left out: how many a call pulls before it returns,    *)
(* and which of the optional flushes happen, is left open.  What is kept is  *)
(* the order of the calls, and who allocates anonymous blocks when.          *)
(*                                                                           *)
(* A Cross relies on the batches it spills being adjacent on the disk, but   *)
(* every other operator allocates from the same region.                      *)
EXTENDS Naturals, Sequences

CONSTANTS Plans,        \* operator trees, see PlansAssumption
          MaxAllocs     \* bound on the number of batches allocated

Kinds == {"Scan", "Filter", "Sort", "Cross", "HashJoin"}

\* The nodes of a plan are numbered in the order of their construction, the
\* children of a node before it; the root is the last one.  A Filter (or a
\* Project) and a Sort have the child left[n]; 0 stands for no child.
ASSUME PlansAssumption ==
    \A p \in Plans :
        /\ p.size \in Nat \ {0}
        /\ p.kind \in [1 .. p.size -> Kinds]
        /\ p.left \in [1 .. p.size -> Nat] /\ p.right \in [1 .. p.size -> Nat]
        /\ \A n \in 1 .. p.size :
              /\ p.kind[n] # "Scan" => p.left[n] \in 1 .. n - 1
              /\ p.kind[n] \in {"Cross", "HashJoin"} => p.right[n] \in 1 .. n - 1

ASSUME MaxAllocsAssumption == MaxAllocs \in Nat

VARIABLES plan,
          built,        \* nodes constructed so far
          stack,        \* the nodes whose calls are in progress, innermost last
          returned,     \* what the innermost one has to deal with: a "Call" it
                        \* has received, or "Some" or "None" from its child
          mode,         \* per node: "New", or what its output has become
          has_left,     \* per node: current_left is a row
          right_start, total,   \* per Cross: right_start_block, total_blocks
          allocs,       \* the batches allocated so far, each by its owner
          settled       \* nodes whose next() has returned at least once

vars == <<plan, built, stack, returned, mode, has_left, right_start, total,
          allocs, settled>>
spillVars == <<right_start, total, allocs>>

Nodes == 1 .. plan.size
Root == plan.size
Top == stack[Len(stack)]
Running(kind) == stack # <<>> /\ plan.kind[Top] = kind
-----------------------------------------------------------------------------
\* The innermost operator calls next() of a child.
CallNext(child) ==
    /\ stack' = Append(stack, child)
    /\ returned' = "Call"
    /\ UNCHANGED settled

\* The innermost operator returns from next().
ReturnNext(value) ==
    /\ stack' = SubSeq(stack, 1, Len(stack) - 1)
    /\ returned' = value
    /\ settled' = settled \cup {Top}

Become(m) == mode' = [mode EXCEPT ![Top] = m]

SetLeft(b) == has_left' = [has_left EXCEPT ![Top] = b]

\* alloc_anon_blocks and write_blocks of one batch.
Alloc(owner) ==
    /\ Len(allocs) < MaxAllocs
    /\ allocs' = Append(allocs, owner)
    /\ UNCHANGED <<right_start, total>>

\* flush_batch of the Cross: the start of the first batch is remembered.
FlushBatch ==
    /\ Len(allocs) < MaxAllocs
    /\ allocs' = Append(allocs, Top)
    /\ right_start' = IF total[Top] = 0 THEN [right_start EXCEPT ![Top] = Len(allocs)]
                                        ELSE right_start
    /\ total' = [total EXCEPT ![Top] = @ + 1]
-----------------------------------------------------------------------------
Init == /\ plan \in Plans
        /\ built = 0
        /\ stack = <<>> /\ returned = "Call"
        /\ mode = [n \in Nodes |-> "New"]
        /\ has_left = [n \in Nodes |-> FALSE]
        /\ right_start = [n \in Nodes |-> 0] /\ total = [n \in Nodes |-> 0]
        /\ allocs = <<>>
        /\ settled = {}

\* A variant in which a join waits for its first next(), as Sort and Cross do.
ConstructLazily ==
    /\ stack = <<>> /\ built < plan.size
    /\ returned' = "Call"
    /\ built' = built + 1
    /\ UNCHANGED <<plan, stack, mode, has_left, spillVars, settled>>

\* build_operator constructs the next node; HashJoinOperator::new runs a loop
\* of calls before it returns.
Construct ==
    /\ stack = <<>> /\ built < plan.size
    /\ returned' = "Call"
    /\ IF plan.kind[built + 1] = "HashJoin"
       THEN stack' = <<built + 1>> /\ UNCHANGED built
       ELSE built' = built + 1 /\ UNCHANGED stack
    /\ UNCHANGED <<plan, mode, has_left, spillVars, settled>>

\* To learn a schema build_operator also builds operators it drops at once; the
\* hash joins among them run, and allocate blocks nobody will read (owner 0).
ProbeSchema ==
    /\ stack = <<>> /\ built < plan.size
    /\ Alloc(0)
    /\ UNCHANGED <<plan, built, stack, returned, mode, has_left, settled>>

\* db_main asks the root for the next row, until there is none.
CallRoot ==
    /\ stack = <<>> /\ built = plan.size /\ returned # "None"
    /\ CallNext(Root)
    /\ UNCHANGED <<plan, built, mode, has_left, spillVars>>
-----------------------------------------------------------------------------
ScanReturn ==
    /\ Running("Scan")
    /\ \E value \in {"Some", "None"} : ReturnNext(value)
    /\ UNCHANGED <<plan, built, mode, has_left, spillVars>>

\* FilterOperator, OwnedFilterOperator and ProjectOperator.
FilterPull ==
    /\ Running("Filter") /\ returned \in {"Call", "Some"}
    /\ CallNext(plan.left[Top])
    /\ UNCHANGED <<plan, built, mode, has_left, spillVars>>

FilterReturn ==
    /\ Running("Filter") /\ returned \in {"Some", "None"}
    /\ ReturnNext(returned)
    /\ UNCHANGED <<plan, built, mode, has_left, spillVars>>
-----------------------------------------------------------------------------
\* SortOperator::initialize: pull the child, and flush a run when it is full.
SortPull ==
    /\ Running("Sort") /\ mode[Top] = "New" /\ returned \in {"Call", "Some"}
    /\ \/ UNCHANGED spillVars
       \/ returned = "Some" /\ Alloc(Top)
    /\ CallNext(plan.left[Top])
    /\ UNCHANGED <<plan, built, mode, has_left>>

\* The child is exhausted: the last run is flushed, if others were.
SortInitialised ==
    /\ Running("Sort") /\ mode[Top] = "New" /\ returned = "None"
    /\ \/ UNCHANGED spillVars
       \/ (\E i \in DOMAIN allocs : allocs[i] = Top) /\ Alloc(Top)
    /\ Become("Out")
    /\ returned' = "Call"
    /\ UNCHANGED <<plan, built, stack, has_left, settled>>

\* A variant that returns rows before the child is drained.
SortReturnEarly ==
    /\ Running("Sort") /\ (mode[Top] = "Out" \/ returned = "Some")
    /\ \E value \in {"Some", "None"} : ReturnNext(value)
    /\ UNCHANGED <<plan, built, mode, has_left, spillVars>>

SortReturn ==
    /\ Running("Sort") /\ mode[Top] = "Out"
    /\ \E value \in {"Some", "None"} : ReturnNext(value)
    /\ UNCHANGED <<plan, built, mode, has_left, spillVars>>
-----------------------------------------------------------------------------
\* A variant that allocates a batch before it has pulled the first row.
CrossSpillAhead ==
    /\ Running("Cross") /\ mode[Top] = "New" /\ returned \in {"Call", "Some"}
    /\ \/ UNCHANGED spillVars
       \/ FlushBatch
    /\ CallNext(plan.right[Top])
    /\ UNCHANGED <<plan, built, mode, has_left>>

\* CrossOperator::spill_right: pull the right child, and flush full batches.
CrossSpill ==
    /\ Running("Cross") /\ mode[Top] = "New" /\ returned \in {"Call", "Some"}
    /\ \/ UNCHANGED spillVars
       \/ returned = "Some" /\ FlushBatch
    /\ CallNext(plan.right[Top])
    /\ UNCHANGED <<plan, built, mode, has_left>>

\* The right child is exhausted: the last block is always written.
CrossSpilled ==
    /\ Running("Cross") /\ mode[Top] = "New" /\ returned = "None"
    /\ FlushBatch
    /\ Become("Out")
    /\ returned' = "Call"
    /\ UNCHANGED <<plan, built, stack, has_left, settled>>

\* No right row is left for the current left row, or there is none yet.
CrossPullLeft ==
    /\ Running("Cross") /\ mode[Top] = "Out" /\ returned \in {"Call", "Some"}
    /\ CallNext(plan.left[Top])
    /\ SetLeft(FALSE)
    /\ UNCHANGED <<plan, built, mode, spillVars>>

\* A variant that pairs the right rows as they come instead of spilling them.
CrossReturnStreaming ==
    /\ Running("Cross")
    /\ returned = "Some" \/ (returned = "Call" /\ has_left[Top])
    /\ ReturnNext("Some")
    /\ SetLeft(TRUE)
    /\ UNCHANGED <<plan, built, mode, spillVars>>

CrossReturn ==
    /\ Running("Cross") /\ mode[Top] = "Out"
    /\ returned = "Some" \/ (returned = "Call" /\ has_left[Top])
    /\ ReturnNext("Some")
    /\ SetLeft(TRUE)
    /\ UNCHANGED <<plan, built, mode, spillVars>>

CrossEnd ==
    /\ Running("Cross") /\ mode[Top] = "Out" /\ returned = "None"
    /\ ReturnNext("None")
    /\ UNCHANGED <<plan, built, mode, has_left, spillVars>>
-----------------------------------------------------------------------------
\* HashJoinOperator::new, phase 1: build the table from the right child.
JoinBuild ==
    /\ Running("HashJoin") /\ mode[Top] = "New" /\ returned \in {"Call", "Some"}
    /\ CallNext(plan.right[Top])
    /\ UNCHANGED <<plan, built, mode, has_left, spillVars>>

\* The constructor of the join returns.
Constructed ==
    /\ stack' = SubSeq(stack, 1, Len(stack) - 1)
    /\ built' = Top /\ returned' = "Call"
    /\ UNCHANGED settled

JoinInMemory ==
    /\ Running("HashJoin") /\ mode[Top] = "New" /\ returned = "None"
    /\ Become("InMemory")
    /\ Constructed
    /\ UNCHANGED <<plan, has_left, spillVars>>

\* The budget is exceeded: phase 2 partitions the right side, then the left.
JoinOverBudget ==
    /\ Running("HashJoin") /\ mode[Top] = "New" /\ returned = "Some"
    /\ Become("PartitionRight")
    /\ UNCHANGED <<plan, built, stack, returned, has_left, spillVars, settled>>

\* A partition buffer is flushed: by push of a row, or by finish.
JoinFlush ==
    /\ Running("HashJoin") /\ mode[Top] \in {"PartitionRight", "PartitionLeft"}
    /\ returned \in {"Some", "None"}
    /\ Alloc(Top)
    /\ UNCHANGED <<plan, built, stack, returned, mode, has_left, settled>>

JoinPartition ==
    /\ Running("HashJoin") /\ returned = "Some"
    /\ \/ mode[Top] = "PartitionRight" /\ CallNext(plan.right[Top])
       \/ mode[Top] = "PartitionLeft" /\ CallNext(plan.left[Top])
    /\ UNCHANGED <<plan, built, mode, has_left, spillVars>>

JoinRightPartitioned ==
    /\ Running("HashJoin") /\ mode[Top] = "PartitionRight" /\ returned = "None"
    /\ Become("PartitionLeft")
    /\ CallNext(plan.left[Top])
    /\ UNCHANGED <<plan, built, has_left, spillVars>>

JoinPartitioned ==
    /\ Running("HashJoin") /\ mode[Top] = "PartitionLeft" /\ returned = "None"
    /\ Become("Partitioned")
    /\ Constructed
    /\ UNCHANGED <<plan, has_left, spillVars>>

\* next() of a join in memory streams its left child.
JoinPullLeft ==
    /\ Running("HashJoin") /\ mode[Top] = "InMemory" /\ returned \in {"Call", "Some"}
    /\ CallNext(plan.left[Top])
    /\ SetLeft(FALSE)
    /\ UNCHANGED <<plan, built, mode, spillVars>>

JoinReturn ==
    /\ Running("HashJoin") /\ mode[Top] = "InMemory"
    /\ returned = "Some" \/ (returned = "Call" /\ has_left[Top])
    /\ ReturnNext("Some")
    /\ SetLeft(TRUE)
    /\ UNCHANGED <<plan, built, mode, spillVars>>

JoinEnd ==
    /\ Running("HashJoin") /\ mode[Top] = "InMemory" /\ returned = "None"
    /\ ReturnNext("None")
    /\ UNCHANGED <<plan, built, mode, has_left, spillVars>>

\* next() of a grace join reads the segments back and calls no child.
GraceReturn ==
    /\ Running("HashJoin") /\ mode[Top] = "Partitioned"
    /\ \E value \in {"Some", "None"} : ReturnNext(value)
    /\ UNCHANGED <<plan, built, mode, has_left, spillVars>>
-----------------------------------------------------------------------------
\* The query is over, or the bound of the model is reached.
Stopped == /\ \/ stack = <<>> /\ built = plan.size /\ returned = "None"
              \/ Len(allocs) = MaxAllocs
           /\ UNCHANGED vars

Next == \/ Construct \/ ProbeSchema \/ CallRoot
        \/ ScanReturn \/ FilterPull \/ FilterReturn
        \/ SortPull \/ SortInitialised \/ SortReturn
        \/ CrossSpill \/ CrossSpilled \/ CrossPullLeft \/ CrossReturn \/ CrossEnd
        \/ JoinBuild \/ JoinInMemory \/ JoinOverBudget \/ JoinFlush \/ JoinPartition
        \/ JoinRightPartitioned \/ JoinPartitioned
        \/ JoinPullLeft \/ JoinReturn \/ JoinEnd \/ GraceReturn
        \/ Stopped

Spec == Init /\ [][Next]_vars
-----------------------------------------------------------------------------
\* A hash join reads its inputs while it is constructed.  As long as it fills its
\* table or its partition buffers it is the outermost call, and whatever has
\* returned a row or allocated blocks was constructed before it: no operator above
\* it or beside it holds a run or a spill in memory at that time.
JoinsBuildAlone ==
    \A i \in DOMAIN stack :
        plan.kind[stack[i]] = "HashJoin" /\ mode[stack[i]] \notin {"InMemory", "Partitioned"} =>
            /\ i = 1
            /\ \A n \in settled : n < stack[1]
            /\ \A k \in DOMAIN allocs : allocs[k] <= stack[1]

\* Every batch in the range of blocks a Cross reads back as its right side was
\* written by that Cross: no child of it, no operator elsewhere in the tree and
\* no discarded operator allocates between two of its batches.
SpillContiguous ==
    \A n \in Nodes : plan.kind[n] = "Cross" =>
        \A i \in 1 .. total[n] :
            right_start[n] + i \in DOMAIN allocs /\ allocs[right_start[n] + i] = n

\* Once next() of the root has returned for the first time no operator of the
\* tree allocates: the anonymous region stops growing before the first row of
\* the result is sent to the monitor.
NoAllocationAfterFirstRow ==
    [][(Root \in settled) => UNCHANGED allocs]_vars

\* An operator that has returned from next() calls only children that have done
\* so too: all the spilling below a node happens in the first call it receives.
SettledCallsSettled ==
    \A i, j \in DOMAIN stack : i < j /\ stack[i] \in settled => stack[j] \in settled
=============================================================================
