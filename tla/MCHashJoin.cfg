\* Up to two left and three right rows over three keys in two partitions: joins
\* that stay in memory, and joins that spill on the second or the third row.
CONSTANTS
    BlockSize = 6
    AnonStart = 10
    INMEM_BUILD_BUDGET = 4
    NUM_PARTITIONS = 2
    FLUSH_THRESHOLD = 4
    READ_BATCH = 1
    ChildSpills = {2}
    MaxLeft = 2
    MaxRight = 3
    Keys = {1, 2, 3}
    Rows <- MCRows
    LeftInputs <- MCLeftInputs
    RightInputs <- MCRightInputs
    hash_partition <- MCHashPartition
SPECIFICATION Spec
INVARIANTS
    RowsConserved
    TableMatchesProbe
    MemoryWithinBudget
PROPERTY
    ImplementsResultStream
