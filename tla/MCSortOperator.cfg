\* Up to four rows over two keys; none, one or two runs of one to three rows, in
\* one to three blocks; batches of one or two blocks; a child with blocks of its own.
CONSTANTS
    BlockSize = 6
    AnonStart = 10
    RUN_BUDGET_BYTES = 18
    READER_BUFFER_BUDGET = 24
    MAX_BATCH_BLOCKS = 2
    ChildSpills = {2}
    MaxRows = 4
    Keys = {1, 2}
    Shapes <- MixedShapes
    Rows <- MCRows
    Inputs <- MCInputs
    RowLess <- MCRowLess
    SortKey <- MCSortKey
    KeyLess <- MCKeyLess
SPECIFICATION Spec
INVARIANTS
    RowsConserved
    HeapMirrorsReaders
    MergeStaysOrdered
    BufferWithinBudget
    ReaderBuffersBounded
PROPERTIES
    BlocksWrittenOnce
    ImplementsResultStream
    EventuallyEnds
