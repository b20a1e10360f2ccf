\* Up to two left and five right rows; spills of one to five blocks in batches
\* of two, of which up to three are cached; children with blocks of their own.
CONSTANTS
    BlockSize = 6
    AnonStart = 10
    RIGHT_CACHE_BYTES = 36
    BATCH_BLOCKS = 2
    ChildSpills = {2}
    MaxLeft = 2
    MaxRight = 5
    Lengths = {1, 2, 4}
    LeftInputs <- MCLeftInputs
    RightInputs <- MCRightInputs
SPECIFICATION Spec
INVARIANTS
    SpillHoldsRightRows
    BuffersMirrorDisk
PROPERTY
    ImplementsResultStream
