\* Rows one and two bytes longer than the usable part of a block.
CONSTANTS
    BlockSize = 6
    AnonStart = 10
    RIGHT_CACHE_BYTES = 36
    BATCH_BLOCKS = 2
    ChildSpills = {2}
    MaxLeft = 1
    MaxRight = 2
    Lengths = {1, 5, 6, 7}
    LeftInputs <- MCLeftInputs
    RightInputs <- MCRightInputs
SPECIFICATION Spec
INVARIANT RowsKeepOffCounter
