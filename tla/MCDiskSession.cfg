\* One file that is read in two batches, or three files of which one is empty;
\* two writes of one or two blocks and a read of what they wrote, through pipes
\* of one item.
CONSTANTS
    Gap = 2
    BlocksPerCylinder = 3
    BlockSize = 4
    PipeCapacity = 1
    BLOCKS_PER_READ = 2
    SpillSizes = {1, 2}
    MaxSpills = 2
    MaxReadBacks = 1
    Configs <- MCConfigs
SPECIFICATION Spec
INVARIANTS
    OnlyKillsFail
    LayoutSeparatesFiles
    ScanReadsFile
    ClosedSessionIsAccounted
PROPERTIES
    ImplementsAtomicDisk
    SessionEnds
