\* Sorts above projections that give a column the name of an ordered one.
CONSTANTS
    BytesPerRow = 128
    BytesPerBlock = 4096
    Tables <- MCTables
    Queries <- MCRenamedSorts
    Statistics <- MCStatistics
SPECIFICATION Spec
INVARIANT
    SortedResultIsSorted
