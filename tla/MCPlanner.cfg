\* Three tables and every choice of up to three predicates, in the order of the
\* pool, with every combination of known and unknown statistics; sorts above
\* scans, filters, projections and joins.
CONSTANTS
    BytesPerRow = 128
    BytesPerBlock = 4096
    Tables <- MCTables
    Queries <- MCQueries
    Statistics <- MCStatistics
SPECIFICATION Spec
INVARIANTS
    PlanKeepsRows
    SortedResultIsSorted
    NoAvoidableCross
    LargestIsNotBuilt
