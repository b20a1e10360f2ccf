\* Every tree of up to six operators, and up to five batches allocated.
CONSTANTS
    MaxNodes = 6
    MaxAllocs = 5
    Plans <- MCPlans
SPECIFICATION Spec
INVARIANTS
    JoinsBuildAlone
    SpillContiguous
    SettledCallsSettled
PROPERTY NoAllocationAfterFirstRow
