\* An Int32 and an Int64 column, with values both of them and f64 hold exactly.
CONSTANTS
    ByteBase = 4
    NumberBytes <- MCNumberBytes
    MantissaBits <- MCMantissaBits
    One = 2
    Schemas <- MCIntegerSchemas
    RowsOf <- MCIntegerRowsOf
    SortSpecs <- MCSortSpecs
SPECIFICATION PairSpec
INVARIANT JoinKeysMatchFilter
