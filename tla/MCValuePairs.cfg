\* Bytes of two bits: integers of 4 and 6 bits, floats of 1 + 2 + 1 and 1 + 3 + 2
\* bits with halves, so that integers up to 8 are exact, and strings.
CONSTANTS
    ByteBase = 4
    NumberBytes <- MCNumberBytes
    MantissaBits <- MCMantissaBits
    One = 2
    Schemas <- MCSchemas
    RowsOf <- MCRowsOf
    SortSpecs <- MCSortSpecs
SPECIFICATION PairSpec
INVARIANTS
    KeyOrderAgrees
    PredicatesExact
    JoinKeysMatchWithinType
