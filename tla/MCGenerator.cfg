\* All tables of up to four lines with at most one that is out of the ordinary;
\* blocks of two rows, samples of three values in two buckets, exact sets of two.
CONSTANTS
    ByteBase = 4
    NumberBytes <- MCNumberBytes
    MantissaBits <- MCMantissaBits
    One = 4
    BlockSize = 13
    reservoir_capacity = 3
    exact_limit = 2
    max_histogram_buckets = 2
    max_string_unique_for_histogram = 2
    rows_per_batch = 2
    Quote = 3
    Reread <- MCReread
    Columns <- MCColumns
    Fields <- MCFields
    Tables <- MCTables
SPECIFICATION Spec
INVARIANTS
    OutputsAgree
    StatsDescribeColumn
    HistogramCoversSample
