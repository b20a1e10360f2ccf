\* Two queries, the second enabled or not, with results of up to three rows,
\* equal, permuted, too short or too long; pipes of two lines; a monitor that is
\* started with no descriptors but the standard ones, or with others as well.
CONSTANTS
    PipeCapacity = 2
    MaxFd = 15
    Files <- MCFiles
    Rows = {"x", "y"}
    Suites <- MCSuites
    Results <- MCResults
    Inherited <- MCInherited
SPECIFICATION Spec
INVARIANTS
    VerdictsAreRight
    RunsFollowSuite
    NoProcessLeft
    DescriptorsInPlace
PROPERTY
    MonitorEnds
