\* A third report far away breaks the agreement of two.
SPECIFICATION ResolverSpec
CONSTANTS
    alice = alice
    bob = bob
    carol = carol
    NoContributor = none
    Grade = "regular"
    Reports <- MCReports
    MaxReports = 3
    MaxTime = 0
    AllowStale = TRUE
    AbsoluteTolerance = 3
    PercentTolerance = 3
PROPERTY OutlierLeavesConsensus
CHECK_DEADLOCK FALSE
