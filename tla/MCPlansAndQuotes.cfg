\* Every route, request and catalogue of the settings; three observations that
\* come, go, take effect and expire.
SPECIFICATION QuotedPlansSpec
INVARIANTS PlanIsCheapest RefusedOnlyIfImpossible FuelStaysInBounds ValidatedRoutesAreDriven BestAlternativeSelected RefusedOnlyIfNoneDrivable RefusedOnlyIfUnreachable StationsAreMatched QuoteRestsOnUsableEvidence ConsensusIsIndependent
PROPERTY WeakerEvidenceNeverDisplaces
CONSTANTS
    Capacity = 24
    Near = 5
    Step = 8
    Grain = 4
    Search = 4
    Trips <- AllTrips
    Roads <- GapRoads
    Alternatives <- MarketAlternatives
    FirstAlternatives <- MergedAlternatives
    Starts = {8, 24}
    Reported = {1}
    Requests <- MarketRequests
    MaxAlternatives = 2
    TimeValue = 3
    StopPenalty = 2
    Cent = 2
    ProviderErrors <- Failures
    Routes <- RoutesOfTwo
    Stations <- Pumps
    Sets <- TwoPumps
    Corridor = 2
    CellWidth = 2
    CellHeight = 3
    Parts = 2
    alice = alice
    bob = bob
    carol = carol
    NoContributor = none
    Grade = "regular"
    Reports <- MCReports
    MaxReports = 3
    MaxTime = 3
    AllowStale = TRUE
    AbsoluteTolerance = 3
    PercentTolerance = 3
\* A plan ends, and so does the clock.
CHECK_DEADLOCK FALSE
