\* A needed volume that rounds to the smallest one counts as none.
SPECIFICATION PlansSpec
INVARIANTS CoveredRoutesAreDriven
CONSTANTS
    Capacity = 24
    Near = 5
    Step = 8
    Grain = 4
    Search = 4
    Trips <- AllTrips
    Roads <- GapRoads
    Alternatives <- MarketAlternatives
    FirstAlternatives <- MergedAlternatives
    Starts = {8, 24}
    Reported = {1}
    Requests <- MarketRequests
    MaxAlternatives = 2
    TimeValue = 3
    StopPenalty = 2
    Cent = 2
    ProviderErrors <- Failures
    Routes <- RoutesOfTwo
    Stations <- Pumps
    Sets <- TwoPumps
    Corridor = 2
    CellWidth = 2
    CellHeight = 3
    Parts = 2
CHECK_DEADLOCK FALSE
