\* The destination in range is preferred to a cheaper station before it.
SPECIFICATION PlansSpec
INVARIANTS PurchasesAreCheapest
CONSTANTS
    Capacity = 24
    Near = 5
    Step = 8
    Grain = 4
    Search = 4
    Trips <- AllTrips
    Roads <- CostRoads
    Alternatives <- MarketAlternatives
    FirstAlternatives <- MergedAlternatives
    Starts = {8, 24}
    Reported = {1}
    Requests <- MarketRequests
    MaxAlternatives = 2
    TimeValue = 3
    StopPenalty = 2
    Cent = 2
    ProviderErrors <- Failures
    Routes <- RoutesOfTwo
    Stations <- Pumps
    Sets <- TwoPumps
    Corridor = 2
    CellWidth = 2
    CellHeight = 3
    Parts = 2
CHECK_DEADLOCK FALSE
