\* Safety: two processes, three observations, a moving clock.
SPECIFICATION Spec
CONSTANTS
    Proc = {p1, p2}
    Obs = {o1, o2, o3}
    stationA = stationA
    stationB = stationB
    place = place
    pumpA = pumpA
    pumpB = pumpB
    snapshot = snapshot
    market = market
    alice = alice
    Series = {stationA, stationB, place}
    Stations = {pumpA, pumpB}
    Snapshots = {snapshot}
    Markets = {market}
    Contributors = {alice, none}
    NoContributor = none
    NoRow = NoRow
    NoStation = NoStation
    Free = Free
    MaxTime = 2
    StationOf <- MCStationOf
    SnapshotOf <- MCSnapshotOf
    MarketOf <- MCMarketOf
    Targets = {"ACCEPTED", "RETRACTED"}
    Policy <- MCPolicy
    Batches <- MCBatches
SYMMETRY Symmetry
INVARIANTS TypeOK NoAcceptedTwins AuditTrailReplays WatermarkCountsChanges DeadlockNeedsBatch
PROPERTY ImplementsCatalogue
