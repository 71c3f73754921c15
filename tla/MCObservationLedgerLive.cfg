\* Liveness: an import and a report that can deadlock; no symmetry.
SPECIFICATION FairSpec
CONSTANTS
    Proc = {p1, p2}
    Obs = {o1, o2, o3}
    stationA = stationA
    stationB = stationB
    place = place
    pumpA = pumpA
    pumpB = pumpB
    snapshot = snapshot
    market = market
    alice = alice
    Series = {stationA, stationB, place}
    Stations = {pumpA, pumpB}
    Snapshots = {snapshot}
    Markets = {market}
    Contributors = {alice, none}
    NoContributor = none
    NoRow = NoRow
    NoStation = NoStation
    Free = Free
    MaxTime = 0
    StationOf <- MCStationOf
    SnapshotOf <- MCSnapshotOf
    MarketOf <- MCMarketOf
    Targets = {"ACCEPTED", "RETRACTED"}
    Policy <- MCPolicy
    Batches <- MCDeadlockBatches
PROPERTY TransactionsEnd
