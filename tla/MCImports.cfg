\* Two overlapping runs of the import commands, and the two parsers.
SPECIFICATION ParsersSpec
CONSTANTS
    Proc = {p1, p2}
    v1 = v1
    v2 = v2
    in = in
    pumpA = pumpA
    pumpB = pumpB
    delhi = delhi
    Versions = {v1, v2}
    Markets = {in}
    SourceIds = {"node/1", "node-1", "way/2"}
    StableIds = {pumpA, pumpB}
    Places = {delhi}
    Checksums = {"c1", "c2", "c3", "m1"}
    NoSnapshot = NoSnapshot
    NoBatch = NoBatch
    NoVersion = NoVersion
    NoStation = NoStation
    NoProduct = NoProduct
    Free = Free
    MarketOf <- MCMarketOf
    StableId <- MCStableId
    StationFiles <- MCStationFiles
    PriceFiles <- MCPriceFiles
    Contents <- MCContents
    FeatureLists <- MCFeatureLists
    Answers <- MCAnswers
SYMMETRY Symmetry
CHECK_DEADLOCK FALSE
INVARIANTS OneActivePerMarket BatchIsWhole RefreshNeverCollides DeadlockNeedsOlderRow FilesNormalizeWell AnswersParseWell
PROPERTIES CatalogueNeverLost AcceptedAgainstActive
