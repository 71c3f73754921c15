\* Two requests while prices are published, switched off and expire.
SPECIFICATION FairSpec
CONSTANTS
    Request = {r1, r2}
    MaxVersion = 2
    MaxLife = 2
    LockSeconds = 1
    WaitSeconds = 1
    MaxSeconds = 2
    Nobody = Nobody
INVARIANTS AnswersUseOwnQuotes PricesNotAheadOfWatermark PlansLapseWithPrices
PROPERTY RequestsEnd
