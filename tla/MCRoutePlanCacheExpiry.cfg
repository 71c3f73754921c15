\* A plan is kept a second at least, and from when it is stored.
SPECIFICATION Spec
CONSTANTS
    Request = {r1, r2}
    MaxVersion = 1
    MaxLife = 1
    LockSeconds = 1
    WaitSeconds = 1
    MaxSeconds = 1
    Nobody = Nobody
INVARIANT ResultsExpireWithPrices
