\* The token is compared and the lock deleted in two calls.
SPECIFICATION Spec
CONSTANTS
    Request = {r1, r2}
    MaxVersion = 1
    MaxLife = 1
    LockSeconds = 1
    WaitSeconds = 1
    MaxSeconds = 1
    Nobody = Nobody
PROPERTY ReplacementLockSurvives
