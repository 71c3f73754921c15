SPECIFICATION MCSpec
CONSTANTS
    Trips = {1, 3}
    FirstTimeout = 1
    RetryTimeout = 1
    Deadline = 3
    PollTime = 1
    MaxDuration = 10
    MaxAge = 11
    Nobody = Nobody
    Requests = {r1, r2}
    Callers <- MCCallers
    LimitSettings <- MCLimits
    Window = 2
    MaxTime = 3
    a = a
    b = b
CHECK_DEADLOCK FALSE
INVARIANTS AnsweredInTime PageFollowsLastTrip WithinLimit RejectionIsEarned
PROPERTY LoadingEnds
