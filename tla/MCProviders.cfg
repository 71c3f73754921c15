SPECIFICATION MCSpec
CONSTANTS
    Proc = {p1, p2, p3}
    Periods = {"minute", "day"}
    Length <- MCLength
    Limit <- MCLimit
    Threshold = 2
    Cooldown = 1
    MaxTime = 2
    MaxFailures = 3
    Free = Free
    Caller <- MCCaller
    Process <- MCProcess
    ProcessOf <- MCProcessOf
    Interval = 2
    LockSeconds = 3
    WaitSeconds = 2
    Nobody = Nobody
    a1 = a1
    a2 = a2
    b1 = b1
    procA = procA
    procB = procB
SYMMETRY Symmetry
INVARIANTS UsageWithinLimits EveryCallIsCharged OpenMeansFailing
PROPERTIES ProcessSpacesItself LockSpacesProcesses
