\* A burst of a request and a half, then one every two ticks.
CONSTANTS
    p1 = p1
    c1 = c1
    x1 = x1
    Placements <- P
    Cancels <- C
    Closes <- X
    Capacity = 3
    Cost = 2
    MaxRetries = 1
    Delays <- Ds
    RetryAfter = {0, 2}
    Horizon = 2
    MaxLate = 1
SPECIFICATION FairSpec
INVARIANTS Throttled AtMostOnce CloseNeverFlips OkIsDone
PROPERTIES NotEarly CallsEnd
