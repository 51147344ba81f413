CONSTANTS
    Records = {f1, f2, sum, snap}
    Cap = 2
    Stop = Stop
    Fills = {f1, f2}
    Summary = sum
    Snapshot = snap
SPECIFICATION MetricsFairSpec
INVARIANTS MetricsTypeOK NothingLost CountedOnce
PROPERTIES WaitingServed CloseEnds FillsMeasured
