SPECIFICATION FairSpec
CONSTANTS
    c1 = c1
    c2 = c2
    Callers <- TwoCallers
    N = 2
    MaxLeases = 2
    MaxStarts = 2
    MaxTimedStops = 1
    StartMayFail = TRUE
INVARIANT StopKeepsOrder
PROPERTIES PoolsOutliveLeases StopCompletes
