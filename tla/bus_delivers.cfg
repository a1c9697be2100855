SPECIFICATION BoundedFairSpec
CONSTANTS
    Events = {a, b}
    Foreign = {}
    MaxDeliveries = 1
    BatchSize = 2
    DedupSize = 1
    StreamMaxLen = 0
    SlowRestart = TRUE
    MaxMessages = 3
    MaxFaults = 0
    MaxCrashes = 2
    a = a
    b = b
PROPERTIES EveryMessageSettles WindowDecides
CHECK_DEADLOCK FALSE
