SPECIFICATION GiftSpec
CONSTANTS
    Events = {e1}
    NoEvent = NoEvent
    HandlerAttempts = 2
    MaxArrivals = 1
    MaxFaults = 1
    MaxCrashes = 0
    e1 = e1
INVARIANT MarkedWasPlayed
CHECK_DEADLOCK FALSE
