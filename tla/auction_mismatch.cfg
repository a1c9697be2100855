SPECIFICATION Spec
CONSTANTS
    Events = {e1}
    NoEvent = NoEvent
    HandlerAttempts = 2
    MaxArrivals = 1
    MaxFaults = 0
    MaxCrashes = 0
    Users = {u1, u2}
    NoUser = NoUser
    Auctions = {a1}
    NoAuction = NoAuction
    Coins = {1}
    TieBreak = "earliest"
    Features = {f1}
    NoFeature = NoFeature
    MaxGifts = 0
    e1 = e1
    u1 = u1
    u2 = u2
    a1 = a1
    f1 = f1
INVARIANT MismatchIsDisputed
CHECK_DEADLOCK FALSE
