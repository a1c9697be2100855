SPECIFICATION Spec
CONSTANTS
    Events = {e1, e2}
    NoEvent = NoEvent
    HandlerAttempts = 2
    MaxArrivals = 3
    MaxFaults = 2
    MaxCrashes = 1
    Users = {u1, u2}
    NoUser = NoUser
    Auctions = {a1}
    NoAuction = NoAuction
    Coins = {0, 1, 2}
    TieBreak = "earliest"
    Features = {f1}
    NoFeature = NoFeature
    MaxGifts = 3
    e1 = e1
    e2 = e2
    u1 = u1
    u2 = u2
    a1 = a1
    f1 = f1
INVARIANTS TypeOK PlayedOnce PlayedWhenQuiet BoardIsTheSum CompletedIsChecked NamedWinnersJudged
    ActiveIsCounted LastCatalogueDecides WithdrawnIsRefused RulesMeetReference OrderDoesNotDecide
SYMMETRY Symmetry
CHECK_DEADLOCK FALSE
