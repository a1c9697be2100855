SPECIFICATION Spec
CONSTANTS
    Events = {a, b, f}
    Foreign = {f}
    MaxDeliveries = 1
    BatchSize = 2
    DedupSize = 1
    StreamMaxLen = 1
    SlowRestart = FALSE
    MaxMessages = 2
    MaxFaults = 2
    MaxCrashes = 1
    a = a
    b = b
    f = f
INVARIANTS TypeOK IInv NothingVanishes DuplicatesWereFinished OnlyPoisonDeadLettered DeadLettersKept
PROPERTIES ImplementsChannel
SYMMETRY Symmetry
CHECK_DEADLOCK FALSE
