SPECIFICATION MCSpec
CONSTANTS
    Clients = {a, b}
    InCap = 2
    ChanCap = 2
    Flushes = FALSE
    MaxEvents = 4
INVARIANT NoneRefused
CHECK_DEADLOCK FALSE
