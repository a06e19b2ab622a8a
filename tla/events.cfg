SPECIFICATION MCSpec
CONSTANTS
    Clients = {a, b}
    InCap = 2
    ChanCap = 2
    Flushes = TRUE
    MaxEvents = 4
INVARIANTS TypeOK NoSendOnClosed NothingLostUnlessFull
PROPERTIES KeepsPromise HandlersEnd
CHECK_DEADLOCK FALSE
