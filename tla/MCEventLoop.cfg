\* One event loop: more events than the channel and the client buffer hold together.
CONSTANTS
    ChanCap = 2
    Retries = 3
    BufferCap = 2
    MaxEvents = 5
SPECIFICATION EventLoopSpec
INVARIANTS
    EventLoopTypeOK
    StatsMatchFates
    NoDiscardWithoutCancel
PROPERTIES
    ImplementsDelivery
    EventsResolved
CHECK_DEADLOCK FALSE
