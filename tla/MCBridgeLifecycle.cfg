\* The whole run of the bridge: start-up, reconnects, backlog and shutdown.
CONSTANTS
    ChanCap = 1
    Retries = 1
    BufferCap = 1
    MaxEvents = 2
    BaseDelay = 3
    MaxBackoff = 30
    U32Max = 7
    U64Max = 63
    MaxPings = 1
SPECIFICATION FairSpec
INVARIANTS
    TypeOK
    FlushCoversForwarded
    CutOffIsLast
PROPERTIES
    ImplementsDelivery
    BackoffNeverShrinks
    DropLeadsToReconnect
    ShutdownEnds
CHECK_DEADLOCK FALSE
