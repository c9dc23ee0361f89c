\* The watchdog and the connections.
CONSTANTS
    ChanCap = 1
    Retries = 1
    BufferCap = 1
    MaxEvents = 1
    BaseDelay = 3
    MaxBackoff = 30
    U32Max = 2
    U64Max = 63
    MaxPings = 1
SPECIFICATION Spec
PROPERTIES
    PingsOnlyWhenConnected
CHECK_DEADLOCK FALSE
