\* A signal while the bridge reconnects.
CONSTANTS
    ChanCap = 1
    Retries = 1
    BufferCap = 1
    MaxEvents = 1
    BaseDelay = 3
    MaxBackoff = 30
    U32Max = 2
    U64Max = 63
    MaxPings = 1
SPECIFICATION FairSpec
PROPERTIES
    SignalStops
CHECK_DEADLOCK FALSE
