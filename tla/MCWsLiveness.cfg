\* One connection as its callers see it: what calls return, and that they do under the
\* fairness of the runtime.
CONSTANTS
    Callers = {c1, c2}
    NoCaller = none
    MaxPending = 2
    WriteCap = 2
    EventCap = 1
    MaxId = 2
    MaxPushes = 1
SPECIFICATION FairSpec
PROPERTIES
    ImplementsRequestReply
    CallsReturn
    DisconnectDrainsPending
    HandshakeEnds
CHECK_DEADLOCK FALSE
