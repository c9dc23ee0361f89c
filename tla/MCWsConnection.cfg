\* Safety of one connection: three callers race for a cap of one.
CONSTANTS
    Callers = {c1, c2, c3}
    NoCaller = none
    MaxPending = 1
    WriteCap = 1
    EventCap = 1
    MaxId = 3
    MaxPushes = 3
SPECIFICATION Spec
SYMMETRY CallerSymmetry
INVARIANTS
    TypeOK
    CapOvershootBounded
    PendingIsInFlight
    WaiterHasSender
    PushesAccountedFor
CHECK_DEADLOCK FALSE
