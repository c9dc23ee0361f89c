INIT StartupInit
NEXT StartupNext
CONSTANTS
    U64Max = 1999999000
    DefaultTtl = 3600
    Now = 1000
    Workspaces <- MCWorkspaces
    Lifetimes <- MCLifetimes
    MaxListed = 2
    Primary = "w1"
INVARIANT RestAddressed
CHECK_DEADLOCK FALSE
