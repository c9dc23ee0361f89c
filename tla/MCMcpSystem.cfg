SPECIFICATION SystemSpec
CONSTANTS
    Calls <- MCCalls
    Bridges <- MCBridges
    Plans <- MCPlans
    Max429 = 1
    CollabAttempts = 2
    MaxAttempts = 2
    Max429Retries = 1
    DefaultRetry = 3
    MaxRetry = 5000
    LastMillis = 1999999000
    Payloads <- MCPayloads
    U64Max = 1999999000
    DefaultTtl = 3600
    Now = 1000
    Workspaces <- MCWorkspaces
    Lifetimes <- MCLifetimes
    MaxListed = 2
    Primary = "w1"
    TagIds <- MCTagIds
    AssocIds <- MCAssocIds
    MaxQueued = 1
    MaxVersion = 1
    Refreshers <- MCRefreshers
    MaxChanges = 1
    TagAttributes <- MCTagAttributes
    AssocAttributes <- MCAssocAttributes
    ClassNames <- MCClassNames
    MaxEvents = 4
    MaxDepth = 4
INVARIANTS
    TypeOK
    AppliedAsReported
    GiveUpOnlyUnderContention
    NoDuplicates
    AuditTrail
    ReportedExist
    RefusalHasCause
    MarkupStored
    TransportsAgree
    FailuresSurface
    AcceptedConfigServes
    
    TextKept
PROPERTIES
    ImplementsIssueCounter
    EveryCallEnds
