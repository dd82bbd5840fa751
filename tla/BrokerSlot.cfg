CONSTANTS
    Descriptors = {"v1", "v2", "v3", "other"}
    Host <- TwoHosts
    Hash <- TwoHashes
    Contested = {"h2"}
    None = None
    MaxEvents = 5
    MaxVisits = 1
SPECIFICATION FairSpec
INVARIANTS
    TypeOK
    KeepsServing
    EdgeFollowsRecord
    CookieOfThisTenancy
    FreeIsEmpty
    OneSlotPerHost
    StopAfterTraffic
PROPERTIES
    VisitorsKept
    TenancySpec
    Settles
CHECK_DEADLOCK FALSE
