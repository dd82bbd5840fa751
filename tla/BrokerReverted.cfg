CONSTANTS
    Descriptors = {"v1", "v3"}
    Host <- TwoHosts
    Hash <- TwoHashes
    Contested = {}
    None = None
    MaxEvents = 3
    MaxVisits = 1
SPECIFICATION Spec
INVARIANT
    LastHashIsActive
CHECK_DEADLOCK FALSE
