CONSTANTS
    Tenants = {t1, t2}
    None = None
    Rejects = {"verify", "revert"}
    MaxCrashes = 2
SPECIFICATION FairSpec
PROPERTIES
    FailureIsPaged
    BumpRests
CHECK_DEADLOCK FALSE
