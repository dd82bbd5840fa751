CONSTANTS
    Tenants = {t1, t2}
    None = None
    Rejects = {"stop"}
    MaxCrashes = 1
SPECIFICATION Spec
INVARIANT
    RevertedIsTornDown
CHECK_DEADLOCK FALSE
