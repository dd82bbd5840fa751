CONSTANTS
    Tenants = {t1, t2}
    None = None
    Rejects = {"apply"}
    MaxCrashes = 0
SPECIFICATION Spec
INVARIANT
    OneTenantApplying
CHECK_DEADLOCK FALSE
