CONSTANTS
    Tenants = {t1, t2}
    None = None
    Rejects = {}
    MaxCrashes = 0
SPECIFICATION Spec
PROPERTY
    QueuedAbortCancels
CHECK_DEADLOCK FALSE
