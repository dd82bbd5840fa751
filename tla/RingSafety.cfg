\* Two tenants, three crashes, every injected dependency may reject.
CONSTANTS
    Tenants = {t1, t2}
    None = None
    Rejects = {"backup", "apply", "verify", "revert", "stop", "page", "persist"}
    MaxCrashes = 3
SPECIFICATION Spec
SYMMETRY Symmetry
INVARIANTS
    TypeOK
    OneInsideLock
    LiveMigrationUntouched
    AlwaysServed
    NobodyStranded
PROPERTIES
    LifecycleSpec
    ApplyOnce
    NoRetryOfItself
CHECK_DEADLOCK FALSE
