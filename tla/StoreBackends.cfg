SPECIFICATION BackendSpec
CONSTANTS
    k1 = k1
    t1 = t1
    t2 = t2
    None = None
    Corrupt = Corrupt
    Keys = {k1}
    Targets = {t1, t2}
    MaxTime = 2
    MaxAttempts = 2
INVARIANTS
    PooledConnectionIsClean
PROPERTIES
    ImplementsContract
    CallsReturn
