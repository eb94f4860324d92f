SPECIFICATION WriterSpec
CONSTANTS
    k1 = k1
    k2 = k2
    r1 = r1
    r2 = r2
    Keys = {k1, k2}
    Times = {0, 1, 2}
    Recorders = {r1, r2}
    Flushers = {}
    Capacity = 1
    MaxAccepted = 3
    None = None
SYMMETRY WriterSymmetry
INVARIANTS
    WriterTypeOK
    ReadyIsExact
    CoalescingKeepsNewest
    UncountedIsPersisted
