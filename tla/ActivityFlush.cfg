SPECIFICATION FairWriterSpec
CONSTANTS
    k1 = k1
    k2 = k2
    r1 = r1
    f1 = f1
    Keys = {k1, k2}
    Times = {0, 1}
    Recorders = {r1}
    Flushers = {f1}
    Capacity = 2
    MaxAccepted = 2
    None = None
INVARIANTS
    FlushCoversAccepted
PROPERTIES
    FlushWaitsOnlyForAccepted
    FlushReturns
    AcceptedIsTried
