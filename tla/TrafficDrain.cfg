SPECIFICATION FairTrafficSpec
CONSTANTS
    r1 = r1
    r2 = r2
    r3 = r3
    Requests = {r1, r2, r3}
INVARIANTS
    TrafficTypeOK
    ActiveIsExact
    DrainIsFinal
PROPERTIES
    StopIsHeard
    DrainIsHeard
CHECK_DEADLOCK FALSE
