SPECIFICATION MCSpec
CONSTANTS
    Requests = {r1, r2, r3}
    QueueCapacity = 2
    MaxGeneration = 3
    None = None
    KeyOrder <- MCKeyOrder
    BadTargets <- MCBadTargets
    Paths <- MCPaths
    HealthPath <- MCHealthPath
    Hosts <- MCHosts
    MaxRetries = 1
    MaxEvents = 1
INVARIANTS
    LeaseIsHonoured
    FailedIsNotRetried
    
CHECK_DEADLOCK FALSE
