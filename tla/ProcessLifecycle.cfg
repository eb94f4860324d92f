SPECIFICATION FairProcessSpec
CONSTANTS
    None = None
    Unset = Unset
    Clis <- MCClis
    MaxHandshakes = 2
INVARIANT ReadinessIsVerified
INVARIANT DescriptorReleased
INVARIANT FailureIsReported
 
INVARIANT PidOutlivesListeners
INVARIANT DefaultPortsDistinct
PROPERTY AcceptsStopBeforeDrain
PROPERTY ShutdownEnds
CHECK_DEADLOCK FALSE
