SPECIFICATION ProcessSpec
CONSTANTS
    None = None
    Unset = Unset
    Clis <- MCClis
    MaxHandshakes = 1
INVARIANT RedirectNeedsOnlyTcp
CHECK_DEADLOCK FALSE
