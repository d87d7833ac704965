CONSTANTS
    Signals = {TRUE}
    MaxSends = 1
SPECIFICATION Spec
PROPERTIES WaitSettles
CHECK_DEADLOCK FALSE
