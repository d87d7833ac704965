\* One address banned after 2 failures; cleanup sweeps entries older than 2.
CONSTANTS
    i1 = i1
    i2 = i2
    IP <- MCSingleIP
    BaseDelay = 1
    MaxDelay = 3
    MaxFailures = 2
    MaxAges = {2}
    MaxTime = 3
    FailureBound = 3
SPECIFICATION Spec
INVARIANT SessionBan
