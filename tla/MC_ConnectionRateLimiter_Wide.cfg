\* One address with max_failures = 40 (with_config): failure counts reach
\* 33, where 2^32 no longer fits the u32 multiplier.
CONSTANTS
    i1 = i1
    i2 = i2
    IP <- MCSingleIP
    BaseDelay = 1
    MaxDelay = 3
    MaxFailures = 40
    MaxAges = {}
    MaxTime = 1
    FailureBound = 34
SPECIFICATION Spec
INVARIANT BackoffRespected
