\* Up to 3 host sends, with and without a receiver; two callers of one
\* ManagedService.
CONSTANTS
    Signals = {TRUE, FALSE}
    MaxSends = 3
    Caller = {s1, s2}
SPECIFICATION ServiceSpec
INVARIANTS ReturnsOnShutdown
PROPERTIES ShutdownNoticed
CHECK_DEADLOCK FALSE
