\* One caller whose fetch straddles a change and an invalidate.
CONSTANTS
    Caller = {p1, p2}
    TTL = 2
    MaxVersion = 2
    MaxTime = 4
SPECIFICATION Spec
INVARIANT InvalidateDropsStale
