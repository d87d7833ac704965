\* Two callers, TTL 2, one data change, three ticks: time passes between
\* the two clock reads of a hit, and a store waits for a reader.
CONSTANTS
    Caller = {p1, p2}
    TTL = 2
    MaxVersion = 1
    MaxTime = 3
SPECIFICATION Spec
PROPERTY HitAgeIsElapsed
