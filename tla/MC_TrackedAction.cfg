\* Two concurrent executions, one stats() caller, at most 3 executions.
CONSTANTS
    Task = {t1, t2}
    Reader = {r1}
    Durations = {1}
    MaxExec = 3
SPECIFICATION Spec
INVARIANTS ErrorsWithinExecutions CountsCover
