\* Two executions and one stats() caller: the reader counts one execution,
\* then both fail before it reads error_count.
CONSTANTS
    Task = {t1, t2}
    Reader = {r1}
    Durations = {1}
    MaxExec = 3
SPECIFICATION Spec
INVARIANT StatsNoUnderflow
