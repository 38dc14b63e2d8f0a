\* A single without a barrier of its own, under -ignore_single.
SPECIFICATION Spec
CONSTANTS
    Thread = {m, w1}
    Master = m
    Fn = {f1}
    Habits = {"nowait"}
    IgnoreSingle = TRUE
    TraceBeforeRoi = TRUE
    Debug = TRUE
    MaxSynch = 2
INVARIANT
    OutputComplete
