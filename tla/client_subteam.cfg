\* A team of some of the threads: a thread sees no region for some points.
SPECIFICATION Spec
CONSTANTS
    Thread = {m, w1}
    Master = m
    Fn = {f1}
    Habits = {"subteam"}
    IgnoreSingle = TRUE
    TraceBeforeRoi = TRUE
    Debug = FALSE
    MaxSynch = 2
INVARIANT
    NoMissingRegion
