\* A worker is created after the end of the region of interest.
SPECIFICATION Spec
CONSTANTS
    Thread = {m, w1}
    Master = m
    Fn = {f1}
    Habits = {"late_team"}
    IgnoreSingle = TRUE
    TraceBeforeRoi = TRUE
    Debug = FALSE
    MaxSynch = 2
INVARIANT
    NoNullData
