\* The program the tool is documented for: every team has all the threads.
SPECIFICATION FairSpec
CONSTANTS
    Thread = {m, w1, w2}
    Master = m
    Fn = {f1}
    Habits = {}
    IgnoreSingle = TRUE
    TraceBeforeRoi = TRUE
    Debug = TRUE
    MaxSynch = 2
INVARIANTS
    TypeOK
    Aligned
    RegionNames
    RefsLag
    NoNullData
    NoMissingRegion
    OutputComplete
PROPERTIES
    ExitSaves
