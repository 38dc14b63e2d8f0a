\* A program that does everything the client does not expect.
SPECIFICATION Spec
CONSTANTS
    Thread = {m, w1}
    Master = m
    Fn = {f1}
    Habits <- MCAnyHabits
    IgnoreSingle = FALSE
    TraceBeforeRoi = FALSE
    Debug = FALSE
    MaxSynch = 3
INVARIANTS
    MasterComplete
    WorkersNotAhead
PROPERTIES
    SavesAppend
