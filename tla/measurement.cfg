SPECIFICATION FairSpec
CONSTANTS
  Threads <- MCThreads
  Master = 0
  NThreads = 2
  Iterations = 2
  MaxPhases = 2
  Texts <- MCTexts
  Platforms <- MCPlatforms
  MaxRuns = 2
  MaxFaults = 1
INVARIANTS
  TypeOK
  MarksPaired
  RowsTrue
  SameNumbering
  TuplesOfOneRun
  AveragesComplete
  TablesOfOneRun
  PhasesCoverWhole
  EstimateSound
PROPERTY ScriptEnds
CHECK_DEADLOCK FALSE
