SPECIFICATION Spec
CONSTANTS
  Threads <- MCThreads
  Master = 0
  NThreads = 2
  Iterations = 2
  MaxPhases = 2
  Texts <- Plain
  Platforms <- MCPlatforms
  MaxRuns = 1
  MaxFaults = 0
INVARIANT InstructionsOfIteration
CHECK_DEADLOCK FALSE
