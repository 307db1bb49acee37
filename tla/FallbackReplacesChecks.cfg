SPECIFICATION MCSpec
CONSTANTS
  Commits = {c0}
  Start = c0
  Passing = {c0}
  Straying = {}
  MaxActs = 0
  MaxMoves = 0
  MaxFaults = 0
  MaxRuns = 0
  ModeIsGiven = FALSE
  Contracted = {1, 2}
  Fits <- MCFits
  Broken = {}
  MaxHeads = 2
  MaxBases = 2
  MaxAsks = 0
  MaxMishaps = 0
CHECK_DEADLOCK FALSE
PROPERTY FallbackReplacesChecks
