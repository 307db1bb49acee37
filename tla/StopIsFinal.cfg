SPECIFICATION Spec
CONSTANTS
  Commits = {c0, fix, flaw}
  Start = c0
  Passing = {c0, fix}
  Straying = {}
  MaxActs = 1
  MaxMoves = 2
  MaxFaults = 1
  MaxRuns = 1
CHECK_DEADLOCK FALSE
PROPERTY StopIsFinal
