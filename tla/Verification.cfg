SPECIFICATION MCSpec
CONSTANTS
  Commits = {c0, fix, flaw}
  Start = c0
  Passing = {c0, fix}
  Straying = {}
  MaxActs = 1
  MaxMoves = 1
  MaxFaults = 1
  MaxRuns = 1
  ModeIsGiven = TRUE
  Contracted = {1, 2}
  Fits <- MCFits
  Broken = {2}
  MaxHeads = 3
  MaxBases = 3
  MaxAsks = 1
  MaxMishaps = 1
CHECK_DEADLOCK FALSE
INVARIANTS PushIsVerified OneRepairPerEpisode
PROPERTIES SignalStopsThePush FailureIsTold StaleIsStopped PassingIsPushed
