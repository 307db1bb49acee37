SPECIFICATION LockSpec
CONSTANTS
  Contenders = {p1, p2, p3}
  MaxLocks = 3
  MaxCrashes = 2
  MaxTries = 2
CHECK_DEADLOCK FALSE
PROPERTY ImplementsExclusion
PROPERTY SurvivorEnters
