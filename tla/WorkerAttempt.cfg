SPECIFICATION Spec
CONSTANTS
  MaxFaults = 2
  MaxTurns = 1
  MaxMishaps = 1
INVARIANT ReleasedIsExplained
INVARIANT PersistedIsPublic
PROPERTY LiveWorkEndsForAReason
PROPERTY JournalSpec
PROPERTY MonitoredSettles
