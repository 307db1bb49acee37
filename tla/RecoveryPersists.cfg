SPECIFICATION Spec
CONSTANTS
  MaxFaults = 1
  MaxTurns = 0
  MaxMishaps = 0
PROPERTY RecoveryPersists
