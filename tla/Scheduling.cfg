SPECIFICATION MCSpec
CONSTANTS
  Hosts = {h1, h2, h3}
  MaxInodes = 4
  MaxCrashes = 2
  Sessions = {s1, s2}
  MaxGrants = 2
  MaxCommands = 3
  MaxMishaps = 1
  MaxVersions = 2
CHECK_DEADLOCK FALSE
INVARIANT OneAuthorizedDriver
PROPERTIES ImplementsExclusion SurvivorServes StopFreesTheRepository ServedOrShown
