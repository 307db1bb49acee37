SPECIFICATION HostSpec
CONSTANTS
  Sessions = {s1, s2}
  MaxGrants = 2
  MaxCommands = 3
  MaxMishaps = 1
  MaxVersions = 2
CHECK_DEADLOCK FALSE
INVARIANT OneAuthority
