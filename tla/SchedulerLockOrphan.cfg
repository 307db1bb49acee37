SPECIFICATION Spec
CONSTANTS
  Hosts = {h1, h2, h3}
  MaxInodes = 3
  MaxCrashes = 0
CHECK_DEADLOCK FALSE
INVARIANT OneOwner
