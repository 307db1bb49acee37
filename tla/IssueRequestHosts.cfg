SPECIFICATION Spec
CONSTANTS
  h1 = h1
  h2 = h2
  h3 = h3
  Hosts = {h1, h2, h3}
  Logins = {h1, h2, h3}
  Person = Person
  Login <- MCLogin
  PersonAdds = {"explore", "implement", "blocked"}
  PersonRemoves = {}
  MaxPersonActs = 2
  MaxAttempts = 3
  MaxFaults = 0
  MaxLag = 0
SYMMETRY HostsAreAlike
CHECK_DEADLOCK FALSE
INVARIANT LossIsVisible
