SPECIFICATION Spec
CONSTANTS
  h1 = h1
  h2 = h2
  Hosts = {h1, h2}
  Logins = {h1, h2}
  Person = Person
  Login <- MCLogin
  PersonAdds = {"explore", "implement"}
  PersonRemoves = {}
  MaxPersonActs = 3
  MaxAttempts = 3
  MaxFaults = 0
  MaxLag = 0
SYMMETRY HostsAreAlike
CHECK_DEADLOCK FALSE
PROPERTY HandsOffWinner
