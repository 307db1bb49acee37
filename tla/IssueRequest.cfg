SPECIFICATION Spec
CONSTANTS
  h1 = h1
  h2 = h2
  Hosts = {h1, h2}
  Logins = {h1, h2}
  Person = Person
  Login <- MCLogin
  PersonAdds = {"explore", "implement", "blocked", "inProgress"}
  PersonRemoves = {"explore", "implement", "blocked"}
  MaxPersonActs = 2
  MaxAttempts = 2
  MaxFaults = 1
  MaxLag = 1
SYMMETRY HostsAreAlike
CHECK_DEADLOCK FALSE
INVARIANTS
  ReceiptsAreOwned
  OneAttemptPerActiveState
  ReleasedOrNamed
PROPERTY LoserHandsOff
