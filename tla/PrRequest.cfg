SPECIFICATION Spec
SYMMETRY HostSymmetry
CONSTANTS
  Hosts = {h1, h2}
  None = None
  Asked = {{"review"}}
  PersonAdds = {"implement", "review", "blocked"}
  PersonRemoves = {"review"}
  MaxPersonActs = 2
  MaxAttempts = 2
  MaxFaults = 1
CHECK_DEADLOCK FALSE
INVARIANT OneClaimPerRequest
INVARIANT ConsumesWhatItBound
