SPECIFICATION Spec
CONSTANTS
  Issues = {1, 2}
  Body <- MCBody
  Related <- MCRelated
  Texts = {"contract", "bare", "plan"}
  Starts <- MCStarts
  Prints = {"p"}
  Nobody = Nobody
  Drivers = {"d1", "d2"}
  Machines = {"m1", "m2"}
  MachineOf <- MCMachineOf
  MaxActs = 1
  MaxFaults = 1
  MaxRequests = 2
INVARIANT StopIsExplained
PROPERTY WorkIsKept
PROPERTY RequestIsAnswered
CHECK_DEADLOCK FALSE
