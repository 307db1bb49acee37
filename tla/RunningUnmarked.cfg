SPECIFICATION Spec
CONSTANTS
  Issues = {1, 2}
  Body <- MCBody
  Related <- MCRelated
  Texts = {"contract", "bare", "plan"}
  Starts <- MCStarts
  Prints = {"p"}
  Nobody = Nobody
  Drivers = {"d1"}
  Machines = {"m1"}
  MachineOf <- MCMachineOf
  MaxActs = 1
  MaxFaults = 0
  MaxRequests = 2
CHECK_DEADLOCK FALSE
INVARIANT RunningIsMarked
