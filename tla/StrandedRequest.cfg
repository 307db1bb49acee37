SPECIFICATION Spec
CONSTANTS
  Hosts = {h1}
  None = None
  Asked = {{"review"}}
  PersonAdds = {"review"}
  PersonRemoves = {}
  MaxPersonActs = 1
  MaxAttempts = 1
  MaxFaults = 0
CHECK_DEADLOCK FALSE
PROPERTY NoJournalStrandsARequest
