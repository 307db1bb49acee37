SPECIFICATION Spec
CONSTANTS
  Asked = {"review"}
  MayAutoMerge = {TRUE}
  Outcomes = {"changes_requested"}
  PersonMay = {"review"}
  MaxActs = 2
  MaxAttempts = 3
  MaxFaults = 2
PROPERTY NoRestoreAbandons
