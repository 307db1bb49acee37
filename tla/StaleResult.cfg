SPECIFICATION FairSpec
CONSTANTS
  Asked = {"review"}
  MayAutoMerge = {FALSE}
  Outcomes = {"approved", "human_required"}
  PersonMay = {"push"}
  MaxActs = 1
  MaxAttempts = 2
  MaxFaults = 0
PROPERTY StaleResultReturnsToReview
