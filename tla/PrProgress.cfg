SPECIFICATION FairSpec
CONSTANTS
  Asked = {"review"}
  MayAutoMerge = {FALSE}
  Outcomes = {"approved", "human_required"}
  PersonMay = {"comment", "close"}
  MaxActs = 2
  MaxAttempts = 3
  MaxFaults = 1
PROPERTIES
  ClaimIsResolved
  RequestIsAnswered
  StaleResultReturnsToReview
