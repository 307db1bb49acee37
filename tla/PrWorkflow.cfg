SPECIFICATION Spec
CONSTANTS
  Asked = {"review", "implement", "update"}
  MayAutoMerge = {TRUE, FALSE}
  Outcomes = {"approved", "human_required", "changes_requested", "blocked", "storage", "pushed", "stale_head"}
  PersonMay = {"comment", "push", "review", "implement", "blocked", "unblock", "unclaim", "base", "close", "policy", "enable"}
  MaxActs = 1
  MaxAttempts = 2
  MaxFaults = 1
INVARIANTS
  OneResultPerAttempt
  OneUpdatePerPair
PROPERTIES
  MergesWhatWasReviewed
  NoDraftIsAbandoned
  ClosedWorkspaceHasResult
