SPECIFICATION Spec
CONSTANTS
  Enablers = {e1, e2}
  Disablers = {d1}
  Operations = {o1}
  NoOne = NoOne
  Mortal = {e1, d1, o1}
  Steps = 2
  MaxAttempts = 2
  MaxDisables = 2
CHECK_DEADLOCK FALSE
INVARIANT AtMostOneLateEffect
PROPERTY NothingRevives
PROPERTY RollbackSparesLater
