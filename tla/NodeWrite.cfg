SPECIFICATION FairSpec
CONSTANTS
  MaxWrites = 2
  Nodes = {n1, n2}
  Params = {p}
  None = None
  Ways = {"mqtt", "mesh", "poller"}
  MaxRestarts = 2
INVARIANTS
  OwnOutcome
  OutcomeKept
  AtMostOnce
PROPERTIES
  Answered
CHECK_DEADLOCK FALSE
