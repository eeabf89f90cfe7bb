SPECIFICATION Spec
CONSTANTS
  MaxWrites = 2
  Nodes = {n1}
  Params = {p}
  None = None
  Ways = {"mesh"}
  MaxRestarts = 0
INVARIANTS
  NotSentNotDone
CHECK_DEADLOCK FALSE
