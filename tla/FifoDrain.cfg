SPECIFICATION Spec
CONSTANTS
  MaxTs = 2
  Pogingen = 1
  FifoMin = 2
  PerMsg = 2
  PerHour = 1
  MaxBoots = 1
INVARIANTS
  AttemptsCapped
  RepeatedCapped
 
CHECK_DEADLOCK FALSE
