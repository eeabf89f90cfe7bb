SPECIFICATION SeqSpec
CONSTANTS
  W = 20
  Step = 3
  MaxSent = 8
  MaxStarts = 4
INVARIANTS
  NeverReused
CHECK_DEADLOCK FALSE
