SPECIFICATION Spec
CONSTANTS
  Series = {a, b}
  Nameless = {b}
  Times = {t1, t2}
  NoKey = NoKey
  MaxReadings = 3
  QueueMax = 1
  BatchMax = 2
  Attempts = 2
  MaxRestarts = 1
INVARIANTS
  NothingUnstored
PROPERTIES
  EveryPointStored
CHECK_DEADLOCK FALSE
