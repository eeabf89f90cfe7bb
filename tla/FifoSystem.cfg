SPECIFICATION Spec
CONSTANTS
  MaxTs = 2
  MaxSeq = 2
  PtsMax = 1
  FifoMax = 3
  ExtraMax = 1
  SentMax = 1
  TxwMax = 1
  Hoofd = TRUE
  Dun = FALSE
  MaxFails = 1
INVARIANTS
  ConfirmedIsStored
  NothingLostInSystem
  WatchedOnce
PROPERTY ImplementsTracker
CHECK_DEADLOCK FALSE
