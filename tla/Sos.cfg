SPECIFICATION Spec
CONSTANTS
  MaxSos = 2
  Series = 2
  MaxCopies = 2
  Rounds = 2
  MaxFaults = 1
INVARIANTS
  ToneIsTrue
  ConfirmedIsReported
  OneAckAtATime
PROPERTIES
  EveryReportEnds
