SPECIFICATION Spec
CONSTANTS
  Nodes = {"a", "b"}
  Listings <- MCListings
  MaxEdits = 1
  Interval <- CalmInterval
  Gap = 2
  Verify = 2
  Day = 6
  MaxPerDay = 2
  Old = 7
INVARIANTS
  GapKept
  OneOpen
PROPERTIES
  EveryNodeAsked
  CandidatesTried
