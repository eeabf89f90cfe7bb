SPECIFICATION FallsSpec
CONSTANTS
  Pages = {}
  MaxTime = 3
  MaxFalls = 2
  MaxFaults = 1
INVARIANTS
  NoFallSwallowed
  OncePerFall
PROPERTIES
  EveryFallAlarmed
CHECK_DEADLOCK FALSE
