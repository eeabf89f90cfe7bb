SPECIFICATION Spec
CONSTANTS
  a = a
  b = b
  Nodes <- MCNodes
  Start <- MCStart
  None = None
  ParamCount = 2
  SetSilentMax = 2
  ClkSilentMax = 1
  BackoffAfter = 1
  BackoffEvery = 2
  MaxEvents = 2
INVARIANTS
  OneOwner
  AnswersFiledRight
  SetOnlyToAsked
  NotSentNotChanged
PROPERTIES
  ImplementsWrite
  BackToIdle
CHECK_DEADLOCK FALSE
