SPECIFICATION T1fSpec
CONSTANTS
  Trackers = {a, b}
  Channels = {c, d}
  MaxSeq = 2
  Delay = 1
  TrackerGap = 3
  ChanGap = 2
  Hour = 4
  MaxHour = 2
  PerMsg = 1
  Fit = 1
  SendMax = 1
  MaxReq = 3
  MaxGone = 1
INVARIANTS
  NothingForgotten
  NoNumberTwice
PROPERTIES
  Answered
  ListsKept
