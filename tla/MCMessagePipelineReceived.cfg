SPECIFICATION Spec
CONSTANTS
  Posters = {p1}
  Sizes = {5}
  Cap = 2
  B = 4
  FirstSeq = 126
  Null = null
  MaxMsgs = 2
  MaxBreaks = 0
CHECK_DEADLOCK FALSE
INVARIANT EveryMessageReceived
