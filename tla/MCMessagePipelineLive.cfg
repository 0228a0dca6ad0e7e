SPECIFICATION FairSpec
CONSTANTS
  Posters = {p1}
  Sizes = {0, 5}
  Cap = 2
  B = 4
  FirstSeq = 126
  Null = null
  MaxMsgs = 1
  MaxBreaks = 2
CHECK_DEADLOCK FALSE
INVARIANT WholeMessages
PROPERTY PacketsArrive
