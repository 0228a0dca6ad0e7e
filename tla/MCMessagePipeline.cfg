SPECIFICATION Spec
CONSTANTS
  Posters = {p1, p2}
  Sizes = {0, 3}
  Cap = 2
  B = 4
  FirstSeq = 126
  Null = null
  MaxMsgs = 2
  MaxBreaks = 2
SYMMETRY PosterSymmetry
CHECK_DEADLOCK FALSE
INVARIANT TypeOK
INVARIANT DeliveredOnce
INVARIANT UndisturbedArrives
INVARIANT UndisturbedInOrder
INVARIANT NoChunkForgotten
INVARIANT NoLeftovers
INVARIANT CopiesInside
INVARIANT OnlyRetriesLose
PROPERTY ServiceSpec
