SPECIFICATION FairSpec
CONSTANTS
  MaxStarts = 2
  MaxQueued = 1
INVARIANTS
  TypeOK
  NoThreadSurvives
  OneStartIsSafe
  EmptyPopNeedsHello
  NothingWaitsForASleeper
PROPERTY
  HangsOnlyAsleep
