SPECIFICATION FairSpec
CONSTANTS
  MaxStarts = 1
  MaxQueued = 1
PROPERTY
  StopReturns
