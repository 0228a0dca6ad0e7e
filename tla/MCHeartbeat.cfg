SPECIFICATION FairSpec
CONSTANTS
  W = 4
  MAX_HEART_BEAT_FAILED_TIME = 1
  MaxConnects = 1
INVARIANT TypeOK
INVARIANT CountExplained
INVARIANT FewLateAnswers
PROPERTY GivenUpForAReason
PROPERTY SilenceIsNoticed
CHECK_DEADLOCK FALSE
