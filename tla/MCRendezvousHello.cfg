SPECIFICATION FairSpec
CONSTANT MaxEnds = 0
CHECK_DEADLOCK FALSE
PROPERTY HelloComes
