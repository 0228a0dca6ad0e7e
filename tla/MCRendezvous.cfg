SPECIFICATION FairSpec
CONSTANT MaxEnds = 1
CHECK_DEADLOCK FALSE
INVARIANT TypeOK
INVARIANT FoundWhereItListens
PROPERTY DeafIsReplaced
PROPERTY OneWayEnds
PROPERTY FirstContact
PROPERTY StraySendersMoveOn
