SPECIFICATION FairSpec
CONSTANTS
  Size = 3
  Events <- WireEvents
  Unset = Unset
  MaxSpans = 3
  MaxFaults = 1
INVARIANTS
  TypeOK
  RingHoldsNewest
  PairsOwnCalls
  OkIsNewest
PROPERTIES
  NotRemovedInUse
  RunEnds
  SessionReclaimed
CHECK_DEADLOCK FALSE
