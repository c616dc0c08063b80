SPECIFICATION FairSpec
CONSTANTS
  Jobs = {j1, j2}
  MAX_SESSIONS = 1
  MaxDiscovers = 2
  MaxAttempts = 2
  MaxFaults = 1
INVARIANTS
  TypeOK
  CachedWasEmitted
PROPERTIES
  NoSecondTrace
  JobsTaken
  SessionsReclaimed
CHECK_DEADLOCK FALSE
