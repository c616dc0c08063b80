SPECIFICATION Spec
CONSTANTS
  Jobs = {j1}
  MAX_SESSIONS = 2
  MaxDiscovers = 3
  MaxAttempts = 3
  MaxFaults = 0
INVARIANTS
  TraceIsOwnRun
  AloneRestores
CHECK_DEADLOCK FALSE
