SPECIFICATION Spec
CONSTANTS
  Jobs = {j1, j2}
  MAX_SESSIONS = 2
  MaxDiscovers = 1
  MaxAttempts = 2
  MaxFaults = 0
INVARIANTS
  HooksRestored
CHECK_DEADLOCK FALSE
