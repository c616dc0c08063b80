SPECIFICATION FairSpec
CONSTANTS
  Workers = {w1, w2}
  Refs = {r1, r2, p}
  Plain = {p}
  MAX_ATTEMPTS = 1
  MaxChanges = 1
  MaxFaults = 1
INVARIANTS
  TypeOK
  InOnePlace
  DroppedOnlyExpired
  RetriesBounded
PROPERTIES
  QueueDrains
