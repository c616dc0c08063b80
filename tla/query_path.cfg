SPECIFICATION Spec
CONSTANTS
  Callers = {c1, c2, c3}
  Followed = {c1}
  Searches = {{}, {"vector"}, {"graph"}, {"vector", "graph"}}
  NoIntent = NoIntent
  Capacity = 2
  Cost = 2
  MaxTime = 2
INVARIANTS
  WithinRate
  ArrivedIsReturned
PROPERTY
  EverythingEnds
CHECK_DEADLOCK FALSE
