SPECIFICATION WatcherSpec
CONSTANTS
  Files = {1, 2}
  Nodes <- MCNodes
  FileOf <- MCFileOf
  Hashes = {h1, h2}
  Absent = none
  Trees <- MCTrees
  Similar <- OldToNew
  Scanners = {s1}
  Requests = {"hook", "poll", "index", "rescan"}
  MaxCommits = 3
  MaxScans = 1
  MaxFaults = 1
  a1 = a1
  a2 = a2
  b1 = b1
  h1 = h1
  h2 = h2
  none = none
INVARIANTS
  WatcherTypeOK
  ReplayIsIndexedTree
CHECK_DEADLOCK FALSE
