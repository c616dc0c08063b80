SPECIFICATION Spec
CONSTANTS
  Files = {1}
  Nodes <- OneNodes
  FileOf <- OneFileOf
  Hashes = {h1, h2}
  Absent = none
  Trees <- FewTrees
  Similar = {}
  Scanners = {s1}
  Requests = {"hook", "rescan"}
  MaxCommits = 3
  MaxScans = 3
  MaxFaults = 1
  Callees <- OneCallees
  Batch = 2
  Pipelined = FALSE
  n1 = n1
  n2 = n2
  h1 = h1
  h2 = h2
  none = none
INVARIANTS
  TypeOK
  GraphMatchesTip
  VectorsMatchTip
CHECK_DEADLOCK FALSE
