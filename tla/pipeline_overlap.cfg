SPECIFICATION FairSpec
CONSTANTS
  Files = {1}
  Nodes <- LoneNodes
  FileOf <- LoneFileOf
  Hashes = {h1, h2}
  Absent = none
  Trees <- LoneTrees
  Similar = {}
  Scanners = {s1}
  Requests = {"poll"}
  MaxCommits = 3
  MaxScans = 0
  MaxFaults = 0
  Callees <- LoneCallees
  Batch = 2
  Pipelined = TRUE
  n1 = n1
  n2 = n2
  h1 = h1
  h2 = h2
  none = none
INVARIANTS
  StoresAgree
  BodyMatchesHash
PROPERTIES
  EventuallySearchable
  PollCatchesUp
CHECK_DEADLOCK FALSE
