SPECIFICATION Spec
CONSTANTS
  a = a
  b = b
  c = c
  d = d
  i = i
  Nodes = {a, b, c, d, i}
  Calls <- MCCalls
  Imports <- MCImports
  Entrypoints = {a, b, c}
  MaxBatches = 2
  MaxWrites = 1
  SeedSets <- MCSeedSets
  QueryTypes = {"flow", "impact", "lookup"}
  HopDepth = 2
  Decay = 16
  MaxTokens = 160
INVARIANTS
  ScoredByBestPath
  BestFillBudget
PROPERTY
  ConfirmedNotDisputed
