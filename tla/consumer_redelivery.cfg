SPECIFICATION FairSpec
CONSTANTS
  Consumers = {c1}
  Count = 2
  Policies <- OnlyBase
  MaxEntries = 2
  MaxFaults = 0
PROPERTIES RedeliveredAfterError
CHECK_DEADLOCK FALSE
