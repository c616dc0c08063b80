SPECIFICATION FairSpec
CONSTANTS
  Consumers = {c1, c2}
  Count = 2
  Policies <- Services
  MaxEntries = 3
  MaxFaults = 1
INVARIANTS TypeOK HandledAtMostOnce AckedNeverLost StrandedOnlyByFault
PROPERTIES ImplementsDelivery EventuallySettled
CHECK_DEADLOCK FALSE
