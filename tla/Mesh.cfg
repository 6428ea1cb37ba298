SPECIFICATION FairSpec
CONSTANTS
  Repeaters = 1
  QueueSize = 1
  MaxMessages = 3
  MaxFaults = 2
INVARIANTS TypeOK HopsAreVerified
PROPERTIES ImplementsLine SenderGoesOn FreshArrives
CHECK_DEADLOCK FALSE
