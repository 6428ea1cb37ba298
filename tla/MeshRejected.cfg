SPECIFICATION FairSpec
CONSTANTS
  Repeaters = 1
  QueueSize = 1
  MaxMessages = 1
  MaxFaults = 0
PROPERTY RejectedIsDropped
CHECK_DEADLOCK FALSE
