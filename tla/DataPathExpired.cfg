SPECIFICATION FairSpec
CONSTANTS
  Hops = 2
  MaxSessions = 1
  MaxPackets = 2
  MaxFaults = 1
CHECK_DEADLOCK FALSE
PROPERTY ExpiredIsRefused
