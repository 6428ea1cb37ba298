SPECIFICATION FairSpec
CONSTANTS
  Hops = 2
  MaxSessions = 2
  MaxPackets = 2
  MaxFaults = 2
CHECK_DEADLOCK FALSE
INVARIANTS TypeOK DeliveredOnce DeliveredIsKnown
PROPERTY KnownDelivered
