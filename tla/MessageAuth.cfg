SPECIFICATION FairSpec
CONSTANTS
  MaxAge = 1
  MaxAhead = 1
  MaxSkew = 1
  MaxSessions = 2
  MaxMessages = 3
  MaxTime = 3
  MaxFaults = 1
CHECK_DEADLOCK FALSE
INVARIANTS TypeOK AcceptedFresh
PROPERTIES ImplementsLine TimelyPasses
