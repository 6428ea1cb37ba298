SPECIFICATION FairSpec
CONSTANTS
  Repeaters = {r1, r2}
  r1 = r1
  r2 = r2
  MaxStamp = 3
  MaxFaults = 1
PROPERTIES AttemptEnds ChainEnds
CHECK_DEADLOCK FALSE
