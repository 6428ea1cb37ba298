SPECIFICATION Spec
CONSTANTS
  Repeaters = {r1, r2, r3}
  r1 = r1
  r2 = r2
  r3 = r3
  MaxStamp = 2
  MaxFaults = 0
SYMMETRY Symmetry
INVARIANT StoredIsSaved
CHECK_DEADLOCK FALSE
