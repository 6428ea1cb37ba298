SPECIFICATION Spec
CONSTANTS
  Repeaters = {r1, r2, r3}
  r1 = r1
  r2 = r2
  r3 = r3
  MaxStamp = 2
  MaxFaults = 1
SYMMETRY Symmetry
INVARIANT TypeOK
INVARIANT ChainsArePrefixes
INVARIANT OneCopy
INVARIANT MajoritySigned
INVARIANT SessionInOneBlock
PROPERTY StaleStays
PROPERTY NextIsNeverRefused
PROPERTY ImplementsLedger
CHECK_DEADLOCK FALSE
