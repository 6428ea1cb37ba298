SPECIFICATION FairPathSpec
CONSTANTS
  Sids = {"s1", "s2", "s3", "s4"}
  Nodes = {"radio1", "radio2"}
  NodeOf <- Owner
  Capacity = 3
  Timeout = 1
  Packets = {"p1", "p2"}
  SidOf <- Names
CHECK_DEADLOCK FALSE
INVARIANTS PathTypeOK CapacityKept IndexExact ReloadHolds
PROPERTIES LiveSessionsStay NotAddedLeaves ImplementsVerifier KnownPasses
