SPECIFICATION FairSpec
CONSTANTS
  MaxAttempts = 3
  MaxFaults = 2
CHECK_DEADLOCK FALSE
INVARIANTS TypeOK ProofIsFresh OneHandshakeTwoKeys ConfirmedMeansVerified
PROPERTY HandshakeEnds
