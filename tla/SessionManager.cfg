SPECIFICATION FairSpec
CONSTANTS
  Peers = {p1, p2}
  SessionIds = {s1, s2, s3}
  NoPeer = NoPeer
  NoSession = NoSession
  Timeout = 2
  MaxIdle = 1
INVARIANTS TypeOK IndexSound KeyedOnce
PROPERTY EveryoneLeaves
