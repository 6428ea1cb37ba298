SPECIFICATION Spec
CONSTANTS
  Peers = {p1}
  SessionIds = {s1, s2}
  NoPeer = NoPeer
  NoSession = NoSession
  Timeout = 2
  MaxIdle = 1
INVARIANT LiveSessionFound
