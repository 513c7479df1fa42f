\* Every NIC, a full ring, hosts that push each other out of the cache.
SPECIFICATION Spec
CONSTANTS
  Kinds <- MCKinds
  RingSize = 3
  Hosts = {h1, h2, h3}
  Macs = {m1, m2}
  None = None
  Far = Far
  CacheSize = 2
  MaxFrames = 4
  MaxSeq = 2
  MaxCalls = 2
SYMMETRY HostSymmetry
INVARIANTS FramesInOrder ArpCoherent HangsOnlyWhenForgotten
PROPERTIES AnswersMatch
CHECK_DEADLOCK FALSE
