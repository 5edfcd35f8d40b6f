SPECIFICATION FairSpec
CONSTANTS
  WbRun = 3
  TipRun = 3
  WbResets = 2
  TipResets = 2
INVARIANTS NothingLost
PROPERTIES HandshakeServes
