SPECIFICATION FairSpec
CONSTANTS
  Data = {a, b}
  Depth = 4
  Latency = 1
  Idle = Idle
INVARIANTS  PointersSound GrayPointers
PROPERTIES ImplementsFifo FifoServes
