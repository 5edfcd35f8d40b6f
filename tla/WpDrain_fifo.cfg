SPECIFICATION Spec
CONSTANTS
  RecordWords = 2
  Capacity = 3
  DrainMax = 1
  ResyncAfter = 2
  RingMax = 2
  Ids = {i1, i2}
  MaxBuses = 2
  MaxRestarts = 1
  Numbers = 2
  Destructive = {fifo}
INVARIANTS RecordsAreTrue
PROPERTIES HealthyNeverReset DrainRecovers
CHECK_DEADLOCK FALSE
