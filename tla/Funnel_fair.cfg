SPECIFICATION FairSpec
CONSTANTS
  N = 3
  MaxPrio = 2
  PrioChoices <- Ranked
  TeRaw = {0, 1, 2}
  Participants = {0, 1, 2}
  TagAlways = FALSE
  Chunks = 1
  MaxLen = 0
  MaxHeld = 1
  Requests = {"global"}
  NoChan = NoChan
INVARIANTS NobodyOvertakes
PROPERTIES EveryoneServed
