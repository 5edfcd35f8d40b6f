SPECIFICATION Spec
CONSTANTS
  N = 2
  MaxPrio = 2
  PrioChoices <- Switchable
  TeRaw = {1}
  Participants = {0, 1}
  TagAlways = TRUE
  Chunks = 2
  MaxLen = 2
  MaxHeld = 1
  Requests = {"local"}
  NoChan = NoChan
INVARIANTS StreamAttributable
