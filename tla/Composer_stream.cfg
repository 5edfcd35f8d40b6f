SPECIFICATION Spec
CONSTANTS
  Program <- Loop
  Start = 0
  Handler = 5
  Skid = 2
  EtipDepth = 1
  SideDepth = 4
  RetDepth = 1
  IcntCap = 2
  Flush = "never"
  PauseBy = "InstTracing"
  Lag = 0
  PauseTraps = FALSE
INVARIANTS StreamDecodes MarkersBehindAccepted 
