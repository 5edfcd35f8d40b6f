SPECIFICATION SpecAll
CONSTANTS
  Prog <- TracedCode
  Handler = 7
  RetDepth = 2
  IcntCap = 3
  Options <- Enables
  Uninferable = {0}
  MapMax = 2
  JtcSize = 2
  WalkMax = 12
  MaxOwed = 4
  MaxEvents = 2
  Corners = {}
INVARIANTS AnalysisIsTrue WatchpointEvidence NamesAll RecordingsAreTrue
  AcceptedIsTrue GeneratedIsTrue
CHECK_DEADLOCK FALSE
