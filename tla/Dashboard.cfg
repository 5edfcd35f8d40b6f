SPECIFICATION SpecAll
CONSTANTS
  Threads = {t1, t2}
  Readers = {r1}
  s1 = s1  s2 = s2  a1 = a1  a1x = a1x  a2 = a2
  Scenarios = {s1, s2}
  AppOf <- Primary
  Variants <- AllVariants
  NoApp = NoApp
  Phases <- Recipe
  Budget = 2
  Off = Off
  Pollers = {"p1"}  Typists = {"x1", "x2"}  ConBytes = 2  MaxBuf = 3
  RxBytes = 3  RxLimit = 1  Typed = 2
  MaxChars = 5  MaxClears = 1
  Beat = 2  Burst = 4  Depth = 8
  CapDefault = 7  CapMax = 10
  Asked <- AskedLengths
  MaxBytes = 18  MaxEras = 1
  Halves = {0, 1}
  Words = 3
  Askers = {"h1", "h2"}
  Attempts = 2
  MaxMoves = 1
  MaxAge = 2
  Armers = {"t1", "t2"}
  Reserved <- SinkReserved
  Windows <- SinkWindows
  Defaults <- SinkDefaults
  MaxRequests = 3
  Firmware = {"a1", "a2"}
  Builds = {"b1", "b2", "b3"}
  BuiltAs <- BuiltFor
  NoBuild = "no build"
  NoAppSlot = "no app"
  Pll = 1500000
  Divisors = {22, 15}
  WantDiv <- WantedDiv
  Closes <- ClosesAt
  Registry <- Registered
  Loaders = {"t1", "t2"}
  MaxInstalls = 1
  MaxLoads = 2
  Pages = {"p1", "p2"}
  Sizes = {1, 2}
  MaxWritten = 5
INVARIANTS SelectionHolds DumpIsNewest ProbesHold ArmedIntoReservation ClosureIsEvidence
  FiguresAreMeasured
PROPERTIES GuestBootsInOrder 
CHECK_DEADLOCK FALSE
