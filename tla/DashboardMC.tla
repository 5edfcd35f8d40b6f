---------------------------- MODULE DashboardMC ----------------------------
(***************************************************************************)
(* The parts of the dashboard server that do not wait for each other, each *)
(* checked alone in one run: a behaviour is about one part, and the others *)
(* stay Off.  Session has its own variables; the other parts take x1 to    *)
(* x12 in turn.  Two scenarios, one with a second variant of its bitstream.*)
(***************************************************************************)
EXTENDS Session
CONSTANTS
  s1, s2, a1, a1x, a2, Off,
  Halves, Words, Askers, Attempts, MaxMoves, MaxAge,           \* Probes
  Armers, Reserved, Windows, Defaults, MaxRequests,            \* SinkArming
  Firmware, Builds, BuiltAs, NoBuild, NoAppSlot, Pll, Divisors, WantDiv, Closes, Registry,
  Loaders, MaxInstalls, MaxLoads,                              \* Closure
  Pollers, Typists, ConBytes, MaxBuf, RxBytes, RxLimit, Typed, MaxChars, MaxClears,   \* Console
  Beat, Burst, Depth, CapDefault, CapMax, Asked, MaxBytes, MaxEras,   \* Capture
  Pages, Sizes, MaxWritten                                     \* Rates

VARIABLES part, x1, x2, x3, x4, x5, x6, x7, x8, x9, x10, x11, x12

Primary == [s \in {s1, s2} |-> IF s = s1 THEN a1 ELSE a2]
AllVariants == [s \in {s1, s2} |-> IF s = s1 THEN {a1, a1x} ELSE {a2}]
Recipe == <<"prep", "start", "live">>

-----------------------------------------------------------------------------
(* The parts and their bounds *)

Con == INSTANCE Console WITH
  Cap <- ConBytes,
  ring <- x1, bytes <- x2, rptr <- x3, era <- x4, clr <- x5, rec <- x6, rx <- x7, lostKeys <- x8,
  th <- x9, overlap <- x10, pages <- x11, found <- x12
\* The record is longer than the ring, and the limit leaves room for every typist.
ASSUME ConsoleAssumption ==
  /\ Pollers \cap Typists = {} /\ IsFiniteSet(Typists)
  /\ {ConBytes, Typed} \subseteq Nat \ {0} /\ {MaxBuf, RxBytes, RxLimit, MaxChars} \subseteq Nat
  /\ MaxBuf >= ConBytes /\ RxLimit + Cardinality(Typists) <= RxBytes

AskedLengths == {<<>>} \cup {<<n>> : n \in {0, 4, 5, 6, 8}}
Cap == INSTANCE Capture WITH
  sink <- x1, mem <- x2, sent <- x3, got <- x4, wrap <- x5, epoch <- x6, dump <- x7
\* The buffer is of whole bursts, a burst of whole beats, and a dump that is given
\* no length, or 0, asks for at least a burst.
ASSUME CaptureAssumption ==
  /\ {Beat, Burst, Depth} \subseteq Nat \ {0}
  /\ Burst % Beat = 0 /\ Depth % Burst = 0
  /\ {CapDefault, CapMax} \subseteq Nat /\ CapDefault >= Burst /\ CapMax >= Burst
  /\ \A q \in Asked : q = <<>> \/ q[1] \in Nat

Pro == INSTANCE Probes WITH
  core <- x1, moves <- x2, ran <- x3, pcr <- x4, enable <- x5, age <- x6, ptr <- x7, asker <- x8,
  meddled <- x9, subject <- x10
ASSUME ProbesAssumption == Words \in Nat \ {0}

\* One window inside the reservation, one beside it, one across its start, one empty.
SinkReserved == {<<2, 4>>}
SinkWindows == {<<2, 4>>, <<4, 4>>, <<0, 2>>, <<2, 0>>}
SinkDefaults == [on |-> {"ddr_en", "ddr_circ"}, off |-> {"uram_oneshot"}]
Snk == INSTANCE SinkArming WITH
  window <- x1, word <- x2, hasSink <- x3, width <- x4, arm <- x5, byHand <- x6, loaded <- x7, asked <- x8
ASSUME SinkArmingAssumption == Windows \subseteq Nat \X Nat /\ Reserved \subseteq Nat \X Nat

\* Two builds of one app, one of which fails timing, and an app of one build.
BuiltFor == [b \in {"b1", "b2", "b3"} |-> IF b = "b3" THEN "a2" ELSE "a1"]
WantedDiv == [a \in {"a1", "a2"} |-> IF a = "a1" THEN 22 ELSE 0]
ClosesAt == [b \in {"b1", "b2", "b3"} |-> CASE b = "b1" -> 68182 [] b = "b2" -> 0 [] b = "b3" -> 80000]
Registered == [a \in {"a1", "a2"} |->
  [md5 |-> IF a = "a1" THEN "b1" ELSE "b3", routed |-> TRUE, failing |-> FALSE,
   achieved |-> IF a = "a1" THEN 68182 ELSE 80000]]
Clo == INSTANCE Closure WITH
  Apps <- Firmware, AppOf <- BuiltAs,
  fabric <- x1, record <- x2, files <- x3, stamp <- x4, divisor <- x5, cache <- x6, report <- x7,
  ldr <- x8, loads <- x9, fresh <- x10, lostRecord <- x11, glitch <- x12
ASSUME ClosureAssumption ==
  /\ NoBuild \notin Builds /\ NoAppSlot \notin Firmware
  /\ BuiltAs \in [Builds -> Firmware] /\ Closes \in [Builds -> Nat]
  /\ Pll \in Nat /\ Divisors \subseteq Nat \ {0} /\ WantDiv \in [Firmware -> Nat]
  \* A line of the registry is the timing report of the build it names.
  /\ \A a \in Firmware : LET r == Registry[a] IN
       /\ r.achieved \in Nat
       /\ r.routed /\ ~r.failing /\ r.md5 \in Builds => r.achieved <= Closes[r.md5]

Ins == INSTANCE Insight WITH
  Pollers <- {"p1", "p2"}, Scenarios <- {"s1", "s2"}, WithSymbols <- {"s1"}, Lengths <- {2},
  TailBytes <- 5, MaxWindows <- 2, MaxEvents <- 2,
  SC <- x1, table <- x2, counts <- x3, total <- x4, ring <- x5, design <- x6, th <- x7, sel <- x8,
  crossed <- x9, added <- x10, events <- x11

Rat == INSTANCE Rates WITH
  Askers <- Pages, MaxEvents <- 2,
  tb <- x1, written <- x2, last <- x3, th <- x4, measured <- x5, events <- x6
ASSUME RatesAssumption == Sizes \subseteq Nat

-----------------------------------------------------------------------------
SessionOff ==
  /\ pl = Off /\ slot = Off /\ armed = Off /\ SC = Off /\ symbols = Off /\ hw = Off
  /\ current = Off /\ made = Off /\ th = Off /\ boot = Off /\ left = Off /\ clean = Off
From12Off == x12 = Off
From11Off == x11 = Off /\ From12Off
From9Off == x9 = Off /\ x10 = Off /\ From11Off
From8Off == x8 = Off /\ From9Off
From7Off == x7 = Off /\ From8Off
AllOff == x1 = Off /\ x2 = Off /\ x3 = Off /\ x4 = Off /\ x5 = Off /\ x6 = Off /\ From7Off

InitAll ==
  \/ part = "session" /\ Init /\ AllOff
  \/ part = "console" /\ Con!Init /\ SessionOff
  \/ part = "capture" /\ Cap!Init /\ SessionOff /\ From8Off
  \/ part = "probes" /\ Pro!Init /\ SessionOff /\ From11Off
  \/ part = "sinks" /\ Snk!Init /\ SessionOff /\ From9Off
  \/ part = "closure" /\ Clo!Init /\ SessionOff
  \/ part = "insight" /\ Ins!Init /\ SessionOff /\ From12Off
  \/ part = "rates" /\ Rat!Init /\ SessionOff /\ From7Off

From12 == <<x12>>
From11 == <<x11, x12>>
From9 == <<x9, x10, From11>>
From8 == <<x8, From9>>
From7 == <<x7, From8>>
X == <<x1, x2, x3, x4, x5, x6, From7>>

NextAll ==
  /\ UNCHANGED part
  /\ \/ part = "session" /\ Next /\ UNCHANGED X
     \/ part = "console" /\ Con!Next /\ UNCHANGED vars
     \/ part = "capture" /\ Cap!Next /\ UNCHANGED <<vars, From8>>
     \/ part = "probes" /\ Pro!Next /\ UNCHANGED <<vars, From11>>
     \/ part = "sinks" /\ Snk!Next /\ UNCHANGED <<vars, From9>>
     \/ part = "closure" /\ Clo!Next /\ UNCHANGED vars
     \/ part = "insight" /\ Ins!Next /\ UNCHANGED <<vars, From12>>
     \/ part = "rates" /\ Rat!Next /\ UNCHANGED <<vars, From7>>

allVars == <<vars, part, X>>
\* A page polls the console again and again.
ConsoleFairness ==
  \A p \in Pollers : WF_allVars(part = "console" /\ Con!Poll(p) /\ UNCHANGED <<vars, part>>)
SpecAll == InitAll /\ [][NextAll]_allVars /\ ConsoleFairness

-----------------------------------------------------------------------------
\* Between requests what a live bus maps, what is in the PL, what is selected and
\* the symbol tables are of one scenario, whatever was selected or failed before.
LiveAgrees == LiveIsRight

\* While a request is under way a reader meets an empty PL, the map of another
\* design, or a design that was not quieted, only where the order of the code
\* lets it: each of the exceptions is one place.
TransientsAreKnown == EmptyOnlyInVariantReload /\ WrongMapOnlyWhileSelecting /\ QuietWhenStillLive

\* Selecting a scenario (both of the above): what is shown is of one design, or
\* the moment is one of those the code accepts.
SelectionHolds == part = "session" => LiveAgrees /\ TransientsAreKnown

\* A guest is started only after the preparation of its own boot, one at a time.
GuestBootsInOrder == [][part = "session" => BootStep]_boot

\* ConsoleReader records losslessly and POST /api/console overruns no key.
ConsoleIsExact == part = "console" => Con!Lossless /\ Con!NoKeyLost

\* Polling keeps the guest's console going: it does not stay full for ever.
ConsoleNeverMute == []<>(~(part = "console" /\ x11 = Pollers /\ Con!Full))

\* The guest's console, both ways (both of the above).
ConsoleServes == []ConsoleIsExact /\ ConsoleNeverMute

\* A dump, a tail or a capped DDR window is the newest part of one recording.
DumpIsNewest == part = "capture" => Cap!DumpIsNewest

\* A program counter reported as stable was one, a quiescent histogram is one snapshot.
ProbesHold == part = "probes" => Pro!ProbesHold

\* The sink never writes outside the memory reserved for it unless armed by hand.
ArmedIntoReservation == part = "sinks" => Snk!ArmedIntoReservation

\* A closure report that says OK is right about the design and its clock, and no
\* clock changes under a recorded design.
ClosureIsEvidence == part = "closure" => Clo!ClosureIsEvidence /\ Clo!ClockWhileEmpty

\* The figures of the page are measured: the hot list and the coverage are of the
\* scenario shown and add up, what is decoded is whole messages, and a packet rate
\* never claims bytes that were not written between its samples.
FiguresAreMeasured ==
  /\ part = "insight" => Ins!WholeMessages /\ Ins!CountsAreShown
  /\ part = "rates" => Rat!RateIsMeasured
=============================================================================
