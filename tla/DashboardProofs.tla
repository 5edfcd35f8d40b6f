-------------------------- MODULE DashboardProofs --------------------------
(***************************************************************************)
(* Safety of the parts of the dashboard server, for every value of their   *)
(* constants: sink arming, rates, probes, closure report, scenario         *)
(* selection, guest boot, dumps and console.  A behaviour is about one     *)
(* part, so every proof is of the invariant of that part; the variables x1 *)
(* to x12 are those of the part, in the order in which DashboardMC hands   *)
(* them over.                                                              *)
(***************************************************************************)
EXTENDS DashboardMC, FiniteSetTheorems, SequenceTheorems, TLAPS

\* A step is a step of the part the behaviour is about.
LEMMA PartSteps ==
  ASSUME [NextAll]_allVars
  PROVE  /\ part' = part
         /\ part = "session" => [Next]_vars
         /\ part = "console" => [Con!Next]_(Con!vars)
         /\ part = "probes" => [Pro!Next]_(Pro!vars)
         /\ part = "sinks" => [Snk!Next]_(Snk!vars)
         /\ part = "closure" => [Clo!Next]_(Clo!vars)
         /\ part = "rates" => [Rat!Next]_(Rat!vars)
         /\ part = "capture" => [Cap!Next]_(Cap!vars)
<1>1. CASE NextAll
  BY <1>1 DEF NextAll
<1>2. CASE UNCHANGED allVars
  <2>1. part' = part /\ UNCHANGED vars /\ UNCHANGED <<x1, x2, x3, x4, x5, x6, x7, x8, x9, x10, x11, x12>>
    BY <1>2 DEF allVars, X, From7, From8, From9, From11, From12
  <2>2. UNCHANGED Con!vars /\ UNCHANGED Pro!vars
    BY <2>1 DEF Con!vars, Con!guest, Pro!vars, Pro!pcVars, Pro!histVars
  <2>3. UNCHANGED Snk!vars /\ UNCHANGED Rat!vars
    BY <2>1 DEF Snk!vars, Rat!vars
  <2>4. UNCHANGED Clo!vars
    BY <2>1 DEF Clo!vars, Clo!loading
  <2>5. UNCHANGED Cap!vars
    BY <2>1 DEF Cap!vars, Cap!recording
  <2> QED BY <2>1, <2>2, <2>3, <2>4, <2>5
<1> QED BY <1>1, <1>2

-----------------------------------------------------------------------------
(* Sink arming: x1 window, x2 word, x3 hasSink, x4 width, x5 arm,         *)
(* x6 byHand, x7 loaded, x8 asked.                                        *)

ArmFields == DOMAIN Snk!Rest
SinkShape ==
  /\ x1 \in Nat \X Nat
  /\ DOMAIN x5 = Armers /\ \A t \in Armers : DOMAIN x5[t] = ArmFields
\* The window policy lets only the control word through.
OnlyControl == \A t \in Armers : x5[t].pc = "store" => x5[t].target = "sink_ctrl"
\* What was read of the window is still true.
BaseHolds == ~x7 => \A t \in Armers : x5[t].pc = "size" => x5[t].base = Snk!BaseRead
\* Who is about to set ddr_en may.
MayArm ==
  ~x7 /\ ~x6 /\ x3 =>
    \A t \in Armers : x5[t].pc = "write" /\ "ddr_en" \in Snk!New(x5[t].cur) => Snk!InReservation(x1)
SinkInv == SinkShape /\ OnlyControl /\ BaseHolds /\ MayArm /\ Snk!ArmedIntoReservation

\* A window that passes ddr_window_ok lies in one reserved range, address by address.
LEMMA CheckedIsReserved ==
  ASSUME Reserved \subseteq Nat \X Nat, x1 \in Nat \X Nat, x3, Snk!WindowOk(Snk!BaseRead, Snk!SizeRead)
  PROVE  Snk!InReservation(x1)
<1>1. PICK r \in Reserved : x1[1] >= r[1] /\ x1[1] + x1[2] <= r[1] + r[2]
  BY DEF Snk!WindowOk, Snk!BaseRead, Snk!SizeRead
<1>2. r[1] \in Nat /\ r[2] \in Nat /\ x1[1] \in Nat /\ x1[2] \in Nat
  BY <1>1
<1>3. ASSUME NEW a \in x1[1] .. x1[1] + x1[2] - 1
      PROVE  a \in r[1] .. r[1] + r[2] - 1
  BY <1>1, <1>2, <1>3
<1> QED
  BY <1>1, <1>3 DEF Snk!InReservation

\* A step of a thread that moves neither the window nor the control word.
LEMMA SinkQuiet ==
  ASSUME SinkInv, NEW t \in Armers, NEW n, Snk!Go(t, n),
         UNCHANGED <<x1, x2, x3, x6, x7>>,
         DOMAIN n = ArmFields,
         n.pc = "store" => n.target = "sink_ctrl",
         n.pc = "size" /\ ~x7 => n.base = Snk!BaseRead,
         n.pc = "write" /\ "ddr_en" \in Snk!New(n.cur) /\ ~x7 /\ ~x6 /\ x3 => Snk!InReservation(x1)
  PROVE  SinkInv'
<1>1. SinkShape' /\ \A u \in Armers : x5'[u] = IF u = t THEN n ELSE x5[u]
  BY DEF SinkInv, SinkShape, Snk!Go
<1>2. OnlyControl'
  BY <1>1 DEF SinkInv, OnlyControl
<1>3. BaseHolds'
  BY <1>1 DEF SinkInv, BaseHolds, Snk!BaseRead
<1>4. MayArm'
  BY <1>1 DEF SinkInv, MayArm, Snk!New, Snk!InReservation
<1>5. Snk!ArmedIntoReservation'
  BY DEF SinkInv, Snk!ArmedIntoReservation, Snk!InReservation
<1> QED
  BY <1>1, <1>2, <1>3, <1>4, <1>5 DEF SinkInv

\* A thread that writes the control word and goes to a place where it holds nothing.
LEMMA SinkWord ==
  ASSUME SinkInv, NEW t \in Armers, NEW n, Snk!Go(t, n), UNCHANGED <<x1, x3, x7>>,
         DOMAIN n = ArmFields, n.pc \in {"idle", "back"}, x6 => x6',
         "ddr_en" \in x2' /\ ~x6' /\ ~x7 => Snk!InReservation(x1)
  PROVE  SinkInv'
<1>1. SinkShape' /\ \A u \in Armers : x5'[u] = IF u = t THEN n ELSE x5[u]
  BY DEF SinkInv, SinkShape, Snk!Go
<1>2. OnlyControl'
  BY <1>1 DEF SinkInv, OnlyControl
<1>3. BaseHolds'
  BY <1>1 DEF SinkInv, BaseHolds, Snk!BaseRead
<1>4. MayArm'
  BY <1>1 DEF SinkInv, MayArm, Snk!New, Snk!InReservation
<1>5. Snk!ArmedIntoReservation'
  BY DEF Snk!ArmedIntoReservation, Snk!InReservation
<1> QED
  BY <1>1, <1>2, <1>3, <1>4, <1>5 DEF SinkInv

LEMMA SinkThread ==
  ASSUME Reserved \subseteq Nat \X Nat, SinkInv, NEW t \in Armers,
         \/ \E kind \in {"auto", "arm_sinks", "ddr_on", "write"} : Snk!Accept(t, kind)
         \/ Snk!EnsureWidth(t) \/ Snk!DdrOn(t)
         \/ Snk!ArmRead(t) \/ Snk!ArmBase(t) \/ Snk!ArmCheck(t) \/ Snk!ArmWrite(t) \/ Snk!ArmBack(t)
         \/ Snk!WritePolicy(t) \/ Snk!WriteStore(t)
  PROVE  SinkInv'
<1> DEFINE h == x5[t]
<1>0. DOMAIN h = ArmFields /\ ArmFields = {"kind", "pc", "cur", "base", "ok", "target"}
  BY DEF SinkInv, SinkShape, ArmFields, Snk!Rest
<1>1. ASSUME NEW kind, Snk!Accept(t, kind), kind \in {"auto", "arm_sinks", "ddr_on", "write"} PROVE SinkInv'
  <2> DEFINE n == [Snk!Rest EXCEPT !.kind = kind,
              !.cur = IF kind = "auto" THEN {} ELSE x2,
              !.pc = CASE kind = "auto" -> "sink" [] kind = "write" -> "policy" [] OTHER -> "afifm2"]
  <2>1. DOMAIN n = ArmFields /\ n.pc \in {"sink", "policy", "afifm2"}
    BY <1>0, <1>1 DEF Snk!Rest
  <2>2. Snk!Go(t, n)
    BY <1>1 DEF Snk!Accept
  <2> HIDE DEF n
  <2> QED
    BY <1>1, <2>1, <2>2, SinkQuiet DEF Snk!Accept
<1>2. CASE Snk!EnsureWidth(t)
  <2>1. PICK works \in BOOLEAN :
          Snk!Go(t, [h EXCEPT !.ok = @ /\ works, !.pc = IF h.pc = "afifm2" THEN "afifm3" ELSE Snk!After(h.kind)])
    BY <1>2 DEF Snk!EnsureWidth
  <2> DEFINE n == [h EXCEPT !.ok = @ /\ works, !.pc = IF h.pc = "afifm2" THEN "afifm3" ELSE Snk!After(h.kind)]
  <2>2. DOMAIN n = ArmFields /\ n.pc \in {"afifm3", "on", "sink"}
    BY <1>0 DEF Snk!After
  <2> HIDE DEF n
  <2> QED
    BY <1>2, <2>1, <2>2, SinkQuiet DEF Snk!EnsureWidth, n
<1>3. CASE Snk!DdrOn(t)
  <2>1. DOMAIN Snk!Rest = ArmFields /\ Snk!Rest.pc = "idle"
    BY DEF ArmFields, Snk!Rest
  <2> QED
    BY <1>3, <2>1, SinkWord DEF Snk!DdrOn
<1>4. CASE Snk!ArmRead(t)
  <2> DEFINE n == IF Defaults.on \cup Defaults.off = {} THEN Snk!Rest
           ELSE [x5[t] EXCEPT !.cur = x2, !.pc = IF "ddr_en" \in Defaults.on THEN "base" ELSE "write"]
  <2>1. DOMAIN n = ArmFields /\ n.pc \in {"idle", "base", "write"}
    BY <1>0 DEF Snk!Rest, ArmFields
  <2>2. n.pc = "write" => n.cur = x2 /\ "ddr_en" \notin Defaults.on
    BY <1>0 DEF Snk!Rest
  <2>3. n.pc = "write" /\ "ddr_en" \in Snk!New(n.cur) => "ddr_en" \in x2
    BY <2>2 DEF Snk!New
  <2>4. Snk!Go(t, n)
    BY <1>4 DEF Snk!ArmRead
  <2> HIDE DEF n
  <2>5. n.pc = "write" /\ "ddr_en" \in Snk!New(n.cur) /\ ~x7 /\ ~x6 => Snk!InReservation(x1)
    BY <2>3 DEF SinkInv, Snk!ArmedIntoReservation
  <2> QED
    BY <1>4, <2>1, <2>4, <2>5, SinkQuiet DEF Snk!ArmRead
<1>5. CASE Snk!ArmBase(t)
  <2> DEFINE n == [x5[t] EXCEPT !.base = Snk!BaseRead, !.pc = "size"]
  <2>1. DOMAIN n = ArmFields /\ n.pc = "size" /\ n.base = Snk!BaseRead
    BY <1>0
  <2>2. Snk!Go(t, n)
    BY <1>5 DEF Snk!ArmBase
  <2> HIDE DEF n
  <2> QED
    BY <1>5, <2>1, <2>2, SinkQuiet DEF Snk!ArmBase
<1>6. CASE Snk!ArmCheck(t)
  <2> DEFINE ok == Snk!WindowOk(x5[t].base, Snk!SizeRead)
  <2> DEFINE n == IF ok THEN [x5[t] EXCEPT !.pc = "write"] ELSE Snk!Rest
  <2>1. DOMAIN n = ArmFields /\ n.pc \in {"write", "idle"} /\ (n.pc = "write" => ok)
    BY <1>0 DEF Snk!Rest, ArmFields
  <2>2. ok /\ ~x7 /\ x3 => Snk!InReservation(x1)
    BY <1>6, CheckedIsReserved DEF Snk!ArmCheck, SinkInv, BaseHolds, SinkShape
  <2>3. Snk!Go(t, n)
    BY <1>6 DEF Snk!ArmCheck
  <2> HIDE DEF n, ok
  <2> QED
    BY <1>6, <2>1, <2>2, <2>3, SinkQuiet DEF Snk!ArmCheck
<1>7. CASE Snk!ArmWrite(t)
  <2>1. CASE Snk!New(h.cur) = h.cur
    <3>1. DOMAIN Snk!Rest = ArmFields /\ Snk!Rest.pc = "idle"
      BY DEF ArmFields, Snk!Rest
    <3> QED
      BY <1>7, <2>1, <3>1, SinkQuiet DEF Snk!ArmWrite
  <2>2. CASE Snk!New(h.cur) # h.cur
    <3> DEFINE n == [x5[t] EXCEPT !.pc = "back"]
    <3>1. DOMAIN n = ArmFields /\ n.pc = "back"
      BY <1>0
    <3>2. Snk!Go(t, n) /\ Snk!Written(Snk!New(h.cur)) /\ h.pc = "write"
      BY <1>7, <2>2 DEF Snk!ArmWrite
    <3> HIDE DEF n
    <3>3. "ddr_en" \in x2' => x3 /\ "ddr_en" \in Snk!New(h.cur)
      BY <3>2 DEF Snk!Written
    <3>4. "ddr_en" \in x2' /\ ~x6 /\ ~x7 => Snk!InReservation(x1)
      BY <3>2, <3>3 DEF SinkInv, MayArm
    <3> QED
      BY <1>7, <3>1, <3>2, <3>4, SinkWord DEF Snk!ArmWrite
  <2> QED
    BY <2>1, <2>2
<1>8. CASE Snk!ArmBack(t)
  <2>1. DOMAIN Snk!Rest = ArmFields /\ Snk!Rest.pc = "idle"
    BY DEF ArmFields, Snk!Rest
  <2> QED
    BY <1>8, <2>1, SinkQuiet DEF Snk!ArmBack
<1>9. CASE Snk!WritePolicy(t)
  <2>1. PICK target \in {"ddr_base", "ddr_size", "sink_ctrl"} :
          Snk!Go(t, IF Snk!WindowPolicy(target) THEN Snk!Rest ELSE [x5[t] EXCEPT !.pc = "store", !.target = target])
    BY <1>9 DEF Snk!WritePolicy
  <2> DEFINE n == IF Snk!WindowPolicy(target) THEN Snk!Rest ELSE [x5[t] EXCEPT !.pc = "store", !.target = target]
  <2>2. DOMAIN n = ArmFields /\ n.pc \in {"idle", "store"} /\ (n.pc = "store" => n.target = "sink_ctrl")
    BY <1>0 DEF Snk!Rest, ArmFields, Snk!WindowPolicy
  <2>3. Snk!Go(t, n)
    BY <2>1
  <2> HIDE DEF n
  <2> QED
    BY <1>9, <2>2, <2>3, SinkQuiet DEF Snk!WritePolicy
<1>10. CASE Snk!WriteStore(t)
  <2>1. DOMAIN Snk!Rest = ArmFields /\ Snk!Rest.pc = "idle"
    BY DEF ArmFields, Snk!Rest
  <2>2. h.target = "sink_ctrl"
    BY <1>10 DEF Snk!WriteStore, SinkInv, OnlyControl
  <2>3. PICK bits \in {{}, {"ddr_en"}, {"ddr_clear"}} :
          Snk!Written(bits) /\ x6' = (x6 \/ "ddr_en" \in bits) /\ UNCHANGED x1
    BY <1>10, <2>2 DEF Snk!WriteStore
  <2>4. "ddr_en" \in x2' => x6'
    BY <2>3 DEF Snk!Written
  <2> QED
    BY <1>10, <2>1, <2>3, <2>4, SinkWord DEF Snk!WriteStore
<1> QED
  BY <1>1, <1>2, <1>3, <1>4, <1>5, <1>6, <1>7, <1>8, <1>9, <1>10

LEMMA SinkStep ==
  ASSUME SinkInv, [Snk!Next]_(Snk!vars)
  PROVE  SinkInv'
<1>1. ASSUME NEW w \in Windows, Snk!Load(w) PROVE SinkInv'
  <2>1. SinkShape' /\ OnlyControl'
    BY <1>1, SinkArmingAssumption DEF Snk!Load, SinkInv, SinkShape, OnlyControl
  <2>2. "ddr_en" \notin x2'
    BY <1>1 DEF Snk!Load
  <2>3. ~x7' => \A t \in Armers : x5'[t].pc = "idle"
    BY <1>1 DEF Snk!Load, Snk!Working
  <2> QED
    BY <2>1, <2>2, <2>3 DEF SinkInv, BaseHolds, MayArm, Snk!ArmedIntoReservation
<1>2. CASE UNCHANGED Snk!vars
  BY <1>2 DEF Snk!vars, SinkInv, SinkShape, OnlyControl, BaseHolds, Snk!BaseRead, MayArm, Snk!New,
              Snk!ArmedIntoReservation, Snk!InReservation
<1> QED
  BY <1>1, <1>2, SinkThread, SinkArmingAssumption DEF Snk!Next

\* The sink never writes outside the reserved memory unless armed by hand, for any
\* number of threads (arm_default_sinks, ddr_window_ok, window_policy_reason).
THEOREM ArmedIntoReservationTheorem == SpecAll => []ArmedIntoReservation
<1> DEFINE Inv == part = "sinks" => SinkInv
<1>1. InitAll => Inv
  <2> SUFFICES ASSUME InitAll, part = "sinks" PROVE SinkInv
    OBVIOUS
  <2>1. Snk!Init
    BY DEF InitAll
  <2>2. Snk!Rest.pc = "idle"
    BY DEF Snk!Rest
  <2>3. DOMAIN x5 = Armers /\ \A t \in Armers : x5[t] = Snk!Rest
    BY <2>1 DEF Snk!Init
  <2>4. x1 \in Nat \X Nat /\ x2 = {}
    BY <2>1, SinkArmingAssumption DEF Snk!Init
  <2> QED
    BY <2>2, <2>3, <2>4 DEF SinkInv, SinkShape, OnlyControl, BaseHolds, MayArm, Snk!ArmedIntoReservation, ArmFields
<1>2. Inv /\ [NextAll]_allVars => Inv'
  <2> SUFFICES ASSUME Inv, [NextAll]_allVars, part' = "sinks" PROVE SinkInv'
    OBVIOUS
  <2> QED
    BY PartSteps, SinkStep
<1>3. Inv => ArmedIntoReservation
  BY DEF SinkInv, ArmedIntoReservation
<1> QED
  BY <1>1, <1>2, <1>3, PTL DEF SpecAll

-----------------------------------------------------------------------------
(* Rates: x1 tb, x2 written, x3 last, x4 th, x5 measured.                  *)

Sample == [ok : BOOLEAN, tb : Nat, w : Nat, late : BOOLEAN]
RatesShape == x1 \in Nat /\ x2 \in Nat /\ x3 \in Sample /\ x4 \in [Pages -> Sample]
\* The counter has not grown by more than was written since a sample was read.
Sound(s) == s.ok => s.w <= x2 /\ x1 <= s.tb + (x2 - s.w)
\* A sample that is not late was read after the last one.
Ordered ==
  \A t \in Pages : x4[t].ok /\ ~x4[t].late /\ x3.ok =>
    x3.w <= x4[t].w /\ x4[t].tb <= x3.tb + (x4[t].w - x3.w)
RatesInv == RatesShape /\ Sound(x3) /\ (\A t \in Pages : Sound(x4[t])) /\ Ordered /\ Rat!RateIsMeasured

LEMMA RatesStep ==
  ASSUME RatesInv, [Rat!Next]_(Rat!vars)
  PROVE  RatesInv'
<1> USE DEF RatesInv, RatesShape, Rat!RateIsMeasured
<1>1. ASSUME NEW n \in Sizes, Rat!Record(n) PROVE RatesInv'
  <2>1. n \in Nat /\ x1' = x1 + n /\ x2' = x2 + n /\ UNCHANGED <<x3, x4, x5>>
    BY <1>1, RatesAssumption DEF Rat!Record
  <2>2. ASSUME NEW s \in Sample, Sound(s) PROVE Sound(s)'
    BY <2>1, <2>2 DEF Sound, Sample
  <2>3. Sound(x3)' /\ \A t \in Pages : Sound(x4[t])'
    BY <2>1, <2>2 DEF Sound
  <2> QED
    BY <2>1, <2>3 DEF Ordered
<1>2. CASE Rat!TraceClear
  <2>1. x1' = 0 /\ UNCHANGED <<x2, x3, x4, x5>>
    BY <1>2 DEF Rat!TraceClear
  <2>2. ASSUME NEW s \in Sample, Sound(s) PROVE Sound(s)'
    BY <2>1, <2>2 DEF Sound, Sample
  <2>3. Sound(x3)' /\ \A t \in Pages : Sound(x4[t])'
    BY <2>1, <2>2 DEF Sound
  <2> QED
    BY <2>1, <2>3 DEF Ordered
<1>3. CASE Rat!Reset
  BY <1>3 DEF Rat!Reset, Rat!None, Sound, Ordered, Sample
<1>4. ASSUME NEW t \in Pages, Rat!Read(t) PROVE RatesInv'
  <2> DEFINE s == [ok |-> TRUE, tb |-> x1, w |-> x2, late |-> FALSE]
  <2>1. UNCHANGED <<x1, x2, x3, x5>> /\ s \in Sample
    BY <1>4 DEF Rat!Read, Sample
  <2>2. x4' \in [Pages -> Sample] /\ \A u \in Pages : x4'[u] = IF u = t THEN s ELSE x4[u]
    BY <1>4, <2>1 DEF Rat!Read
  <2>3. Sound(x3)' /\ \A u \in Pages : Sound(x4[u])'
    BY <2>1, <2>2 DEF Sound
  <2>4. Ordered'
    BY <2>1, <2>2 DEF Ordered, Sound, Sample
  <2> QED
    BY <2>1, <2>2, <2>3, <2>4
<1>5. ASSUME NEW t \in Pages, Rat!Note(t) PROVE RatesInv'
  <2>1. UNCHANGED <<x1, x2>> /\ x3' = x4[t] /\ x4[t].ok
    BY <1>5 DEF Rat!Note
  <2>2. x4' = [u \in Pages |-> IF u = t THEN Rat!None ELSE [x4[u] EXCEPT !.late = x4[u].ok]]
    BY <1>5 DEF Rat!Note
  <2>3. \A u \in Pages : /\ x4'[u] \in Sample /\ (x4'[u].ok => x4'[u].late)
                         /\ x4'[u].ok => x4[u].ok /\ x4'[u].tb = x4[u].tb /\ x4'[u].w = x4[u].w
    BY <2>2 DEF Rat!None, Sample
  <2>4. RatesShape'
    BY <2>1, <2>2, <2>3
  <2>5. Sound(x3)' /\ \A u \in Pages : Sound(x4[u])'
    BY <2>1, <2>3 DEF Sound
  <2>6. Ordered'
    BY <2>3 DEF Ordered
  <2>7. x5' = TRUE
    <3>1. ASSUME x3.ok, ~x4[t].late, NEW g \in Rat!Growth(x3.tb, x4[t].tb)
          PROVE  g <= x4[t].w - x3.w
      <4>1. g = x4[t].tb - x3.tb
        BY <3>1 DEF Rat!Growth
      <4>2. x3.w <= x4[t].w /\ x4[t].tb <= x3.tb + (x4[t].w - x3.w)
        BY <2>1, <3>1 DEF Ordered
      <4> QED
        BY <4>1, <4>2 DEF Sample
    <3> QED
      BY <1>5, <3>1 DEF Rat!Note
  <2> QED
    BY <2>4, <2>5, <2>6, <2>7
<1>6. CASE UNCHANGED Rat!vars
  BY <1>6 DEF Rat!vars, Sound, Ordered
<1> QED
  BY <1>1, <1>2, <1>3, <1>4, <1>5, <1>6 DEF Rat!Next

\* A rate never claims bytes that were not written between its two samples, for any
\* number of pages, clears and resets (note_counters, PacketRate.sample).
THEOREM RateIsMeasuredTheorem == SpecAll => [](part = "rates" => Rat!RateIsMeasured)
<1> DEFINE Inv == part = "rates" => RatesInv
<1>1. InitAll => Inv
  <2> SUFFICES ASSUME InitAll, part = "rates" PROVE RatesInv
    OBVIOUS
  <2>1. Rat!Init
    BY DEF InitAll
  <2>2. Rat!None \in Sample /\ ~Rat!None.ok
    BY DEF Rat!None, Sample
  <2>3. x3 = Rat!None /\ x4 = [t \in Pages |-> Rat!None]
    BY <2>1 DEF Rat!Init
  <2> QED
    BY <2>1, <2>2, <2>3 DEF Rat!Init, RatesInv, RatesShape, Sound, Ordered, Rat!RateIsMeasured
<1>2. Inv /\ [NextAll]_allVars => Inv'
  <2> SUFFICES ASSUME Inv, [NextAll]_allVars, part' = "rates" PROVE RatesInv'
    OBVIOUS
  <2> QED
    BY PartSteps, RatesStep
<1>3. Inv => (part = "rates" => Rat!RateIsMeasured)
  BY DEF RatesInv
<1> QED
  BY <1>1, <1>2, <1>3, PTL DEF SpecAll

-----------------------------------------------------------------------------
(* Probes: x1 core, x2 moves, x3 ran, x4 pcr, x5 enable, x6 age, x7 ptr,   *)
(* x8 asker, x9 meddled, x10 subject.                                      *)

PcReads == [pc : {"hi", "lo", "again", "done"}, hi : Halves \cup {0}, lo : Halves \cup {0},
            round : Nat, stable : BOOLEAN]
PcShape == x1 \in Halves \X Halves /\ x2 \in 0 .. 1 /\ x4 \in PcReads
\* Before the core moves the upper half is still the one read; after its one move
\* the pair is of before, or the lower half is of after.
PcKnown ==
  /\ x1 \in x3
  /\ x4.pc # "done" => ~x4.stable
  /\ x4.pc = "lo" /\ x2 = 0 => x4.hi = x1[1]
  /\ x4.pc = "again" => <<x4.hi, x4.lo>> \in x3 \/ (x2 = 1 /\ x4.lo = x1[2])
PcInv == PcShape /\ PcKnown /\ Pro!PcWasRun

Hists == [pc : {"idle", "rewind", "read", "done"}, quiet : BOOLEAN, bins : Seq(Nat \X Nat)]
HistShape ==
  /\ x5 \in BOOLEAN /\ x6 \in Nat /\ x7 \in 0 .. Words - 1
  /\ x8 \in [Askers -> Hists]
HistActive(a) == x8[a].pc # "idle"
\* Unless meddled with, a request is alone, and an encoder found off stays off.
HistAlone ==
  ~x9 => \A a \in Askers : HistActive(a) =>
           /\ \A b \in Askers : HistActive(b) => b = a
           /\ x8[a].quiet => ~x5
\* Then the bins read so far are the first ones, and the pointer is at the next.
HistKnown ==
  \A a \in Askers :
    LET h == x8[a]
    IN /\ h.pc = "rewind" => h.bins = <<>>
       /\ h.pc = "read" => Len(h.bins) < Words
       /\ h.pc = "done" => Len(h.bins) = Words
       /\ ~x9 /\ h.quiet /\ h.pc \in {"read", "done"} =>
            /\ \A i \in 1 .. Len(h.bins) : h.bins[i] = <<i - 1, x6>>
            /\ h.pc = "read" => x7 = Len(h.bins)
HistInv == HistShape /\ HistAlone /\ HistKnown

LEMMA SnapshotFollows == HistInv => Pro!HistIsSnapshot
<1> SUFFICES ASSUME HistInv, NEW a \in Askers, x8[a].pc = "done", x8[a].quiet, ~x9, NEW i \in 1 .. Words
             PROVE  x8[a].bins[i] = <<i - 1, x8[a].bins[1][2]>>
  BY DEF Pro!HistIsSnapshot
<1>1. \A j \in 1 .. Words : x8[a].bins[j] = <<j - 1, x6>>
  BY DEF HistInv, HistKnown
<1>2. x8[a].bins[1] = <<0, x6>>
  BY <1>1, ProbesAssumption
<1> QED
  BY <1>1, <1>2

LEMMA PcStep ==
  ASSUME MaxMoves = 1, PcInv,
         Pro!PcHigh \/ Pro!PcLow \/ Pro!PcAgain \/ Pro!PcNext \/ \E to \in Halves \X Halves : Pro!Move(to)
  PROVE  PcInv'
<1>1. /\ x1[1] \in Halves /\ x1[2] \in Halves /\ x1 = <<x1[1], x1[2]>> /\ x1 \in x3 /\ x2 \in 0 .. 1
      /\ x4 \in PcReads /\ x4 = [pc |-> x4.pc, hi |-> x4.hi, lo |-> x4.lo, round |-> x4.round, stable |-> x4.stable]
  BY DEF PcInv, PcShape, PcKnown, PcReads
<1>2. CASE Pro!PcHigh
  <2>1. /\ x4' \in PcReads /\ x4'.pc = "lo" /\ x4'.hi = x1[1] /\ ~x4'.stable
        /\ x1' = x1 /\ x2' = 0 /\ x3' = {x1}
    BY <1>1, <1>2 DEF Pro!PcHigh, PcReads, PcInv, PcKnown
  <2> QED
    BY <1>1, <2>1 DEF PcInv, PcShape, PcKnown, Pro!PcWasRun
<1>3. CASE Pro!PcLow
  <2>1. /\ x4' \in PcReads /\ x4'.pc = "again" /\ x4'.hi = x4.hi /\ x4'.lo = x1[2] /\ ~x4'.stable
        /\ x4.pc = "lo" /\ UNCHANGED <<x1, x2, x3>>
    BY <1>1, <1>3 DEF Pro!PcLow, PcReads, PcInv, PcKnown
  <2>2. <<x4'.hi, x4'.lo>> \in x3 \/ x2 = 1
    BY <1>1, <2>1 DEF PcInv, PcKnown
  <2> QED
    BY <1>1, <2>1, <2>2 DEF PcInv, PcShape, PcKnown, Pro!PcWasRun
<1>4. CASE Pro!PcAgain
  <2>1. CASE x1[1] = x4.hi
    <3>1. /\ x4' \in PcReads /\ x4'.pc = "done" /\ x4'.hi = x4.hi /\ x4'.lo = x4.lo /\ x4'.stable
          /\ x4.pc = "again" /\ UNCHANGED <<x1, x2, x3>>
      <4>1. x4' = [x4 EXCEPT !.pc = "done", !.stable = TRUE] /\ x4.pc = "again" /\ UNCHANGED <<x1, x2, x3>>
        BY <1>4, <2>1 DEF Pro!PcAgain
      <4> QED
        BY <1>1, <4>1 DEF PcReads
    <3>2. <<x4.hi, x4.lo>> \in x3
      BY <1>1, <2>1, <3>1 DEF PcInv, PcKnown
    <3> QED
      BY <1>1, <3>1, <3>2 DEF PcInv, PcShape, PcKnown, Pro!PcWasRun
  <2>2. CASE x1[1] # x4.hi
    <3>1. /\ x4' \in PcReads /\ x4'.pc \in {"done", "lo"} /\ x4'.hi = x1[1] /\ x4'.round > 0 /\ ~x4'.stable
          /\ x1' = x1 /\ x2' = 0 /\ x3' = {x1}
      <4>1. ~x4.stable /\ x4.round + 1 \in Nat /\ x4.round + 1 > 0
        BY <1>1, <1>4 DEF Pro!PcAgain, PcReads, PcInv, PcKnown
      <4>2. x4' = [x4 EXCEPT !.hi = x1[1], !.round = @ + 1, !.pc = IF x4.round + 1 = Attempts THEN "done" ELSE "lo"]
        BY <1>4, <2>2 DEF Pro!PcAgain
      <4> QED
        BY <1>1, <1>4, <2>2, <4>1, <4>2 DEF Pro!PcAgain, PcReads
    <3> QED
      BY <1>1, <3>1 DEF PcInv, PcShape, PcKnown, Pro!PcWasRun
  <2> QED BY <2>1, <2>2
<1>5. CASE Pro!PcNext
  <2>1. x4' \in PcReads /\ x4'.pc = "hi" /\ ~x4'.stable /\ UNCHANGED <<x1, x2, x3>>
    BY <1>5 DEF Pro!PcNext, Pro!NoPc, PcReads
  <2> QED
    BY <1>1, <2>1 DEF PcInv, PcShape, PcKnown, Pro!PcWasRun
<1>6. ASSUME NEW to \in Halves \X Halves, Pro!Move(to) PROVE PcInv'
  <2>1. x4.pc # "done" /\ x1' = to /\ x2 = 0 /\ x2' = 1 /\ x3' = x3 \cup {to} /\ x4' = x4
    BY <1>1, <1>6 DEF Pro!Move
  <2> QED
    BY <1>1, <2>1 DEF PcInv, PcShape, PcKnown, Pro!PcWasRun
<1> QED
  BY <1>2, <1>3, <1>4, <1>5, <1>6

\* A request that goes on leaves the others as they are.
LEMMA HistOne ==
  ASSUME HistShape, NEW a \in Askers, NEW n, Pro!Step(a, n),
         n \in Hists
  PROVE  /\ x8' \in [Askers -> Hists]
         /\ \A b \in Askers : x8'[b] = IF b = a THEN n ELSE x8[b]
BY DEF HistShape, Pro!Step

LEMMA HistBegins ==
  ASSUME NEW q \in BOOLEAN, NEW n, n = [Pro!NoHist EXCEPT !.pc = "rewind", !.quiet = q]
  PROVE  n \in Hists /\ n.pc = "rewind" /\ n.bins = <<>> /\ n.quiet = q
<1>1. <<>> \in Seq(Nat \X Nat)
  OBVIOUS
<1>2. n \in Hists
  BY <1>1 DEF Pro!NoHist, Hists
<1>3. n.pc = "rewind" /\ n.bins = <<>>
  BY DEF Pro!NoHist
<1>4. n.quiet = q
  BY Zenon DEF Pro!NoHist
<1> QED BY <1>2, <1>3, <1>4

LEMMA SmallMod ==
  ASSUME NEW n \in Nat, NEW k \in Nat \ {0}
  PROVE  n % k \in 0 .. k - 1 /\ (n < k => n % k = n)
OBVIOUS

LEMMA HistStep ==
  ASSUME HistInv,
         \/ Pro!Count \/ Pro!Switch
         \/ \E a \in Askers : Pro!HistEnable(a) \/ Pro!HistRewind(a) \/ Pro!HistRead(a) \/ Pro!HistAnswer(a)
  PROVE  HistInv'
<1> USE ProbesAssumption
<1>1. CASE Pro!Count
  <2>1. x5 /\ x6' = x6 + 1 /\ UNCHANGED <<x5, x7, x8, x9>>
    BY <1>1 DEF Pro!Count
  <2>2. HistShape' /\ HistAlone'
    BY <2>1 DEF HistInv, HistShape, HistAlone, HistActive
  <2>3. \A a \in Askers : ~x9 /\ x8[a].pc \in {"read", "done"} => ~x8[a].quiet
    BY <2>1 DEF HistInv, HistAlone, HistActive
  <2>4. HistKnown'
    BY <2>1, <2>3 DEF HistInv, HistKnown
  <2> QED
    BY <2>2, <2>4 DEF HistInv
<1>2. CASE Pro!Switch
  <2>1. x5' = ~x5 /\ UNCHANGED <<x6, x7, x8>> /\ (~x9' => ~x9 /\ \A a \in Askers : ~HistActive(a))
    BY <1>2 DEF Pro!Switch, Pro!Active, HistActive
  <2> QED
    BY <2>1 DEF HistInv, HistShape, HistAlone, HistKnown, HistActive
<1>3. ASSUME NEW a \in Askers, Pro!HistEnable(a) PROVE HistInv'
  <2> DEFINE n == [Pro!NoHist EXCEPT !.pc = "rewind", !.quiet = ~x5]
  <2>1. Pro!Step(a, n) /\ UNCHANGED <<x5, x6, x7>>
    BY <1>3 DEF Pro!HistEnable
  <2>2. ~x9' => \A b \in Askers : ~HistActive(b)
    BY <1>3 DEF Pro!HistEnable, Pro!Active, HistActive
  <2>3. n \in Hists /\ n.pc = "rewind" /\ n.bins = <<>> /\ (n.quiet => ~x5)
    <3>1. (~x5) \in BOOLEAN
      BY Zenon
    <3>2. n \in Hists /\ n.pc = "rewind" /\ n.bins = <<>> /\ n.quiet = ~x5
      BY <3>1, HistBegins
    <3> HIDE DEF n
    <3> QED
      BY <3>2
  <2> HIDE DEF n
  <2>4. x8' \in [Askers -> Hists] /\ \A b \in Askers : x8'[b] = IF b = a THEN n ELSE x8[b]
    BY <2>1, <2>3, HistOne DEF HistInv
  <2>5. HistShape'
    BY <2>1, <2>4 DEF HistInv, HistShape
  <2>6. HistAlone'
    BY <2>1, <2>2, <2>3, <2>4 DEF HistAlone, HistActive
  <2>7. HistKnown'
    BY <2>1, <2>2, <2>3, <2>4 DEF HistInv, HistKnown, HistActive
  <2> QED
    BY <2>5, <2>6, <2>7 DEF HistInv
<1>4. ASSUME NEW a \in Askers, Pro!HistRewind(a) PROVE HistInv'
  <2> DEFINE n == [x8[a] EXCEPT !.pc = "read"]
  <2>1. Pro!Step(a, n) /\ x7' = 0 /\ UNCHANGED <<x5, x6, x9>> /\ x8[a].pc = "rewind"
    BY <1>4 DEF Pro!HistRewind
  <2>2. x8[a] \in Hists /\ x8[a].bins = <<>>
    BY <2>1 DEF HistInv, HistKnown, HistShape
  <2>3. n \in Hists /\ n.pc = "read" /\ n.bins = <<>> /\ n.quiet = x8[a].quiet
    BY <2>2 DEF Hists
  <2> HIDE DEF n
  <2>4. x8' \in [Askers -> Hists] /\ \A b \in Askers : x8'[b] = IF b = a THEN n ELSE x8[b]
    BY <2>1, <2>3, HistOne DEF HistInv
  <2>5. HistShape'
    BY <2>1, <2>4 DEF HistInv, HistShape
  <2>6. HistAlone'
    BY <2>1, <2>3, <2>4 DEF HistInv, HistAlone, HistActive
  <2>7. Len(n.bins) = 0
    BY <2>3
  <2>8. ASSUME NEW b \in Askers, b # a, ~x9, x8[b].pc # "idle" PROVE FALSE
    BY <2>1, <2>8 DEF HistInv, HistAlone, HistActive
  <2>9. HistKnown'
    BY <2>1, <2>3, <2>4, <2>7, <2>8 DEF HistInv, HistKnown
  <2> QED
    BY <2>5, <2>6, <2>9 DEF HistInv
<1>5. ASSUME NEW a \in Askers, Pro!HistRead(a) PROVE HistInv'
  <2> DEFINE bins == Append(x8[a].bins, <<x7, x6>>)
             n == [x8[a] EXCEPT !.bins = bins, !.pc = IF Len(bins) = Words THEN "done" ELSE @]
  <2>1. Pro!Step(a, n) /\ x7' = (x7 + 1) % Words /\ UNCHANGED <<x5, x6, x9>> /\ x8[a].pc = "read"
    BY <1>5 DEF Pro!HistRead
  <2>2. /\ x8[a] \in Hists /\ x8[a].bins \in Seq(Nat \X Nat) /\ Len(x8[a].bins) < Words
        /\ x7 \in 0 .. Words - 1 /\ x6 \in Nat /\ <<x7, x6>> \in Nat \X Nat
    BY <2>1 DEF HistInv, HistShape, HistKnown, Hists
  <2>3. /\ bins \in Seq(Nat \X Nat) /\ Len(bins) = Len(x8[a].bins) + 1
        /\ \A i \in 1 .. Len(bins) : bins[i] = IF i = Len(bins) THEN <<x7, x6>> ELSE x8[a].bins[i]
    BY SMTT(30), <2>2, AppendProperties
  <2> HIDE DEF bins
  <2>4. /\ n.pc = (IF Len(bins) = Words THEN "done" ELSE "read") /\ n.bins = bins /\ n.quiet = x8[a].quiet
        /\ n \in Hists
    BY <2>1, <2>2, <2>3 DEF Hists
  <2>5. x7' \in 0 .. Words - 1 /\ (x7 + 1 < Words => x7' = x7 + 1)
    <3>1. x7 + 1 \in Nat
      BY <2>2
    <3>2. (x7 + 1) % Words \in 0 .. Words - 1 /\ (x7 + 1 < Words => (x7 + 1) % Words = x7 + 1)
      BY <3>1, SmallMod
    <3> QED
      BY <2>1, <3>2
  <2> HIDE DEF n
  <2>6. x8' \in [Askers -> Hists] /\ \A b \in Askers : x8'[b] = IF b = a THEN n ELSE x8[b]
    BY <2>1, <2>4, HistOne DEF HistInv
  <2>7. HistShape'
    BY <2>1, <2>5, <2>6 DEF HistInv, HistShape
  <2>8. HistAlone'
    BY <2>1, <2>4, <2>6 DEF HistInv, HistAlone, HistActive
  <2>9. /\ Len(x8[a].bins) \in Nat /\ Len(bins) \in Nat /\ Words \in Nat
        /\ Len(bins) = Len(x8[a].bins) + 1 /\ Len(x8[a].bins) < Words
    BY <2>2, <2>3, ProbesAssumption
  <2>10. Len(bins) # Words => Len(bins) < Words
    BY <2>9
  <2>11. ASSUME ~x9, x8[a].quiet
        PROVE  /\ \A i \in 1 .. Len(bins) : bins[i] = <<i - 1, x6>>
               /\ Len(bins) # Words => x7' = Len(bins)
    <3>1. x7 = Len(x8[a].bins) /\ \A i \in 1 .. Len(x8[a].bins) : x8[a].bins[i] = <<i - 1, x6>>
      BY <2>1, <2>11 DEF HistInv, HistKnown
    <3>2. ASSUME NEW i \in 1 .. Len(bins) PROVE bins[i] = <<i - 1, x6>>
      <4>1. CASE i = Len(bins)
        <5>1. i - 1 = Len(x8[a].bins)
          BY <2>9, <4>1
        <5> QED
          BY <2>3, <3>1, <4>1, <5>1
      <4>2. CASE i # Len(bins)
        <5>1. i \in 1 .. Len(x8[a].bins)
          BY SMTT(30), <2>3, <2>9, <4>2
        <5> QED
          BY <2>3, <3>1, <4>2, <5>1
      <4> QED BY <4>1, <4>2
    <3>3. ASSUME Len(bins) # Words PROVE x7' = Len(bins)
      <4>1. x7 + 1 = Len(bins)
        BY <2>3, <2>9, <3>1
      <4>2. Len(bins) < Words
        BY <2>10, <3>3
      <4> QED
        BY <2>5, <4>1, <4>2
    <3> QED
      BY <3>2, <3>3
  <2>12. ASSUME NEW b \in Askers, b # a, ~x9, x8[b].pc # "idle" PROVE FALSE
    BY <2>1, <2>12 DEF HistInv, HistAlone, HistActive
  <2>13. HistKnown'
    BY SMTT(30), <2>1, <2>4, <2>6, <2>10, <2>11, <2>12 DEF HistInv, HistKnown
  <2> QED
    BY <2>7, <2>8, <2>13 DEF HistInv
<1>6. ASSUME NEW a \in Askers, Pro!HistAnswer(a) PROVE HistInv'
  <2>1. Pro!Step(a, Pro!NoHist) /\ UNCHANGED <<x5, x6, x7, x9>>
    BY <1>6 DEF Pro!HistAnswer
  <2>2. Pro!NoHist.pc = "idle" /\ Pro!NoHist \in Hists
    BY DEF Pro!NoHist, Hists
  <2>3. x8' \in [Askers -> Hists] /\ \A b \in Askers : x8'[b] = IF b = a THEN Pro!NoHist ELSE x8[b]
    BY <2>1, <2>2, HistOne DEF HistInv
  <2>4. HistShape'
    BY <2>1, <2>3 DEF HistInv, HistShape
  <2>5. HistAlone'
    BY <2>1, <2>2, <2>3 DEF HistInv, HistAlone, HistActive
  <2>6. HistKnown'
    BY <2>1, <2>2, <2>3 DEF HistInv, HistKnown
  <2> QED
    BY <2>4, <2>5, <2>6 DEF HistInv
<1> QED
  BY <1>1, <1>2, <1>3, <1>4, <1>5, <1>6

\* A stable program counter is one the core had, as long as it jumps at most once
\* between the reads of the upper half (read_core_pc); a quiescent histogram is one
\* snapshot, for any number of requests and bins (/api/fifohist).
THEOREM ProbesHoldTheorem ==
  ASSUME MaxMoves = 1
  PROVE  SpecAll => []ProbesHold
<1> DEFINE Inv == part = "probes" => PcInv /\ HistInv
<1>1. InitAll => Inv
  <2> SUFFICES ASSUME InitAll, part = "probes" PROVE PcInv /\ HistInv
    OBVIOUS
  <2>1. Pro!Init
    BY DEF InitAll
  <2>2. PcInv
    BY <2>1 DEF Pro!Init, Pro!NoPc, PcInv, PcShape, PcReads, PcKnown, Pro!PcWasRun
  <2>3. /\ Pro!NoHist \in Hists
        /\ Pro!NoHist.pc = "idle"
    BY DEF Pro!NoHist, Hists
  <2>4. x8 = [a \in Askers |-> Pro!NoHist] /\ x5 \in BOOLEAN /\ x6 = 0 /\ x7 \in 0 .. Words - 1
    BY <2>1 DEF Pro!Init
  <2> QED
    BY <2>2, <2>3, <2>4 DEF HistInv, HistShape, HistAlone, HistKnown, HistActive
<1>2. Inv /\ [NextAll]_allVars => Inv'
  <2> SUFFICES ASSUME Inv, [NextAll]_allVars, part' = "probes" PROVE PcInv' /\ HistInv'
    OBVIOUS
  <2>1. PcInv /\ HistInv /\ [Pro!Next]_(Pro!vars)
    BY PartSteps
  <2>2. CASE Pro!PcHigh \/ Pro!PcLow \/ Pro!PcAgain \/ Pro!PcNext \/ \E to \in Halves \X Halves : Pro!Move(to)
    <3>1. PcInv'
      BY <2>1, <2>2, PcStep
    <3>2. UNCHANGED <<x5, x6, x7, x8, x9>>
      BY <2>2 DEF Pro!PcHigh, Pro!PcLow, Pro!PcAgain, Pro!PcNext, Pro!Move, Pro!histVars
    <3> QED
      BY <2>1, <3>1, <3>2 DEF HistInv, HistShape, HistAlone, HistKnown, HistActive
  <2>3. CASE \/ Pro!Count \/ Pro!Switch
             \/ \E a \in Askers : Pro!HistEnable(a) \/ Pro!HistRewind(a) \/ Pro!HistRead(a) \/ Pro!HistAnswer(a)
    <3>1. HistInv'
      BY <2>1, <2>3, HistStep
    <3>2. UNCHANGED <<x1, x2, x3, x4>>
      BY <2>3 DEF Pro!Count, Pro!Switch, Pro!HistEnable, Pro!HistRewind, Pro!HistRead, Pro!HistAnswer, Pro!pcVars
    <3> QED
      BY <2>1, <3>1, <3>2 DEF PcInv, PcShape, PcKnown, Pro!PcWasRun
  <2>4. CASE UNCHANGED Pro!vars
    <3>1. UNCHANGED <<x1, x2, x3, x4, x5, x6, x7, x8, x9>>
      BY <2>4 DEF Pro!vars, Pro!pcVars, Pro!histVars
    <3> QED
      BY <2>1, <3>1 DEF PcInv, PcShape, PcKnown, Pro!PcWasRun, HistInv, HistShape, HistAlone, HistKnown, HistActive
  <2> QED
    BY <2>1, <2>2, <2>3, <2>4 DEF Pro!Next
<1>3. Inv => ProbesHold
  BY SnapshotFollows DEF PcInv, ProbesHold, Pro!ProbesHold
<1> QED
  BY <1>1, <1>2, <1>3, PTL DEF SpecAll

-----------------------------------------------------------------------------
(* Closure: x1 fabric, x2 record, x3 files, x4 stamp, x5 divisor, x6 cache,*)
(* x7 report, x8 ldr, x9 loads, x10 fresh, x11 lostRecord, x12 glitch.     *)

Verdicts == {"none", "APP_UNKNOWN", "BITSTREAM_UNMATCHED", "NOT_ROUTED", "CONSTRAINTS_UNMET", "OK", "EXCEEDED"}
Reports == [pc : {"idle", "clock", "stat", "hash", "closure", "done"}, app : Firmware \cup {NoAppSlot},
            hz : Int, key : {<<>>} \cup (Firmware \X Nat), md5 : Builds \cup {NoBuild},
            verdict : Verdicts, calm : BOOLEAN]
Loads == [pc : {"idle", "unload", "clock", "load", "slot"}, app : Firmware \cup {NoAppSlot}, tries : Nat]
CloShape ==
  /\ x1 \in Builds \cup {NoBuild} /\ x2 \in Firmware \cup {NoAppSlot}
  /\ x3 \in [Firmware -> Builds] /\ x4 \in [Firmware -> Nat] /\ x5 \in Nat \ {0}
  /\ x6 \in {<<>>} \cup ((Firmware \X Nat) \X Builds) /\ x7 \in Reports
  /\ x8 \in [Loaders -> Loads] /\ \A t \in Loaders : x8[t].pc # "idle" => x8[t].app \in Firmware
  /\ \A a \in Firmware : BuiltAs[x3[a]] = a

\* A slot record is of the build in the PL, which is the file as long as that is fresh.
SlotTrue ==
  /\ x2 # NoAppSlot => x1 # NoBuild /\ BuiltAs[x1] = x2
  /\ x10 /\ x1 # NoBuild => x3[BuiltAs[x1]] = x1
\* A hash kept for the present time stamp of a file is the one of the file.
CacheTrue ==
  \A a \in Firmware, n \in Nat, b \in Builds :
    x6 = <<<<a, n>>, b>> => n <= x4[a] /\ (n = x4[a] => b = x3[a])
\* What a report has gathered is so still, as long as nothing stirred.
CalmTrue ==
  x7.calm /\ x7.pc # "idle" =>
    /\ x7.app = x2
    /\ x7.pc # "clock" => x7.hz = Clo!Hz(x5)
    /\ x7.pc = "hash" => x7.key = <<x7.app, x4[x7.app]>>
    /\ x7.pc = "closure" => x7.md5 = x3[x7.app]
    /\ x7.pc = "done" /\ x7.verdict = "OK" => x7.md5 = x3[x7.app]
\* Whatever stirred: the key is of this file, the verdict of this hash and clock.
ReportTrue ==
  /\ x7.pc \in {"hash", "closure"} => x7.app \in Firmware
  /\ x7.pc = "hash" => \E n \in Nat : x7.key = <<x7.app, n>> /\ n <= x4[x7.app]
  /\ x7.pc = "closure" => x7.md5 \in Builds
  /\ x7.pc = "done" /\ x7.verdict = "OK" => x7.app \in Firmware /\ x7.md5 \in Builds /\ x7.hz <= Closes[x7.md5]
\* A design without a slot record lost it when it was loaded.
ClockTrue == (x1 # NoBuild /\ x2 = NoAppSlot => x11) /\ x12 = FALSE
CloInv == CloShape /\ SlotTrue /\ CacheTrue /\ CalmTrue /\ ReportTrue /\ ClockTrue

\* Loading moves neither files nor cache; a report under way notices or is untouched.
LEMMA CloQuiet ==
  ASSUME CloInv, UNCHANGED <<x3, x4, x6>>, CloShape', SlotTrue', ClockTrue',
         Clo!Stir \/ UNCHANGED <<x2, x5, x7>>
  PROVE  CloInv'
<1>1. CacheTrue'
  BY DEF CloInv, CacheTrue
<1>2. CASE Clo!Stir
  <2>1. /\ x7'.pc = x7.pc /\ x7'.app = x7.app /\ x7'.hz = x7.hz /\ x7'.key = x7.key /\ x7'.md5 = x7.md5
        /\ x7'.verdict = x7.verdict /\ x7'.calm = FALSE
    BY <1>2 DEF Clo!Stir, CloInv, CloShape, Reports
  <2> QED
    BY <1>1, <2>1 DEF CloInv, CalmTrue, ReportTrue
<1>3. CASE UNCHANGED <<x2, x5, x7>>
  BY <1>1, <1>3 DEF CloInv, CalmTrue, ReportTrue, Clo!Hz
<1> QED BY <1>2, <1>3

LEMMA CloLoadKeeps ==
  ASSUME CloInv, NEW t \in Loaders,
         \/ \E a \in Firmware : Clo!LoadBegin(t, a)
         \/ Clo!LoadUnload(t) \/ Clo!LoadClock(t) \/ Clo!LoadApp(t) \/ Clo!LoadSlot(t)
  PROVE  CloInv'
<1> USE ClosureAssumption
<1>0. x8[t] \in Loads /\ (x8[t].pc # "idle" => x8[t].app \in Firmware)
  BY DEF CloInv, CloShape
<1>1. ASSUME NEW a \in Firmware, Clo!LoadBegin(t, a) PROVE CloInv'
  <2> DEFINE n == IF x2 = a THEN Clo!Rest ELSE [Clo!Rest EXCEPT !.pc = "unload", !.app = a]
  <2>1. Clo!Go(t, n) /\ UNCHANGED <<x1, x2, x3, x4, x5, x6, x7, x10, x11, x12>>
    BY <1>1 DEF Clo!LoadBegin
  <2>2. n \in Loads /\ (n.pc # "idle" => n.app \in Firmware)
    BY DEF Clo!Rest, Loads
  <2> HIDE DEF n
  <2>3. CloShape'
    BY <2>1, <2>2 DEF CloInv, CloShape, Clo!Go
  <2> QED
    BY <2>1, <2>3, CloQuiet DEF CloInv, SlotTrue, ClockTrue
<1>2. CASE Clo!LoadUnload(t)
  <2> DEFINE n == [x8[t] EXCEPT !.pc = "clock"]
  <2>1. Clo!Go(t, n) /\ UNCHANGED <<x3, x4, x5, x6, x12>> /\ x8[t].pc = "unload"
    BY <1>2 DEF Clo!LoadUnload
  <2>2. n \in Loads /\ n.app \in Firmware
    BY <1>0, <2>1 DEF Loads
  <2> HIDE DEF n
  <2>3. CASE x1' = NoBuild /\ x2' = NoAppSlot /\ Clo!Stir
    <3>1. x7' \in Reports
      BY <2>3 DEF CloInv, CloShape, Clo!Stir, Reports
    <3>2. CloShape'
      BY <2>1, <2>2, <2>3, <3>1 DEF CloInv, CloShape, Clo!Go
    <3>3. SlotTrue' /\ ClockTrue'
      BY <2>1, <2>3 DEF CloInv, SlotTrue, ClockTrue
    <3> QED
      BY <2>1, <2>3, <3>2, <3>3, CloQuiet
  <2>4. CASE UNCHANGED <<x1, x2, x11, x10, x7>>
    <3>1. CloShape'
      BY <2>1, <2>2, <2>4 DEF CloInv, CloShape, Clo!Go
    <3> QED
      BY <2>1, <2>4, <3>1, CloQuiet DEF CloInv, SlotTrue, ClockTrue
  <2> QED
    BY <1>2, <2>3, <2>4 DEF Clo!LoadUnload
<1>3. CASE Clo!LoadClock(t)
  <2> DEFINE n == [x8[t] EXCEPT !.pc = "load"]
             div == WantDiv[x8[t].app]
  <2>1. Clo!Go(t, n) /\ UNCHANGED <<x1, x2, x3, x4, x6, x10, x11>> /\ x8[t].pc = "clock"
    BY <1>3 DEF Clo!LoadClock
  <2>2. n \in Loads /\ n.app \in Firmware /\ div \in Nat
    BY <1>0, <2>1 DEF Loads
  <2>3. \/ UNCHANGED <<x5, x12, x7>>
        \/ div # 0 /\ x2 = NoAppSlot /\ x5' = div /\ x12' = (x12 \/ (x1 # NoBuild /\ div # x5 /\ ~x11)) /\ Clo!Stir
    BY <1>3 DEF Clo!LoadClock, Clo!ToolRefuses
  <2> HIDE DEF n, div
  <2>4. CASE UNCHANGED <<x5, x12, x7>>
    <3>1. CloShape'
      BY <2>1, <2>2, <2>4 DEF CloInv, CloShape, Clo!Go
    <3> QED
      BY <2>1, <2>4, <3>1, CloQuiet DEF CloInv, SlotTrue, ClockTrue
  <2>5. CASE div # 0 /\ x2 = NoAppSlot /\ x5' = div /\ x12' = (x12 \/ (x1 # NoBuild /\ div # x5 /\ ~x11)) /\ Clo!Stir
    <3>1. x7' \in Reports
      BY <2>5 DEF CloInv, CloShape, Clo!Stir, Reports
    <3>2. CloShape'
      BY <2>1, <2>2, <2>5, <3>1 DEF CloInv, CloShape, Clo!Go
    <3>3. SlotTrue' /\ ClockTrue'
      BY <2>1, <2>5 DEF CloInv, SlotTrue, ClockTrue
    <3> QED
      BY <2>1, <2>5, <3>2, <3>3, CloQuiet
  <2> QED
    BY <2>3, <2>4, <2>5
<1>4. CASE Clo!LoadApp(t)
  <2> DEFINE n == [x8[t] EXCEPT !.pc = "slot"]
             a == x8[t].app
  <2>1. Clo!Go(t, n) /\ UNCHANGED <<x3, x4, x5, x6, x12>> /\ x8[t].pc = "load"
    BY <1>4 DEF Clo!LoadApp
  <2>2. n \in Loads /\ n.app \in Firmware /\ a \in Firmware
    BY <1>0, <2>1 DEF Loads
  <2>3. \/ UNCHANGED <<x1, x2, x11, x10, x7>>
        \/ /\ x1 = NoBuild /\ x1' = x3[a] /\ Clo!Stir
           /\ x2' = a \/ (x2' = NoAppSlot /\ x11' = TRUE)
    BY <1>4 DEF Clo!LoadApp
  <2> HIDE DEF n, a
  <2>4. CASE UNCHANGED <<x1, x2, x11, x10, x7>>
    <3>1. CloShape'
      BY <2>1, <2>2, <2>4 DEF CloInv, CloShape, Clo!Go
    <3> QED
      BY <2>1, <2>4, <3>1, CloQuiet DEF CloInv, SlotTrue, ClockTrue
  <2>5. CASE x1 = NoBuild /\ x1' = x3[a] /\ Clo!Stir /\ (x2' = a \/ (x2' = NoAppSlot /\ x11' = TRUE))
    <3>1. x7' \in Reports
      BY <2>5 DEF CloInv, CloShape, Clo!Stir, Reports
    <3>2. x1' \in Builds /\ x1' # NoBuild /\ BuiltAs[x1'] = a /\ x3'[a] = x1' /\ a # NoAppSlot
      BY SMTT(30), <2>1, <2>2, <2>5 DEF CloInv, CloShape
    <3>3. CloShape'
      BY <2>1, <2>2, <2>5, <3>1, <3>2 DEF CloInv, CloShape, Clo!Go
    <3>4. SlotTrue' /\ ClockTrue'
      BY <2>1, <2>5, <3>2 DEF CloInv, SlotTrue, ClockTrue
    <3> QED
      BY <2>1, <2>5, <3>3, <3>4, CloQuiet
  <2> QED
    BY <2>3, <2>4, <2>5
<1>5. CASE Clo!LoadSlot(t)
  <2> DEFINE n == IF x2 = x8[t].app \/ x8[t].tries = 1 THEN Clo!Rest ELSE [x8[t] EXCEPT !.pc = "unload", !.tries = 1]
  <2>1. Clo!Go(t, n) /\ UNCHANGED <<x1, x2, x3, x4, x5, x6, x7, x10, x11, x12>> /\ x8[t].pc = "slot"
    BY <1>5 DEF Clo!LoadSlot
  <2>2. n \in Loads /\ (n.pc # "idle" => n.app \in Firmware)
    BY <1>0, <2>1 DEF Clo!Rest, Loads
  <2> HIDE DEF n
  <2>3. CloShape'
    BY SMTT(30), <2>1, <2>2 DEF CloInv, CloShape, Clo!Go
  <2> QED
    BY <2>1, <2>3, CloQuiet DEF CloInv, SlotTrue, ClockTrue
<1> QED
  BY <1>1, <1>2, <1>3, <1>4, <1>5

\* An installed file gets a new time stamp, so no hash is taken for its own.
LEMMA CloInstallKeeps ==
  ASSUME CloInv, NEW b \in Builds, Clo!Install(b)
  PROVE  CloInv'
<1> DEFINE a == BuiltAs[b]
<1>1. /\ a \in Firmware /\ UNCHANGED <<x1, x2, x5, x6, x8, x11, x12>> /\ Clo!Stir
      /\ x3' = [x3 EXCEPT ![a] = b] /\ x4' = [x4 EXCEPT ![a] = x4[a] + 1]
      /\ x10' = (x10 /\ (x1 = NoBuild \/ BuiltAs[x1] # a \/ x1 = b))
  BY ClosureAssumption DEF Clo!Install, Clo!loading
<1>2. x3' \in [Firmware -> Builds] /\ \A c \in Firmware : x3'[c] = IF c = a THEN b ELSE x3[c]
  BY <1>1 DEF CloInv, CloShape
<1>3. x4' \in [Firmware -> Nat] /\ \A c \in Firmware : x4'[c] = IF c = a THEN x4[c] + 1 ELSE x4[c]
  BY <1>1 DEF CloInv, CloShape
<1>4. /\ x7' \in Reports /\ x7'.pc = x7.pc /\ x7'.app = x7.app /\ x7'.hz = x7.hz /\ x7'.key = x7.key
      /\ x7'.md5 = x7.md5 /\ x7'.verdict = x7.verdict /\ x7'.calm = FALSE
  BY <1>1 DEF Clo!Stir, CloInv, CloShape, Reports
<1>5. BuiltAs[b] = a
  OBVIOUS
<1> HIDE DEF a
<1>6. CloShape'
  BY <1>1, <1>2, <1>3, <1>4, <1>5 DEF CloInv, CloShape
<1>7. SlotTrue'
  BY <1>1, <1>2, ClosureAssumption DEF CloInv, CloShape, SlotTrue
<1>8. CacheTrue'
  BY <1>1, <1>2, <1>3 DEF CloInv, CloShape, CacheTrue
<1>9. CalmTrue' /\ ClockTrue'
  BY <1>1, <1>4 DEF CloInv, CalmTrue, ClockTrue
<1>10. ReportTrue'
  <2>1. \A c \in Firmware : x4[c] \in Nat /\ x4[c] <= x4'[c] /\ x4'[c] \in Nat
    BY SMTT(30), <1>3 DEF CloInv, CloShape
  <2>2. ASSUME x7.pc = "hash"
        PROVE  \E n \in Nat : x7'.key = <<x7'.app, n>> /\ n <= x4'[x7'.app]
    <3>1. PICK n \in Nat : x7.key = <<x7.app, n>> /\ n <= x4[x7.app]
      BY <2>2 DEF CloInv, ReportTrue
    <3>2. x7.app \in Firmware
      BY <2>2 DEF CloInv, ReportTrue
    <3>3. n <= x4'[x7.app]
      BY <2>1, <3>1, <3>2
    <3> QED BY <1>4, <3>1, <3>3
  <2> QED
    BY <1>4, <2>2 DEF CloInv, ReportTrue
<1> QED
  BY <1>6, <1>7, <1>8, <1>9, <1>10 DEF CloInv

LEMMA CloReportKeeps ==
  ASSUME CloInv,
         Clo!ReportApp \/ Clo!ReportClock \/ Clo!ReportStat \/ Clo!ReportHash \/ Clo!ReportClosure \/ Clo!ReportAnswer
  PROVE  CloInv'
<1>0. UNCHANGED <<x1, x2, x3, x4, x5, x8, x10, x11, x12>>
  BY DEF Clo!ReportApp, Clo!ReportClock, Clo!ReportStat, Clo!ReportHash, Clo!ReportClosure, Clo!ReportAnswer, Clo!loading
<1>1. SlotTrue' /\ ClockTrue'
  BY <1>0 DEF CloInv, SlotTrue, ClockTrue
<1>2. ASSUME x7' \in Reports, x6' \in {<<>>} \cup ((Firmware \X Nat) \X Builds) PROVE CloShape'
  BY <1>0, <1>2 DEF CloInv, CloShape
<1>3. ASSUME x6' = x6 PROVE CacheTrue'
  BY <1>0, <1>3 DEF CloInv, CacheTrue
<1>4. x7 \in Reports /\ x2 \in Firmware \cup {NoAppSlot} /\ x6 \in {<<>>} \cup ((Firmware \X Nat) \X Builds)
  BY DEF CloInv, CloShape
<1>5. ASSUME x6' = x6, x7' \in Reports, CalmTrue', ReportTrue' PROVE CloInv'
  BY <1>1, <1>2, <1>3, <1>4, <1>5 DEF CloInv
<1>6. CASE Clo!ReportApp
  <2>1. x7' = [Clo!NoReport EXCEPT !.pc = "clock", !.app = x2] /\ x6' = x6
    BY <1>6 DEF Clo!ReportApp
  <2>2. x7' \in Reports /\ x7'.pc = "clock" /\ x7'.app = x2
    <3>1. x7' = [pc |-> "clock", app |-> x2, hz |-> 0, key |-> <<>>, md5 |-> NoBuild, verdict |-> "none", calm |-> TRUE]
      BY <2>1 DEF Clo!NoReport
    <3> QED
      BY <1>4, <3>1 DEF Reports, Verdicts
  <2> QED
    BY <1>0, <1>5, <2>1, <2>2 DEF CalmTrue, ReportTrue
<1>7. CASE Clo!ReportClock
  <2>1. x7' = [x7 EXCEPT !.pc = "stat", !.hz = Clo!Hz(x5)] /\ x6' = x6 /\ x7.pc = "clock"
    BY <1>7 DEF Clo!ReportClock
  <2>2. Clo!Hz(x5) \in Int
    BY ClosureAssumption DEF Clo!Hz, CloInv, CloShape
  <2>3. x7' \in Reports /\ x7'.pc = "stat" /\ x7'.hz = Clo!Hz(x5) /\ x7'.app = x7.app /\ x7'.calm = x7.calm
    BY <1>4, <2>1, <2>2 DEF Reports
  <2> QED
    BY <1>0, <1>5, <2>1, <2>3 DEF CloInv, CalmTrue, ReportTrue, Clo!Hz
<1>8. CASE Clo!ReportStat
  <2>1. CASE x7.app = NoAppSlot
    <3>1. x7' = [x7 EXCEPT !.pc = "done", !.verdict = "APP_UNKNOWN"] /\ x6' = x6 /\ x7.pc = "stat"
      BY <1>8, <2>1 DEF Clo!ReportStat
    <3>2. /\ x7' \in Reports /\ x7'.pc = "done" /\ x7'.verdict = "APP_UNKNOWN" /\ x7'.app = x7.app
          /\ x7'.hz = x7.hz /\ x7'.calm = x7.calm
      BY <1>4, <3>1 DEF Reports, Verdicts
    <3> QED
      BY <1>0, <1>5, <3>1, <3>2 DEF CloInv, CalmTrue, ReportTrue, Clo!Hz
  <2>2. CASE x7.app # NoAppSlot
    <3>1. x7' = [x7 EXCEPT !.pc = "hash", !.key = <<x7.app, x4[x7.app]>>] /\ x6' = x6 /\ x7.pc = "stat"
      BY <1>8, <2>2 DEF Clo!ReportStat, Clo!CacheKey
    <3>2. x7.app \in Firmware /\ x4[x7.app] \in Nat
      BY <1>4, <2>2 DEF Reports, CloInv, CloShape
    <3>3. /\ x7' \in Reports /\ x7'.pc = "hash" /\ x7'.key = <<x7.app, x4[x7.app]>> /\ x7'.app = x7.app
          /\ x7'.hz = x7.hz /\ x7'.calm = x7.calm
      BY <1>4, <3>1, <3>2 DEF Reports
    <3>4. \E n \in Nat : x7'.key = <<x7'.app, n>> /\ n <= x4'[x7'.app]
      BY <1>0, <3>2, <3>3
    <3> QED
      BY <1>0, <1>5, <3>1, <3>2, <3>3, <3>4 DEF CloInv, CalmTrue, ReportTrue, Clo!Hz
  <2> QED BY <2>1, <2>2
<1>9. CASE Clo!ReportHash
  <2> DEFINE hit == x6 # <<>> /\ x6[1] = x7.key
             md5 == IF hit THEN x6[2] ELSE x3[x7.app]
  <2>1. x7.pc = "hash" /\ x6' = <<x7.key, md5>> /\ x7' = [x7 EXCEPT !.pc = "closure", !.md5 = md5]
    BY <1>9 DEF Clo!ReportHash
  <2>2. PICK n \in Nat : x7.app \in Firmware /\ x7.key = <<x7.app, n>> /\ n <= x4[x7.app]
    BY <2>1 DEF CloInv, ReportTrue
  <2>3. x3[x7.app] \in Builds /\ x4[x7.app] \in Nat
    BY <2>2 DEF CloInv, CloShape
  <2>4. md5 \in Builds /\ (n = x4[x7.app] => md5 = x3[x7.app])
    <3>1. CASE hit
      <4>1. x6[2] \in Builds /\ x6 = <<x6[1], x6[2]>>
        BY <1>4, <3>1
      <4>2. x6 = <<<<x7.app, n>>, x6[2]>>
        BY <2>2, <3>1, <4>1
      <4> QED
        BY <2>2, <3>1, <4>1, <4>2 DEF CloInv, CacheTrue
    <3>2. CASE ~hit
      BY <2>3, <3>2
    <3> QED BY <3>1, <3>2
  <2> HIDE DEF hit, md5
  <2>5. /\ x7' \in Reports /\ x7'.pc = "closure" /\ x7'.md5 = md5 /\ x7'.app = x7.app
        /\ x7'.hz = x7.hz /\ x7'.calm = x7.calm
    BY <1>4, <2>1, <2>4 DEF Reports
  <2>6. x6' \in (Firmware \X Nat) \X Builds
    BY <2>1, <2>2, <2>4
  <2>7. CacheTrue'
    <3> SUFFICES ASSUME NEW a \in Firmware, NEW k \in Nat, NEW b \in Builds, x6' = <<<<a, k>>, b>>
                 PROVE  k <= x4[a] /\ (k = x4[a] => b = x3[a])
      BY <1>0 DEF CacheTrue
    <3>1. a = x7.app /\ k = n /\ b = md5
      BY <2>1, <2>2
    <3> QED
      BY <2>2, <2>4, <3>1
  <2>8. CalmTrue'
    <3>1. ASSUME x7.calm PROVE n = x4[x7.app]
      BY <2>1, <2>2, <3>1 DEF CloInv, CalmTrue
    <3> QED
      BY <1>0, <2>1, <2>4, <2>5, <3>1 DEF CloInv, CalmTrue, Clo!Hz
  <2>9. ReportTrue'
    BY <2>2, <2>4, <2>5 DEF ReportTrue
  <2> QED
    BY <1>1, <1>2, <2>5, <2>6, <2>7, <2>8, <2>9 DEF CloInv
<1>10. CASE Clo!ReportClosure
  <2> DEFINE v == Clo!Verdict(x7.app, x7.md5, x7.hz)
  <2>1. x7' = [x7 EXCEPT !.pc = "done", !.verdict = v] /\ x6' = x6 /\ x7.pc = "closure"
    BY <1>10 DEF Clo!ReportClosure
  <2>2. x7.app \in Firmware /\ x7.md5 \in Builds /\ x7.hz \in Int
    BY <1>4, <2>1 DEF CloInv, ReportTrue, Reports
  <2>3. v \in Verdicts /\ (v = "OK" => x7.hz <= Closes[x7.md5])
    <3>1. v \in Verdicts
      BY DEF Clo!Verdict, Verdicts
    <3>2. ASSUME v = "OK" PROVE x7.hz <= Closes[x7.md5]
      <4> DEFINE r == Registry[x7.app]
      <4>1. r.md5 = x7.md5 /\ r.routed /\ ~r.failing /\ x7.hz <= r.achieved
        BY <3>2 DEF Clo!Verdict
      <4>2. r.achieved \in Nat /\ r.achieved <= Closes[x7.md5] /\ Closes[x7.md5] \in Nat
        BY <2>2, <4>1, ClosureAssumption
      <4> QED
        BY <2>2, <4>1, <4>2
    <3> QED BY <3>1, <3>2
  <2> HIDE DEF v
  <2>4. /\ x7' \in Reports /\ x7'.pc = "done" /\ x7'.verdict = v /\ x7'.app = x7.app /\ x7'.md5 = x7.md5
        /\ x7'.hz = x7.hz /\ x7'.calm = x7.calm
    BY <1>4, <2>1, <2>3 DEF Reports
  <2> QED
    BY <1>0, <1>5, <2>1, <2>2, <2>3, <2>4 DEF CloInv, CalmTrue, ReportTrue, Clo!Hz
<1>11. CASE Clo!ReportAnswer
  <2>1. x7' = Clo!NoReport /\ x6' = x6
    BY <1>11 DEF Clo!ReportAnswer
  <2>2. x7' \in Reports /\ x7'.pc = "idle"
    BY <2>1 DEF Clo!NoReport, Reports, Verdicts
  <2> QED
    BY <1>5, <2>1, <2>2 DEF CalmTrue, ReportTrue
<1> QED
  BY <1>6, <1>7, <1>8, <1>9, <1>10, <1>11

\* A closure report that says OK is right about the design and its clock, and the
\* clock changes only while the PL is empty or its slot record is lost, for any
\* number of builds, clocks, loads and threads (load_app, board_state, closure_state).
THEOREM ClosureIsEvidenceTheorem == SpecAll => []ClosureIsEvidence
<1> DEFINE Inv == part = "closure" => CloInv
<1>1. InitAll => Inv
  <2> SUFFICES ASSUME InitAll, part = "closure" PROVE CloInv
    OBVIOUS
  <2>1. Clo!Init
    BY DEF InitAll
  <2>2. Clo!Rest \in Loads /\ Clo!Rest.pc = "idle"
    BY DEF Clo!Rest, Loads
  <2>3. Clo!NoReport \in Reports /\ Clo!NoReport.pc = "idle"
    BY DEF Clo!NoReport, Reports, Verdicts
  <2>4. CloShape
    BY <2>1, <2>2, <2>3, ClosureAssumption DEF Clo!Init, CloShape
  <2>5. x6 = <<>> /\ x7.pc = "idle"
    BY <2>1, <2>3 DEF Clo!Init
  <2>6. SlotTrue /\ ClockTrue
    BY <2>1 DEF Clo!Init, SlotTrue, ClockTrue
  <2> QED
    BY <2>4, <2>5, <2>6 DEF CloInv, CacheTrue, CalmTrue, ReportTrue
<1>2. Inv /\ [NextAll]_allVars => Inv'
  <2> SUFFICES ASSUME Inv, [NextAll]_allVars, part' = "closure" PROVE CloInv'
    OBVIOUS
  <2>1. CloInv /\ [Clo!Next]_(Clo!vars)
    BY PartSteps
  <2>2. CASE UNCHANGED Clo!vars
    <3>1. UNCHANGED <<x1, x2, x3, x4, x5, x6, x7, x8, x10, x11, x12>>
      BY <2>2 DEF Clo!vars, Clo!loading
    <3> QED
      BY <2>1, <3>1 DEF CloInv, CloShape, SlotTrue, CacheTrue, CalmTrue, ReportTrue, ClockTrue, Clo!Hz
  <2> QED
    BY <2>1, <2>2, CloInstallKeeps, CloLoadKeeps, CloReportKeeps DEF Clo!Next
<1>3. Inv => ClosureIsEvidence
  <2> SUFFICES ASSUME part = "closure", CloInv PROVE Clo!ClosureIsEvidence /\ Clo!ClockWhileEmpty
    BY DEF ClosureIsEvidence
  <2>1. ASSUME x7.pc = "done", x7.verdict = "OK", x7.calm, x10
        PROVE  x1 # NoBuild /\ Clo!Hz(x5) <= Closes[x1]
    <3>1. x7.app = x2 /\ x7.hz = Clo!Hz(x5) /\ x7.md5 = x3[x7.app] /\ x7.app \in Firmware /\ x7.hz <= Closes[x7.md5]
      BY <2>1 DEF CloInv, CalmTrue, ReportTrue
    <3>2. x1 # NoBuild /\ BuiltAs[x1] = x2 /\ x3[BuiltAs[x1]] = x1
      BY <2>1, <3>1, ClosureAssumption DEF CloInv, SlotTrue
    <3> QED
      BY <3>1, <3>2
  <2> QED
    BY <2>1 DEF Clo!ClosureIsEvidence, Clo!ClockWhileEmpty, CloInv, ClockTrue
<1> QED
  BY <1>1, <1>2, <1>3, PTL DEF SpecAll

-----------------------------------------------------------------------------
(* Session.                                                                *)

BusOf == [sc : Scenarios, id : Nat]
ThFields == {"kind", "pc", "arg", "load", "bus", "safe", "tries", "skipped"}
SesShape ==
  /\ SC \in Scenarios /\ hw \in BusOf /\ current \in BusOf /\ made \in Nat
  /\ DOMAIN th = All
  /\ \A t \in All : DOMAIN th[t] = ThFields /\ th[t].arg \in Scenarios /\ th[t].bus \in BusOf
\* A bus is known by its number.
SesBuses ==
  /\ hw.id <= made /\ current.id <= made /\ (current.id = hw.id /\ hw.id # 0 => current = hw)
  /\ \A t \in All : th[t].bus.id <= made /\ (th[t].bus.id = hw.id /\ hw.id # 0 => th[t].bus = hw)
SesSlot == slot # NoApp => slot = pl
SesBase == SesShape /\ SesBuses /\ SesSlot

\* What holds between requests.
Settled ==
  /\ symbols = SC
  /\ hw.id # 0 => hw.sc = SC /\ pl \in Variants[SC]
  /\ current.id # 0 => current = hw
\* While a design is replaced a bus that is still mapped is of the very scenario.
Replacing(t) == hw.id # 0 => hw.sc = SC /\ pl \in Variants[SC] \cup {NoApp} /\ ~th[t].skipped
\* What a request that is alone has achieved when it stands at its next step.
Selecting(t) ==
  /\ th[t].kind = "select" /\ SC = th[t].arg
  /\ \/ th[t].pc \in {"symbols", "close"} /\ (hw.id # 0 => pl # NoApp) /\ ~th[t].skipped
     \/ th[t].pc \in {"ask", "map"} /\ hw.id = 0 /\ ~th[t].skipped
     \/ th[t].pc \in {"ask2", "map2"} /\ hw.id = 0
     \/ th[t].pc = "present" /\ Settled /\ current = hw /\ ~th[t].skipped
     \/ th[t].pc = "quiesce" /\ Settled /\ th[t].bus = hw
     \/ th[t].pc \in {"unload", "load", "proof", "close2"} /\ Replacing(t)
  /\ th[t].pc # "symbols" => symbols = SC
  /\ th[t].pc \in {"map", "map2"} /\ th[t].safe => slot \in Variants[SC]
  /\ th[t].pc = "unload" /\ armed => th[t].skipped \/ th[t].tries = 1
Stage(t) ==
  \/ th[t].pc = "idle"
  \/ th[t].pc = "begin" /\ Settled /\ ~th[t].skipped
  \/ th[t].kind = "live" /\ th[t].pc = "map" /\ Settled /\ hw.id = 0 /\ (th[t].safe => slot \in Variants[SC])
  \/ Selecting(t)
SesOrder ==
  clean =>
    /\ \A t, u \in Threads : Busy(t) /\ Busy(u) => t = u
    /\ (\A t \in Threads : ~Busy(t)) => Settled
    /\ \A t \in Threads : Stage(t)
SesInv == SesBase /\ SesOrder

LEMMA NoAppIsNone == \A s \in Scenarios : NoApp \notin Variants[s]
BY CatalogAssumption DEF Apps

\* A new bus has a number of its own.
LEMMA BusesKeep ==
  ASSUME SesBase, SesShape', NEW t \in All, \A u \in All : u # t => th'[u] = th[u],
         made' >= made, made' >= hw'.id,
         hw' = hw \/ hw'.id = 0 \/ hw'.id = made + 1,
         current' = current \/ current' = hw' \/ current'.id = 0,
         th'[t].bus = th[t].bus \/ th'[t].bus = current \/ th'[t].bus.id = 0,
         hw' = hw \/ th'[t].bus = th[t].bus \/ th'[t].bus.id = 0
  PROVE  SesBuses'
<1>1. made \in Nat /\ made' \in Nat /\ hw \in BusOf /\ hw' \in BusOf /\ current \in BusOf /\ current' \in BusOf
  BY DEF SesBase, SesShape
<1>2. \A u \in All : th[u].bus \in BusOf /\ th'[u].bus \in BusOf /\ th[u].bus.id \in Nat /\ th'[u].bus.id \in Nat
  BY DEF SesBase, SesShape, BusOf
<1>3. hw.id \in Nat /\ hw'.id \in Nat /\ current.id \in Nat /\ current'.id \in Nat
  BY <1>1 DEF BusOf
<1>4. current'.id <= made' /\ (current'.id = hw'.id /\ hw'.id # 0 => current' = hw')
  BY <1>1, <1>3 DEF SesBase, SesBuses
<1>5. ASSUME NEW u \in All
      PROVE  th'[u].bus.id <= made' /\ (th'[u].bus.id = hw'.id /\ hw'.id # 0 => th'[u].bus = hw')
  <2>1. th[u].bus.id <= made /\ (th[u].bus.id = hw.id /\ hw.id # 0 => th[u].bus = hw)
    BY DEF SesBase, SesBuses
  <2>2. CASE u # t
    BY <1>1, <1>2, <1>3, <2>1, <2>2
  <2>3. CASE u = t
    <3>1. current.id <= made /\ (current.id = hw.id /\ hw.id # 0 => current = hw)
      BY DEF SesBase, SesBuses
    <3> QED
      BY <1>1, <1>2, <1>3, <2>1, <2>3, <3>1
  <2> QED BY <2>2, <2>3
<1> QED
  BY <1>4, <1>5 DEF SesBuses

\* A thread goes on; all others stay.
LEMMA ThGoes ==
  ASSUME SesShape, NEW t \in All, NEW n, Go(t, n), DOMAIN n = ThFields, n.arg \in Scenarios, n.bus \in BusOf
  PROVE  /\ DOMAIN th' = All /\ \A u \in All : DOMAIN th'[u] = ThFields /\ th'[u].arg \in Scenarios /\ th'[u].bus \in BusOf
         /\ th'[t] = n /\ \A u \in All : u # t => th'[u] = th[u]
BY DEF SesShape, Go

\* A busy thread of its own goes on: the others are at rest.
LEMMA AloneGoes ==
  ASSUME SesInv, SesBase', NEW t \in Threads, Busy(t), clean' = clean,
         \A u \in All : u # t => th'[u] = th[u],
         clean => Stage(t)' /\ (th'[t].pc = "idle" => Settled')
  PROVE  SesInv'
<1> SUFFICES ASSUME clean PROVE SesOrder'
  BY DEF SesInv, SesOrder
<1>1. \A u \in Threads : u # t => th'[u] = th[u] /\ th[u].pc = "idle"
  BY DEF SesInv, SesOrder, Busy, All
<1>2. \A u \in Threads : u # t => Stage(u)'
  BY <1>1 DEF Stage
<1>3. \A u \in Threads : Busy(u)' => u = t
  BY <1>1 DEF Busy
<1>4. (\A u \in Threads : ~Busy(u)') => Settled'
  BY DEF Busy
<1> QED
  BY <1>2, <1>3, <1>4 DEF SesOrder

\* A step of a busy thread: what is left to show of one action.
LEMMA StepKeeps ==
  ASSUME SesInv, NEW t \in Threads, Busy(t), clean' = clean,
         NEW n, Go(t, n), DOMAIN n = ThFields, n.arg \in Scenarios, n.bus \in BusOf,
         n.bus = th[t].bus \/ n.bus.id = 0 \/ (n.bus = current /\ hw' = hw),
         SC' \in Scenarios, hw' \in BusOf, current' \in BusOf, made' \in Nat,
         made' >= made, made' >= hw'.id,
         hw' = hw \/ hw'.id = 0 \/ hw'.id = made + 1,
         current' = current \/ current' = hw' \/ current'.id = 0,
         SesSlot',
         th'[t] = n /\ clean => Stage(t)' /\ (n.pc = "idle" => Settled')
  PROVE  SesInv'
<1>1. t \in All /\ SesBase /\ SesShape
  BY DEF All, SesInv, SesBase
<1>2. /\ DOMAIN th' = All
      /\ \A u \in All : DOMAIN th'[u] = ThFields /\ th'[u].arg \in Scenarios /\ th'[u].bus \in BusOf
      /\ th'[t] = n /\ \A u \in All : u # t => th'[u] = th[u]
  BY <1>1, ThGoes
<1>3. SesShape'
  BY <1>2 DEF SesShape
<1>4. SesBuses'
  BY <1>1, <1>2, <1>3, BusesKeep
<1>5. SesBase'
  BY <1>3, <1>4 DEF SesBase
<1> QED
  BY <1>1, <1>2, <1>5, AloneGoes

LEMMA RestIs ==
  ASSUME Scenarios # {}
  PROVE  /\ DOMAIN Rest = ThFields /\ Rest.arg \in Scenarios /\ Rest.bus \in BusOf /\ Rest.bus.id = 0
         /\ Rest.pc = "idle"
<1>1. PICK s \in Scenarios : s = CHOOSE r \in Scenarios : TRUE
  OBVIOUS
<1>2. Rest = [kind |-> "none", pc |-> "idle", arg |-> s, load |-> FALSE, bus |-> [sc |-> s, id |-> 0],
              safe |-> FALSE, tries |-> 0, skipped |-> FALSE]
  BY <1>1 DEF Rest, Idle, Demo
<1> QED
  BY <1>2 DEF ThFields, BusOf

\* What a thread of a request holds.
LEMMA ThHas ==
  ASSUME SesInv, NEW t \in Threads
  PROVE  /\ th[t].arg \in Scenarios /\ th[t].bus \in BusOf /\ DOMAIN th[t] = ThFields
         /\ SC \in Scenarios /\ hw \in BusOf /\ hw.id \in Nat /\ hw.id <= made
         /\ current \in BusOf /\ made \in Nat
         /\ \A s \in Scenarios : Demo(s) \in BusOf /\ Demo(s).id = 0
         /\ (slot # NoApp => slot = pl)
BY DEF SesInv, SesBase, SesShape, SesBuses, SesSlot, BusOf, All, Demo

LEMMA SelectKeeps ==
  ASSUME SesInv, NEW t \in Threads, SelectScenario(t) \/ LoadSymbols(t) PROVE SesInv'
<1>1. CASE SelectScenario(t)
  <2> DEFINE n == [th[t] EXCEPT !.pc = "symbols"]
  <2>1. Go(t, n) /\ Busy(t) /\ SC' = th[t].arg /\ n.pc = "symbols" /\ n.kind = "select" /\ n.arg = th[t].arg
        /\ n.bus = th[t].bus /\ n.skipped = th[t].skipped /\ DOMAIN n = ThFields
    BY <1>1, ThHas DEF SelectScenario, At, Busy, ThFields
  <2>2. UNCHANGED <<hw, current, made, slot, pl, clean, symbols, armed>>
    BY <1>1 DEF SelectScenario, board, buses
  <2>3. ASSUME th'[t] = n, clean PROVE Stage(t)' /\ (n.pc = "idle" => Settled')
    <3>1. Settled /\ ~th[t].skipped
      BY <1>1, <2>3 DEF SesInv, SesOrder, Stage, Selecting, SelectScenario, At
    <3>2. hw.id # 0 => pl # NoApp
      BY <3>1, NoAppIsNone, ThHas DEF Settled
    <3> QED
      BY <2>1, <2>2, <2>3, <3>1, <3>2 DEF Stage, Selecting
  <2> HIDE DEF n
  <2>4. SesSlot'
    BY <2>2, ThHas DEF SesSlot
  <2> QED
    BY <2>1, <2>2, <2>3, <2>4, ThHas, StepKeeps
<1>2. CASE LoadSymbols(t)
  <2> DEFINE n == [th[t] EXCEPT !.pc = "close"]
  <2>1. Go(t, n) /\ Busy(t) /\ symbols' = th[t].arg /\ n.pc = "close" /\ n.kind = "select" /\ n.arg = th[t].arg
        /\ n.bus = th[t].bus /\ n.skipped = th[t].skipped /\ DOMAIN n = ThFields
    BY <1>2, ThHas DEF LoadSymbols, At, Busy, ThFields
  <2>2. UNCHANGED <<hw, current, made, slot, pl, clean, SC, armed>>
    BY <1>2 DEF LoadSymbols, board, buses
  <2>3. ASSUME th'[t] = n, clean PROVE Stage(t)' /\ (n.pc = "idle" => Settled')
    <3>1. SC = th[t].arg /\ (hw.id # 0 => pl # NoApp) /\ ~th[t].skipped
      BY <1>2, <2>3 DEF SesInv, SesOrder, Stage, Selecting, LoadSymbols, At
    <3> QED
      BY <2>1, <2>2, <2>3, <3>1 DEF Stage, Selecting
  <2> HIDE DEF n
  <2>4. SesSlot'
    BY <2>2, ThHas DEF SesSlot
  <2> QED
    BY <2>1, <2>2, <2>3, <2>4, ThHas, StepKeeps
<1> QED
  BY <1>1, <1>2

LEMMA RebindKeeps ==
  ASSUME SesInv, NEW t \in Threads, RebindClose(t) \/ RebindAsk(t) \/ RebindMap(t) PROVE SesInv'
<1>1. CASE RebindClose(t)
  <2> DEFINE n == [th[t] EXCEPT !.pc = IF @ = "close" THEN "ask" ELSE "ask2"]
  <2>1. /\ Go(t, n) /\ Busy(t) /\ n.kind = "select" /\ n.arg = th[t].arg /\ n.bus = th[t].bus
        /\ n.skipped = th[t].skipped /\ DOMAIN n = ThFields /\ n.safe = th[t].safe
        /\ n.pc \in {"ask", "ask2"} /\ (n.pc = "ask" => th[t].pc = "close")
    BY <1>1, ThHas DEF RebindClose, Busy, ThFields
  <2>2. UNCHANGED <<current, made, slot, pl, clean, SC, symbols, armed>> /\ hw' = Demo(th[t].arg)
    BY <1>1 DEF RebindClose, board, views
  <2>3. ASSUME th'[t] = n, clean PROVE Stage(t)' /\ (n.pc = "idle" => Settled')
    <3>1. SC = th[t].arg /\ symbols = SC /\ (th[t].pc = "close" => ~th[t].skipped)
      BY <1>1, <2>3 DEF SesInv, SesOrder, Stage, Selecting, RebindClose
    <3>2. hw'.id = 0
      BY <2>2, ThHas
    <3> QED
      BY <2>1, <2>2, <2>3, <3>1, <3>2 DEF Stage, Selecting
  <2> HIDE DEF n
  <2>4. SesSlot'
    BY <2>2, ThHas DEF SesSlot
  <2>5. hw' \in BusOf /\ hw'.id = 0
    BY <2>2, ThHas
  <2>6. /\ n.arg \in Scenarios /\ n.bus \in BusOf /\ clean' = clean /\ SC' \in Scenarios
        /\ current' \in BusOf /\ current' = current /\ made' \in Nat /\ made' >= made /\ made' >= hw'.id
    BY <2>1, <2>2, <2>5, ThHas
  <2> QED
    BY <2>1, <2>3, <2>4, <2>5, <2>6, StepKeeps
<1>2. CASE RebindAsk(t)
  <2> DEFINE n == [th[t] EXCEPT !.safe = slot \in Variants[th[t].arg],
                                !.pc = IF @ = "ask" THEN "map" ELSE "map2"]
  <2>1. /\ Go(t, n) /\ Busy(t) /\ n.kind = "select" /\ n.arg = th[t].arg /\ n.bus = th[t].bus
        /\ n.skipped = th[t].skipped /\ DOMAIN n = ThFields
        /\ n.pc \in {"map", "map2"} /\ (n.pc = "map" => th[t].pc = "ask")
    BY <1>2, ThHas DEF RebindAsk, Busy, ThFields
  <2>2. n.safe => slot \in Variants[th[t].arg]
    BY ThHas DEF ThFields
  <2>3. UNCHANGED <<hw, current, made, slot, pl, clean, SC, symbols, armed>>
    BY <1>2 DEF RebindAsk, board, views, buses
  <2>4. ASSUME th'[t] = n, clean PROVE Stage(t)' /\ (n.pc = "idle" => Settled')
    <3>1. SC = th[t].arg /\ symbols = SC /\ hw.id = 0 /\ (th[t].pc = "ask" => ~th[t].skipped)
      BY <1>2, <2>4 DEF SesInv, SesOrder, Stage, Selecting, RebindAsk
    <3> QED
      BY <2>1, <2>2, <2>3, <2>4, <3>1 DEF Stage, Selecting
  <2> HIDE DEF n
  <2>5. SesSlot'
    BY <2>3, ThHas DEF SesSlot
  <2> QED
    BY <2>1, <2>3, <2>4, <2>5, ThHas, StepKeeps
<1>3. CASE RebindMap(t)
  <2> DEFINE new == IF ~IsDemo(hw) THEN hw
                    ELSE IF th[t].safe THEN [sc |-> th[t].arg, id |-> made + 1]
                    ELSE Demo(th[t].arg)
  <2>1. /\ hw' = new /\ current' = new /\ made' = IF new.id > made THEN new.id ELSE made
        /\ UNCHANGED <<slot, pl, clean, SC, symbols, armed>>
        /\ Busy(t) /\ th[t].kind = "select" /\ th[t].pc \in {"map", "map2"}
    BY <1>3 DEF RebindMap, board, views, Busy
  <2>2. /\ new \in BusOf /\ made' \in Nat /\ made' >= made /\ made' >= new.id
        /\ new = hw \/ new.id = 0 \/ new.id = made + 1
    <3>1. CASE hw.id # 0
      BY <2>1, <3>1, ThHas DEF IsDemo
    <3>2. CASE hw.id = 0 /\ th[t].safe
      <4>1. new = [sc |-> th[t].arg, id |-> made + 1]
        BY <3>2 DEF IsDemo
      <4>2. new \in BusOf /\ new.id = made + 1
        BY <4>1, ThHas DEF BusOf
      <4> HIDE DEF new
      <4> QED
        BY <2>1, <4>2, ThHas
    <3>3. CASE hw.id = 0 /\ ~th[t].safe
      <4>1. new = Demo(th[t].arg)
        BY <3>3 DEF IsDemo
      <4>2. new \in BusOf /\ new.id = 0
        BY <4>1, ThHas
      <4> HIDE DEF new
      <4> QED
        BY <2>1, <4>2, ThHas
    <3> QED BY <3>1, <3>2, <3>3
  <2>3. clean => Settled' /\ current' = hw' /\ (th[t].pc = "map" => ~th[t].skipped)
    <3> SUFFICES ASSUME clean PROVE Settled' /\ (th[t].pc = "map" => ~th[t].skipped)
      BY <2>1
    <3>1. /\ SC = th[t].arg /\ symbols = SC /\ hw.id = 0 /\ (th[t].pc = "map" => ~th[t].skipped)
          /\ (th[t].safe => slot \in Variants[SC])
      BY <2>1 DEF SesInv, SesOrder, Stage, Selecting
    <3>2. CASE th[t].safe
      <4>1. new = [sc |-> SC, id |-> made + 1]
        BY <3>1, <3>2 DEF IsDemo
      <4>2. slot = pl /\ pl \in Variants[SC]
        BY <3>1, <3>2, NoAppIsNone, ThHas
      <4> QED
        BY <2>1, <3>1, <4>1, <4>2 DEF Settled
    <3>3. CASE ~th[t].safe
      <4>1. new.id = 0
        BY <3>1, <3>3, ThHas DEF IsDemo
      <4> QED
        BY <2>1, <3>1, <4>1 DEF Settled
    <3> QED BY <3>2, <3>3
  <2>4. SesSlot'
    BY <2>1, ThHas DEF SesSlot
  <2>5. /\ clean' = clean /\ SC' \in Scenarios /\ th[t].arg \in Scenarios /\ th[t].bus \in BusOf
        /\ hw' \in BusOf /\ current' \in BusOf /\ current' = hw' /\ made' \in Nat /\ made' >= made /\ made' >= hw'.id
        /\ hw' = hw \/ hw'.id = 0 \/ hw'.id = made + 1
    BY <2>1, <2>2, ThHas
  <2> HIDE DEF new
  <2>6. CASE th[t].pc = "map" /\ th[t].load
    <3> DEFINE n == [th[t] EXCEPT !.pc = "present"]
    <3>1. /\ Go(t, n) /\ n.kind = "select" /\ n.arg = th[t].arg /\ n.bus = th[t].bus
          /\ n.skipped = th[t].skipped /\ DOMAIN n = ThFields /\ n.pc = "present"
      BY <1>3, <2>6, ThHas DEF RebindMap, ThFields
    <3>2. ASSUME th'[t] = n, clean PROVE Stage(t)' /\ (n.pc = "idle" => Settled')
      <4>1. SC = th[t].arg /\ symbols = SC
        BY <2>1, <3>2 DEF SesInv, SesOrder, Stage, Selecting
      <4> QED
        BY <2>1, <2>3, <2>6, <3>1, <3>2, <4>1 DEF Stage, Selecting
    <3> HIDE DEF n
    <3> QED
      BY <2>1, <2>4, <2>5, <3>1, <3>2, StepKeeps
  <2>7. CASE ~(th[t].pc = "map" /\ th[t].load)
    <3>1. Go(t, Rest) /\ Scenarios # {}
      BY <1>3, <2>7, ThHas DEF RebindMap, Done
    <3>2. ASSUME th'[t] = Rest, clean PROVE Stage(t)' /\ (Rest.pc = "idle" => Settled')
      BY <2>3, <3>1, <3>2, RestIs DEF Stage
    <3> QED
      BY <2>1, <2>4, <2>5, <3>1, <3>2, RestIs, StepKeeps
  <2> QED BY <2>6, <2>7
<1> QED
  BY <1>1, <1>2, <1>3

LEMMA LoadKeeps ==
  ASSUME SesInv, NEW t \in Threads,
         LoadPresent(t) \/ Quiesce(t) \/ Unload(t) \/ LoadApp(t) \/ SlotProof(t)
  PROVE  SesInv'
<1>1. CASE LoadPresent(t)
  <2> DEFINE n == [th[t] EXCEPT !.bus = current,
                                !.pc = IF slot = AppOf[th[t].arg] THEN "close2" ELSE "quiesce"]
  <2>1. /\ Go(t, n) /\ Busy(t) /\ n.kind = "select" /\ n.arg = th[t].arg /\ n.bus = current
        /\ n.skipped = th[t].skipped /\ DOMAIN n = ThFields /\ n.pc \in {"close2", "quiesce"}
    BY <1>1, ThHas DEF LoadPresent, At, Busy, ThFields
  <2>2. UNCHANGED <<hw, current, made, slot, pl, clean, SC, symbols, armed>>
    BY <1>1 DEF LoadPresent, board, views, buses
  <2>3. ASSUME th'[t] = n, clean PROVE Stage(t)' /\ (n.pc = "idle" => Settled')
    <3>1. SC = th[t].arg /\ symbols = SC /\ Settled /\ current = hw /\ ~th[t].skipped
      BY <1>1, <2>3 DEF SesInv, SesOrder, Stage, Selecting, LoadPresent, At
    <3>2. hw.id # 0 => hw.sc = SC /\ pl \in Variants[SC]
      BY <3>1 DEF Settled
    <3>3. Settled'
      BY <2>2, <3>1 DEF Settled
    <3>4. n.pc = "close2" => Replacing(t)'
      BY <2>1, <2>2, <2>3, <3>1, <3>2 DEF Replacing
    <3> QED
      BY <2>1, <2>2, <2>3, <3>1, <3>3, <3>4 DEF Stage, Selecting
  <2> HIDE DEF n
  <2>4. SesSlot'
    BY <2>2, ThHas DEF SesSlot
  <2> QED
    BY <2>1, <2>2, <2>3, <2>4, ThHas, StepKeeps
<1>2. CASE Quiesce(t)
  <2> DEFINE n == [th[t] EXCEPT !.skipped = IsDemo(th[t].bus), !.pc = "unload"]
  <2>1. /\ Go(t, n) /\ Busy(t) /\ n.kind = "select" /\ n.arg = th[t].arg /\ n.bus = th[t].bus
        /\ DOMAIN n = ThFields /\ n.pc = "unload"
    BY <1>2, ThHas DEF Quiesce, At, Busy, ThFields
  <2>2. n.skipped <=> th[t].bus.id = 0
    BY ThHas DEF ThFields, IsDemo
  <2>3. UNCHANGED <<hw, current, made, slot, pl, clean, SC, symbols>> /\ armed' = (armed /\ ~Reaches(th[t].bus, SC))
    BY <1>2 DEF Quiesce, views, buses
  <2>4. ASSUME th'[t] = n, clean PROVE Stage(t)' /\ (n.pc = "idle" => Settled')
    <3>1. SC = th[t].arg /\ symbols = SC /\ Settled /\ th[t].bus = hw
      BY <1>2, <2>4 DEF SesInv, SesOrder, Stage, Selecting, Quiesce, At
    <3>2. hw.id # 0 => hw.sc = SC /\ pl \in Variants[SC] /\ ~n.skipped
      BY <2>2, <3>1 DEF Settled
    <3>3. Replacing(t)'
      BY <2>3, <2>4, <3>2 DEF Replacing
    <3>4. armed' => n.skipped
      BY <2>2, <2>3, <3>1, <3>2 DEF Reaches, Open, IsDemo
    <3> QED
      BY <2>1, <2>3, <2>4, <3>1, <3>3, <3>4 DEF Stage, Selecting
  <2> HIDE DEF n
  <2>5. SesSlot'
    BY <2>3, ThHas DEF SesSlot
  <2> QED
    BY <2>1, <2>3, <2>4, <2>5, ThHas, StepKeeps
<1>3. CASE Unload(t)
  <2> DEFINE n == [th[t] EXCEPT !.pc = "load"]
  <2>1. /\ Go(t, n) /\ Busy(t) /\ n.kind = "select" /\ n.arg = th[t].arg /\ n.bus = th[t].bus
        /\ DOMAIN n = ThFields /\ n.pc = "load" /\ n.skipped = th[t].skipped
    BY <1>3, ThHas DEF Unload, At, Busy, ThFields
  <2>2. UNCHANGED <<hw, current, made, clean, SC, symbols>>
        /\ ((pl' = NoApp /\ slot' = NoApp) \/ UNCHANGED <<pl, slot>>)
    BY <1>3 DEF Unload, views, buses, board
  <2>3. ASSUME th'[t] = n, clean PROVE Stage(t)' /\ (n.pc = "idle" => Settled')
    <3>1. SC = th[t].arg /\ symbols = SC /\ Replacing(t)
      BY <1>3, <2>3 DEF SesInv, SesOrder, Stage, Selecting, Unload, At
    <3>2. Replacing(t)'
      BY <2>1, <2>2, <2>3, <3>1 DEF Replacing
    <3> QED
      BY <2>1, <2>2, <2>3, <3>1, <3>2 DEF Stage, Selecting
  <2> HIDE DEF n
  <2>4. SesSlot'
    BY <2>2, ThHas DEF SesSlot
  <2> QED
    BY <2>1, <2>2, <2>3, <2>4, ThHas, StepKeeps
<1>4. CASE LoadApp(t)
  <2> DEFINE n == [th[t] EXCEPT !.pc = "proof"]
  <2>1. /\ Go(t, n) /\ Busy(t) /\ n.kind = "select" /\ n.arg = th[t].arg /\ n.bus = th[t].bus
        /\ DOMAIN n = ThFields /\ n.pc = "proof" /\ n.skipped = th[t].skipped
    BY <1>4, ThHas DEF LoadApp, At, Busy, ThFields
  <2>2. /\ UNCHANGED <<hw, current, made, clean, SC, symbols>>
        /\ \/ pl' = AppOf[th[t].arg] /\ slot' \in {AppOf[th[t].arg], NoApp}
           \/ UNCHANGED <<pl, slot>>
    BY <1>4 DEF LoadApp, views, buses, board
  <2>3. ASSUME th'[t] = n, clean PROVE Stage(t)' /\ (n.pc = "idle" => Settled')
    <3>1. SC = th[t].arg /\ symbols = SC /\ Replacing(t)
      BY <1>4, <2>3 DEF SesInv, SesOrder, Stage, Selecting, LoadApp, At
    <3>2. AppOf[th[t].arg] \in Variants[th[t].arg]
      BY CatalogAssumption, ThHas
    <3>3. Replacing(t)'
      BY <2>1, <2>2, <2>3, <3>1, <3>2 DEF Replacing
    <3> QED
      BY <2>1, <2>2, <2>3, <3>1, <3>3 DEF Stage, Selecting
  <2> HIDE DEF n
  <2>4. SesSlot'
    BY <2>2, ThHas DEF SesSlot
  <2> QED
    BY <2>1, <2>2, <2>3, <2>4, ThHas, StepKeeps
<1>5. CASE SlotProof(t)
  <2> DEFINE n == IF slot = AppOf[th[t].arg] \/ th[t].tries = 1
                  THEN [th[t] EXCEPT !.pc = "close2"]
                  ELSE [th[t] EXCEPT !.tries = 1, !.pc = "unload"]
  <2>1. /\ Go(t, n) /\ Busy(t) /\ n.kind = "select" /\ n.arg = th[t].arg /\ n.bus = th[t].bus
        /\ DOMAIN n = ThFields /\ n.pc \in {"close2", "unload"} /\ n.skipped = th[t].skipped
        /\ (n.pc = "unload" => n.tries = 1)
    BY <1>5, ThHas DEF SlotProof, At, Busy, ThFields
  <2>2. UNCHANGED <<hw, current, made, slot, pl, clean, SC, symbols, armed>>
    BY <1>5 DEF SlotProof, views, buses, board
  <2>3. ASSUME th'[t] = n, clean PROVE Stage(t)' /\ (n.pc = "idle" => Settled')
    <3>1. SC = th[t].arg /\ symbols = SC /\ Replacing(t)
      BY <1>5, <2>3 DEF SesInv, SesOrder, Stage, Selecting, SlotProof, At
    <3>2. Replacing(t)'
      BY <2>1, <2>2, <2>3, <3>1 DEF Replacing
    <3> QED
      BY <2>1, <2>2, <2>3, <3>1, <3>2 DEF Stage, Selecting
  <2> HIDE DEF n
  <2>4. SesSlot'
    BY <2>2, ThHas DEF SesSlot
  <2> QED
    BY <2>1, <2>2, <2>3, <2>4, ThHas, StepKeeps
<1> QED
  BY <1>1, <1>2, <1>3, <1>4, <1>5

LEMMA ModeKeeps ==
  ASSUME SesInv, NEW t \in Threads,
         ModeDemo(t) \/ ModeLive(t) \/ ModeMap(t) \/ Arm(t) \/ BootStart(t)
  PROVE  SesInv'
<1>1. CASE Arm(t) \/ BootStart(t)
  <2>1. Go(t, Rest) /\ Busy(t) /\ Scenarios # {} /\ th[t].pc = "begin"
    BY <1>1, ThHas DEF Arm, BootStart, At, Busy, Done
  <2>2. UNCHANGED <<hw, current, made, slot, pl, clean, SC, symbols>>
    BY <1>1 DEF Arm, BootStart, board, views, buses
  <2>3. ASSUME th'[t] = Rest, clean PROVE Stage(t)' /\ (Rest.pc = "idle" => Settled')
    <3>1. Settled
      BY <2>1, <2>3 DEF SesInv, SesOrder, Stage, Selecting
    <3> QED
      BY <2>1, <2>2, <2>3, <3>1, RestIs DEF Stage, Settled
  <2>4. SesSlot'
    BY <2>2, ThHas DEF SesSlot
  <2> QED
    BY <2>1, <2>2, <2>3, <2>4, ThHas, RestIs, StepKeeps
<1>2. CASE ModeDemo(t)
  <2>1. Go(t, Rest) /\ Busy(t) /\ Scenarios # {} /\ th[t].pc = "begin"
    BY <1>2, ThHas DEF ModeDemo, At, Busy, Done
  <2>2. UNCHANGED <<hw, made, slot, pl, clean, SC, symbols>> /\ current' = Demo(SC)
    BY <1>2 DEF ModeDemo, board, views
  <2>3. current' \in BusOf /\ current'.id = 0
    BY <2>2, ThHas
  <2>4. ASSUME th'[t] = Rest, clean PROVE Stage(t)' /\ (Rest.pc = "idle" => Settled')
    <3>1. Settled
      BY <2>1, <2>4 DEF SesInv, SesOrder, Stage, Selecting
    <3> QED
      BY <2>1, <2>2, <2>3, <2>4, <3>1, RestIs DEF Stage, Settled
  <2>5. SesSlot'
    BY <2>2, ThHas DEF SesSlot
  <2> QED
    BY <2>1, <2>2, <2>3, <2>4, <2>5, ThHas, RestIs, StepKeeps
<1>3. CASE ModeLive(t) /\ hw.id # 0
  <2>1. Go(t, Rest) /\ Busy(t) /\ Scenarios # {} /\ th[t].pc = "begin" /\ current' = hw
    BY <1>3, ThHas DEF ModeLive, At, Busy, Done, IsDemo
  <2>2. UNCHANGED <<hw, made, slot, pl, clean, SC, symbols>>
    BY <1>3 DEF ModeLive, board, views
  <2>3. ASSUME th'[t] = Rest, clean PROVE Stage(t)' /\ (Rest.pc = "idle" => Settled')
    <3>1. Settled
      BY <2>1, <2>3 DEF SesInv, SesOrder, Stage, Selecting
    <3> QED
      BY <2>1, <2>2, <2>3, <3>1, RestIs DEF Stage, Settled
  <2>4. SesSlot'
    BY <2>2, ThHas DEF SesSlot
  <2> QED
    BY <2>1, <2>2, <2>3, <2>4, ThHas, RestIs, StepKeeps
<1>4. CASE ModeLive(t) /\ hw.id = 0
  <2> DEFINE n == [th[t] EXCEPT !.safe = slot \in Variants[SC], !.pc = "map"]
  <2>1. /\ Go(t, n) /\ Busy(t) /\ n.kind = "live" /\ n.arg = th[t].arg /\ n.bus = th[t].bus
        /\ DOMAIN n = ThFields /\ n.pc = "map" /\ th[t].pc = "begin"
    BY <1>4, ThHas DEF ModeLive, At, Busy, ThFields, IsDemo
  <2>2. n.safe => slot \in Variants[SC]
    BY ThHas DEF ThFields
  <2>3. UNCHANGED <<hw, current, made, slot, pl, clean, SC, symbols>>
    BY <1>4 DEF ModeLive, board, views, IsDemo
  <2>4. ASSUME th'[t] = n, clean PROVE Stage(t)' /\ (n.pc = "idle" => Settled')
    <3>1. Settled
      BY <2>1, <2>4 DEF SesInv, SesOrder, Stage, Selecting
    <3>2. Settled'
      BY <2>3, <3>1 DEF Settled
    <3> QED
      BY <1>4, <2>1, <2>2, <2>3, <2>4, <3>2 DEF Stage
  <2> HIDE DEF n
  <2>5. SesSlot'
    BY <2>3, ThHas DEF SesSlot
  <2> QED
    BY <2>1, <2>3, <2>4, <2>5, ThHas, StepKeeps
<1>5. CASE ModeMap(t) /\ th[t].safe
  <2>1. Go(t, Rest) /\ Busy(t) /\ Scenarios # {} /\ At(t, "live", "map")
    BY <1>5, ThHas DEF ModeMap, At, Busy, Done
  <2>2. /\ UNCHANGED <<slot, pl, clean, SC, symbols>>
        /\ hw' = [sc |-> SC, id |-> made + 1] /\ current' = hw' /\ made' = made + 1
    BY <1>5 DEF ModeMap, board, views
  <2>3. hw' \in BusOf /\ hw'.id = made + 1 /\ hw'.sc = SC
    BY <2>2, ThHas DEF BusOf
  <2>4. ASSUME th'[t] = Rest, clean PROVE Stage(t)' /\ (Rest.pc = "idle" => Settled')
    <3>1. Settled /\ slot \in Variants[SC]
      BY <1>5, <2>1, <2>4 DEF SesInv, SesOrder, Stage, Selecting, At
    <3>2. pl \in Variants[SC]
      BY <3>1, NoAppIsNone, ThHas
    <3> QED
      BY <2>1, <2>2, <2>3, <2>4, <3>1, <3>2, RestIs DEF Stage, Settled
  <2>5. SesSlot'
    BY <2>2, ThHas DEF SesSlot
  <2>6. /\ clean' = clean /\ SC' \in Scenarios /\ current' \in BusOf /\ made' \in Nat
        /\ made' >= made /\ made' >= hw'.id
    BY <2>2, <2>3, ThHas
  <2> QED
    BY <2>1, <2>2, <2>3, <2>4, <2>5, <2>6, RestIs, StepKeeps
<1>6. CASE ModeMap(t) /\ ~th[t].safe
  <2>1. Go(t, Rest) /\ Busy(t) /\ Scenarios # {} /\ At(t, "live", "map")
    BY <1>6, ThHas DEF ModeMap, At, Busy, Done
  <2>2. UNCHANGED <<hw, current, made, slot, pl, clean, SC, symbols>>
    BY <1>6 DEF ModeMap, board, views, buses
  <2>3. ASSUME th'[t] = Rest, clean PROVE Stage(t)' /\ (Rest.pc = "idle" => Settled')
    <3>1. Settled
      BY <2>1, <2>3 DEF SesInv, SesOrder, Stage, Selecting, At
    <3> QED
      BY <2>1, <2>2, <2>3, <3>1, RestIs DEF Stage, Settled
  <2>4. SesSlot'
    BY <2>2, ThHas DEF SesSlot
  <2> QED
    BY <2>1, <2>2, <2>3, <2>4, ThHas, RestIs, StepKeeps
<1>7. hw.id = 0 \/ hw.id # 0
  OBVIOUS
<1> QED
  BY <1>1, <1>2, <1>3, <1>4, <1>5, <1>6

LEMMA StepsKeep ==
  ASSUME SesInv, NEW t \in Threads, Step(t) PROVE SesInv'
BY SelectKeeps, RebindKeeps, LoadKeeps, ModeKeeps DEF Step

\* A request is accepted by a thread at rest; two at once are not clean.
LEMMA RequestKeeps ==
  ASSUME SesInv, NEW t \in Threads, Request(t) PROVE SesInv'
<1>1. PICK kind, s, load : s \in Scenarios /\ Accept(t, kind, s, load)
  <2>1. CASE \E s \in Scenarios, load \in BOOLEAN : Accept(t, "select", s, load)
    BY <2>1
  <2>2. CASE \E kind \in {"demo", "live", "arm"} : Accept(t, kind, SC, FALSE)
    BY <2>2, ThHas
  <2>3. CASE \E s \in Scenarios : Accept(t, "boot", s, FALSE)
    BY <2>3
  <2> QED BY <2>1, <2>2, <2>3 DEF Request
<1> DEFINE n == [Idle(s) EXCEPT !.kind = kind, !.load = load, !.bus = current, !.pc = "begin"]
<1>2. /\ DOMAIN n = ThFields /\ n.arg = s /\ n.bus = current /\ n.pc = "begin" /\ n.skipped = FALSE
  BY DEF Idle, ThFields
<1>3. /\ UNCHANGED <<hw, current, made, slot, pl, SC, symbols>> /\ Go(t, n)
      /\ clean' = (clean /\ \A u \in Threads : ~Busy(u))
  BY <1>1 DEF Accept, board, views, buses
<1> HIDE DEF n
<1>4. t \in All /\ SesBase /\ SesShape
  BY DEF All, SesInv, SesBase
<1>5. /\ DOMAIN th' = All
      /\ \A u \in All : DOMAIN th'[u] = ThFields /\ th'[u].arg \in Scenarios /\ th'[u].bus \in BusOf
      /\ th'[t] = n /\ \A u \in All : u # t => th'[u] = th[u]
  BY <1>1, <1>2, <1>3, <1>4, ThGoes, ThHas
<1>6. SesShape'
  BY <1>3, <1>4, <1>5 DEF SesShape
<1>7. SesBuses'
  BY <1>2, <1>3, <1>4, <1>5, <1>6, BusesKeep, ThHas
<1>8. SesBase'
  BY <1>3, <1>4, <1>6, <1>7 DEF SesBase, SesSlot
<1>9. ASSUME clean' PROVE SesOrder'
  <2>1. clean /\ \A u \in Threads : th[u].pc = "idle"
    BY <1>3, <1>9 DEF Busy
  <2>2. Settled'
    BY <1>3, <2>1 DEF SesInv, SesOrder, Settled, Busy
  <2>3. \A u \in Threads : u # t => th'[u].pc = "idle"
    BY <1>5, <2>1 DEF All
  <2>4. \A u \in Threads : Stage(u)'
    BY <1>2, <1>5, <2>2, <2>3 DEF Stage
  <2> QED
    BY <2>2, <2>3, <2>4 DEF SesOrder, Busy
<1> QED
  BY <1>8, <1>9 DEF SesInv, SesOrder

\* A reader only takes the bus; the boot thread only switches the design on.
LEMMA ReaderKeeps ==
  ASSUME SesInv, NEW r \in Readers, TakeBus(r) \/ Access(r) PROVE SesInv'
<1>1. UNCHANGED <<hw, current, made, slot, pl, SC, symbols, clean, armed>>
  BY DEF TakeBus, Access, board, views, buses
<1>2. r \in All /\ SesBase /\ SesShape /\ Scenarios # {} /\ r \notin Threads
  BY CatalogAssumption DEF All, SesInv, SesBase, SesShape
<1>3. PICK n : /\ Go(r, n) /\ DOMAIN n = ThFields /\ n.arg \in Scenarios /\ n.bus \in BusOf
               /\ n.bus = current \/ n.bus.id = 0
  <2>1. CASE TakeBus(r)
    <3> DEFINE n == [Idle(SC) EXCEPT !.kind = "read", !.bus = current, !.pc = "access"]
    <3>1. DOMAIN n = ThFields /\ n.arg = SC /\ n.bus = current
      BY DEF Idle, ThFields
    <3> QED
      BY <1>2, <2>1, <3>1 DEF TakeBus, SesShape
  <2>2. CASE Access(r)
    BY <1>2, <2>2, RestIs DEF Access, Done
  <2> QED BY <2>1, <2>2
<1>4. /\ DOMAIN th' = All
      /\ \A u \in All : DOMAIN th'[u] = ThFields /\ th'[u].arg \in Scenarios /\ th'[u].bus \in BusOf
      /\ th'[r] = n /\ \A u \in All : u # r => th'[u] = th[u]
  BY <1>2, <1>3, ThGoes
<1>5. SesShape'
  BY <1>1, <1>2, <1>4 DEF SesShape
<1>6. made \in Nat /\ hw.id \in Nat /\ hw.id <= made
  BY <1>2 DEF SesBase, SesShape, SesBuses, BusOf
<1>7. SesBuses'
  BY <1>1, <1>2, <1>3, <1>4, <1>5, <1>6, BusesKeep
<1>8. SesBase'
  BY <1>1, <1>2, <1>5, <1>7 DEF SesBase, SesSlot
<1>9. \A t \in Threads : th'[t] = th[t]
  BY <1>2, <1>4 DEF All
<1>10. Settled' <=> Settled
  BY <1>1 DEF Settled
<1>11. \A t \in Threads : Stage(t) => Stage(t)'
  BY <1>1, <1>9, <1>10 DEF Stage, Selecting, Replacing
<1> QED
  BY <1>1, <1>8, <1>9, <1>10, <1>11 DEF SesInv, SesOrder, Busy

LEMMA BootKeeps == ASSUME SesInv, BootPhase PROVE SesInv'
<1>1. /\ UNCHANGED <<hw, current, made, slot, pl, SC, symbols, th>>
      /\ clean' = (clean /\ \A t \in Threads : ~Busy(t))
  BY DEF BootPhase, views, buses
<1>2. SesBase'
  BY <1>1 DEF SesInv, SesBase, SesShape, SesBuses, SesSlot
<1>3. ASSUME clean' PROVE SesOrder'
  <2>1. clean /\ \A t \in Threads : th[t].pc = "idle"
    BY <1>1, <1>3 DEF Busy
  <2>2. Settled'
    BY <1>1, <2>1 DEF SesInv, SesOrder, Settled, Busy
  <2> QED
    BY <1>1, <2>1, <2>2 DEF SesOrder, Stage, Busy
<1> QED
  BY <1>2, <1>3 DEF SesInv, SesOrder

LEMMA SesInit == ASSUME Init PROVE SesInv
<1>1. SC \in Scenarios /\ symbols = SC /\ current = hw /\ made = 1 /\ slot = pl /\ clean = TRUE
      /\ th = [t \in All |-> Rest] /\ hw = IF pl \in Variants[SC] THEN [sc |-> SC, id |-> 1] ELSE Demo(SC)
  BY DEF Init, Rest
<1>2. hw \in BusOf /\ hw.id \in Nat /\ hw.id <= 1 /\ (hw.id # 0 => hw.sc = SC /\ pl \in Variants[SC])
  <2>1. CASE pl \in Variants[SC]
    BY <1>1, <2>1 DEF BusOf
  <2>2. CASE pl \notin Variants[SC]
    BY <1>1, <2>2 DEF BusOf, Demo
  <2> QED BY <2>1, <2>2
<1>3. \A t \in All : th[t] = Rest
  BY <1>1
<1>4. Scenarios # {}
  BY <1>1
<1>5. DOMAIN Rest = ThFields /\ Rest.arg \in Scenarios /\ Rest.bus \in BusOf /\ Rest.bus.id = 0 /\ Rest.pc = "idle"
  BY <1>4, RestIs
<1>6. SesShape
  BY <1>1, <1>2, <1>3, <1>5 DEF SesShape
<1>7. SesBuses
  BY <1>1, <1>2, <1>3, <1>5 DEF SesBuses
<1>8. Settled
  BY <1>1, <1>2 DEF Settled
<1>9. \A t \in Threads : th[t].pc = "idle"
  BY ONLY <1>3, <1>5 DEF All
<1> QED
  BY <1>1, <1>6, <1>7, <1>8, <1>9 DEF SesInv, SesBase, SesSlot, SesOrder, Stage, Busy

LEMMA SesStutters == ASSUME SesInv, UNCHANGED vars PROVE SesInv'
<1>1. UNCHANGED <<pl, slot, armed, SC, symbols, hw, current, made, th, clean>>
  BY DEF vars, board, views, buses
<1> QED
  BY <1>1 DEF SesInv, SesBase, SesShape, SesBuses, SesSlot, SesOrder, Settled, Stage, Selecting,
              Replacing, Busy

LEMMA SesNext == ASSUME SesInv, [Next]_vars PROVE SesInv'
BY StepsKeep, RequestKeeps, ReaderKeeps, BootKeeps, SesStutters DEF Next

\* What is between requests is what a page may look at, and what is not settled
\* is one of the steps of the request under way.
LEMMA SesInvSelects == ASSUME SesInv PROVE LiveAgrees /\ TransientsAreKnown
<1>1. LiveIsRight
  BY DEF SesInv, SesOrder, Settled, LiveIsRight, IsDemo
<1>2. \A r \in Readers : Reading(r) => th[r].bus = hw /\ hw.id # 0
  BY DEF Reading, Open, IsDemo, SesInv, SesBase, SesBuses, All
<1>3. ASSUME clean, hw.id # 0, pl \notin Variants[SC]
      PROVE  \E t \in Threads :
               /\ th[t].kind = "select" /\ SC = th[t].arg
               /\ \/ th[t].pc \in {"symbols", "close"} /\ pl # NoApp
                  \/ th[t].pc \in {"unload", "load", "proof", "close2"} /\ Replacing(t)
  <2>1. ~Settled
    BY <1>3 DEF Settled
  <2>2. PICK t \in Threads : th[t].pc # "idle" /\ Stage(t)
    BY <1>3, <2>1 DEF SesInv, SesOrder, Busy
  <2>3. Selecting(t)
    BY <2>1, <2>2 DEF Stage
  <2>4. WITNESS t \in Threads
  <2> QED
    BY <1>3, <2>1, <2>3 DEF Selecting
<1>4. EmptyOnlyInVariantReload
  <2> SUFFICES ASSUME NEW r \in Readers, clean, Reading(r), pl = NoApp
               PROVE  \E t \in Threads : /\ th[t].kind = "select" /\ ~th[t].skipped
                                         /\ th[r].bus.sc = th[t].arg /\ SC = th[t].arg
                                         /\ th[t].pc \in {"unload", "load", "proof", "close2"}
    BY DEF EmptyOnlyInVariantReload
  <2>1. hw.id # 0 /\ th[r].bus = hw /\ pl \notin Variants[SC]
    BY <1>2, NoAppIsNone DEF SesInv, SesBase, SesShape
  <2>2. PICK t \in Threads :
               /\ th[t].kind = "select" /\ SC = th[t].arg
               /\ th[t].pc \in {"unload", "load", "proof", "close2"} /\ Replacing(t)
    BY <1>3, <2>1
  <2> QED
    BY <2>1, <2>2 DEF Replacing
<1>5. WrongMapOnlyWhileSelecting
  <2> SUFFICES ASSUME NEW r \in Readers, clean, Reading(r), pl \notin Variants[SC] \cup {NoApp}
               PROVE  \E t \in Threads : th[t].kind = "select" /\ th[t].pc \in {"symbols", "close"}
    BY DEF WrongMapOnlyWhileSelecting
  <2>1. hw.id # 0 /\ pl \notin Variants[SC]
    BY <1>2
  <2> QED
    BY <1>3, <2>1 DEF Replacing
<1>6. QuietWhenStillLive
  BY DEF QuietWhenStillLive, SesInv, SesOrder, Stage, Selecting, At
<1> QED
  BY <1>1, <1>4, <1>5, <1>6 DEF LiveAgrees, TransientsAreKnown

\* Selecting a scenario (_select_scenario, Buses.rebind, load_app, POST /api/mode):
\* between requests a live bus, the design in the PL, the selected scenario and the
\* symbol tables are of one scenario, and a reader meets an empty PL, another map or
\* a loud design only at the steps the code accepts, for any scenarios, threads and
\* number of requests.
THEOREM SelectionHoldsTheorem == SpecAll => []SelectionHolds
<1> DEFINE Inv == part = "session" => SesInv
<1>1. InitAll => Inv
  <2>1. ASSUME InitAll, part = "session" PROVE Init
    BY <2>1 DEF InitAll
  <2> QED BY <2>1, SesInit
<1>2. Inv /\ [NextAll]_allVars => Inv'
  BY PartSteps, SesNext
<1>3. Inv => SelectionHolds
  BY SesInvSelects DEF SelectionHolds
<1> QED
  BY <1>1, <1>2, <1>3, PTL DEF SpecAll

-----------------------------------------------------------------------------
(* The guest boot.                                                         *)

\* A boot that runs has not failed.
BootInv == DOMAIN boot = {"running", "sc", "next", "rc"} /\ (boot.running => boot.rc = 0)

LEMMA BootNext ==
  ASSUME BootInv, [Next]_vars PROVE BootInv' /\ (boot' = boot \/ BootStep)
<1>1. CASE \E t \in Threads : BootStart(t)
  <2>1. CASE boot.running
    BY <1>1, <2>1 DEF BootStart, BootInv
  <2>2. CASE ~boot.running
    <3>1. PICK s : boot' = [running |-> TRUE, sc |-> s, next |-> 1, rc |-> 0]
      BY <1>1, <2>2 DEF BootStart
    <3> QED
      BY <2>2, <3>1 DEF BootInv, BootStep
  <2> QED BY <2>1, <2>2
<1>2. CASE BootPhase
  <2>1. PICK ok \in {FALSE} \cup {slot \in Variants[boot.sc]} :
          boot' = IF ok /\ boot.next < Len(Phases) THEN [boot EXCEPT !.next = @ + 1]
                  ELSE [boot EXCEPT !.running = FALSE, !.rc = IF ok THEN 0 ELSE 1]
    BY <1>2 DEF BootPhase
  <2>2. boot.running /\ boot.rc = 0
    BY <1>2 DEF BootPhase, BootInv
  <2>3. CASE boot' = [boot EXCEPT !.next = @ + 1]
    <3>1. boot'.running = boot.running /\ boot'.sc = boot.sc /\ boot'.next = boot.next + 1 /\ boot'.rc = 0
          /\ DOMAIN boot' = DOMAIN boot
      BY <2>2, <2>3 DEF BootInv
    <3> QED
      BY <2>2, <3>1 DEF BootInv, BootStep
  <2>4. CASE boot' = [boot EXCEPT !.running = FALSE, !.rc = IF ok THEN 0 ELSE 1]
    <3>1. boot'.running = FALSE /\ DOMAIN boot' = DOMAIN boot
      BY <2>4 DEF BootInv
    <3> QED
      BY <2>2, <3>1 DEF BootInv, BootStep
  <2> QED BY <2>1, <2>3, <2>4
<1>3. CASE ~BootPhase /\ ~(\E t \in Threads : BootStart(t))
  <2>1. boot' = boot
    BY ZenonT(30), <1>3 DEF Next, Request, Step, Accept, SelectScenario, LoadSymbols, RebindClose, RebindAsk,
                RebindMap, LoadPresent, Quiesce, Unload, LoadApp, SlotProof, ModeDemo, ModeLive,
                ModeMap, Arm, TakeBus, Access, vars
  <2> QED
    BY <2>1 DEF BootInv
<1> QED
  BY <1>1, <1>2, <1>3

\* The guest boot (_boot_run, boot_start): a phase runs only after the one before it
\* succeeded, of the scenario the boot was started for, and a boot is never started
\* into a running one, for every recipe.
THEOREM GuestBootsInOrderTheorem == SpecAll => GuestBootsInOrder
<1> DEFINE Inv == part = "session" => BootInv
<1>1. InitAll => Inv
  BY DEF InitAll, Init, BootInv
<1>2. Inv /\ [NextAll]_allVars => Inv' /\ [part = "session" => BootStep]_boot
  BY PartSteps, BootNext
<1> QED
  BY <1>1, <1>2, PTL DEF SpecAll, GuestBootsInOrder

-----------------------------------------------------------------------------
(* Dumps: x1 sink, x2 mem, x3 sent, x4 got, x5 wrap, x6 epoch, x7 dump.    *)
(* First what is needed of multiples and remainders.                       *)

\* A multiple of d.
Times(d, x) == \E q \in Int : x = q * d

\* Euclid: the quotient and the remainder.
LEMMA DivMod ==
  ASSUME NEW x \in Int, NEW d \in Nat \ {0}
  PROVE  x % d \in 0 .. d - 1 /\ x \div d \in Int /\ x = (x \div d) * d + (x % d)
OBVIOUS

\* Between -d and d only 0 is a multiple of d.
LEMMA TimesSmall ==
  ASSUME NEW x \in Int, NEW d \in Nat \ {0}, Times(d, x), x > -d, x < d
  PROVE  x = 0
<1>1. PICK q \in Int : x = q * d
  BY DEF Times
<1>2. CASE q >= 1
  <2>1. q * d >= d
    BY <1>2
  <2> QED BY <2>1, <1>1
<1>3. CASE q <= -1
  <2>1. q * d <= -d
    BY <1>3
  <2> QED BY <2>1, <1>1
<1>4. CASE q = 0
  BY <1>1, <1>4
<1> QED BY <1>2, <1>3, <1>4

\* Sums and differences of multiples are multiples.
LEMMA TimesSum ==
  ASSUME NEW d \in Int, NEW x \in Int, NEW y \in Int, Times(d, x), Times(d, y)
  PROVE  Times(d, x + y) /\ Times(d, x - y) /\ Times(d, y - x)
<1>1. PICK q \in Int : x = q * d
  BY DEF Times
<1>2. PICK p \in Int : y = p * d
  BY DEF Times
<1>3. x + y = (q + p) * d /\ x - y = (q - p) * d /\ y - x = (p - q) * d
  BY <1>1, <1>2
<1>4. q + p \in Int /\ q - p \in Int /\ p - q \in Int
  OBVIOUS
<1> QED BY <1>3, <1>4 DEF Times

\* Taking the remainder off leaves a multiple.
LEMMA TimesMod ==
  ASSUME NEW x \in Int, NEW d \in Nat \ {0}
  PROVE  Times(d, x - (x % d)) /\ (Times(d, x) <=> x % d = 0)
<1>1. x % d \in 0 .. d - 1 /\ x \div d \in Int /\ x = (x \div d) * d + (x % d)
  BY DivMod
<1>2. Times(d, x - (x % d))
  <2>1. x - (x % d) = (x \div d) * d
    BY <1>1
  <2> QED BY <2>1, <1>1 DEF Times
<1>3. ASSUME x % d = 0 PROVE Times(d, x)
  <2>1. x = (x \div d) * d
    BY <1>1, <1>3
  <2> QED BY <2>1, <1>1 DEF Times
<1>4. ASSUME Times(d, x) PROVE x % d = 0
  <2>0. x - (x % d) \in Int /\ d \in Int
    BY <1>1
  <2>1. Times(d, x - (x - (x % d)))
    BY <2>0, <1>2, <1>4, TimesSum
  <2>2. x % d > -d /\ x % d < d /\ x % d \in Int /\ x - (x - (x % d)) = (x % d)
    BY <1>1
  <2> QED BY <2>1, <2>2, TimesSmall
<1> QED BY <1>2, <1>3, <1>4

\* d, 0 and -d are multiples of d.
LEMMA TimesSelf == ASSUME NEW d \in Int PROVE Times(d, d) /\ Times(d, 0) /\ Times(d, -d)
<1>1. d = 1 * d /\ 0 = 0 * d /\ -d = (-1) * d
  OBVIOUS
<1> QED BY <1>1 DEF Times

\* A multiple of a multiple.
LEMMA TimesTrans ==
  ASSUME NEW a \in Int, NEW b \in Int, NEW x \in Int, Times(a, b), Times(b, x)
  PROVE  Times(a, x)
<1>1. PICK q \in Int : b = q * a
  BY DEF Times
<1>2. PICK p \in Int : x = p * b
  BY DEF Times
<1>3. x = (p * q) * a /\ p * q \in Int
  BY <1>1, <1>2
<1> QED BY <1>3 DEF Times

-----------------------------------------------------------------------------
\* Bytes number x and y have the same place in the buffer.
Same(x, y) == Times(Depth, x - y)

\* Beats fit into a burst and bursts into the buffer.
LEMMA SizesFit ==
  /\ Beat \in Nat \ {0} /\ Burst \in Nat \ {0} /\ Depth \in Nat \ {0}
  /\ Times(Beat, Burst) /\ Times(Burst, Depth) /\ Times(Beat, Depth)
  /\ Beat <= Depth /\ Beat <= Burst /\ Burst <= Depth
<1>1. Beat \in Nat \ {0} /\ Burst \in Nat \ {0} /\ Depth \in Nat \ {0}
  BY CaptureAssumption
<1>2. Times(Beat, Burst) /\ Times(Burst, Depth)
  <2>1. Burst % Beat = 0 /\ Depth % Burst = 0 /\ Burst \in Int /\ Depth \in Int
    BY <1>1, CaptureAssumption
  <2> QED BY <1>1, <2>1, TimesMod
<1>3. Times(Beat, Depth)
  BY <1>1, <1>2, TimesTrans
<1>4. ASSUME NEW a \in Nat \ {0}, NEW b \in Nat \ {0}, Times(a, b) PROVE a <= b
  <2>1. b > -a
    OBVIOUS
  <2>2. b < a => b = 0
    BY <1>4, <2>1, TimesSmall
  <2> QED BY <2>2
<1> QED BY <1>1, <1>2, <1>3, <1>4

\* Same is an equivalence that equal bytes of one lap of the buffer decide.
LEMMA SameIs ==
  ASSUME NEW x \in Int, NEW y \in Int
  PROVE  /\ Same(x, x)
         /\ Same(x, y) => Same(y, x)
         /\ Same(x % Depth, x)
         /\ Same(x, y) /\ x - y < Depth /\ x - y > -Depth => x = y
<1>1. Depth \in Nat \ {0} /\ Depth \in Int
  BY SizesFit
<1>2. x - x = 0 /\ x - y \in Int /\ y - x = -(x - y) /\ x % Depth \in 0 .. Depth - 1
  BY <1>1
<1>3. Same(x, x)
  BY <1>1, <1>2, TimesSelf DEF Same
<1>4. ASSUME Same(x, y) PROVE Same(y, x)
  <2>1. Times(Depth, 0 - (x - y)) /\ 0 - (x - y) = y - x
    BY <1>1, <1>2, <1>4, TimesSelf, TimesSum DEF Same
  <2> QED BY <2>1 DEF Same
<1>5. Same(x % Depth, x)
  <2>1. Times(Depth, x - (x % Depth))
    BY <1>1, TimesMod
  <2>2. x - (x % Depth) \in Int /\ 0 - (x - (x % Depth)) = (x % Depth) - x
    BY <1>2
  <2>3. Times(Depth, 0 - (x - (x % Depth)))
    BY <1>1, <2>1, <2>2, TimesSelf, TimesSum
  <2> QED BY <2>2, <2>3 DEF Same
<1>6. ASSUME Same(x, y), x - y < Depth, x - y > -Depth PROVE x = y
  <2>1. x - y = 0
    BY <1>1, <1>2, <1>6, TimesSmall DEF Same
  <2> QED BY <2>1
<1> QED BY <1>3, <1>4, <1>5, <1>6

\* Sums and differences respect it.
LEMMA SameSum ==
  ASSUME NEW x \in Int, NEW y \in Int, NEW u \in Int, NEW v \in Int, Same(x, y), Same(u, v)
  PROVE  Same(x + u, y + v) /\ Same(x - u, y - v)
<1>1. Depth \in Int /\ x - y \in Int /\ u - v \in Int
  BY SizesFit
<1>2. Times(Depth, (x - y) + (u - v)) /\ Times(Depth, (x - y) - (u - v))
  BY <1>1, TimesSum DEF Same
<1>3. (x - y) + (u - v) = (x + u) - (y + v) /\ (x - y) - (u - v) = (x - u) - (y - v)
  OBVIOUS
<1> QED BY <1>2, <1>3 DEF Same

\* It is transitive.
LEMMA SameTrans ==
  ASSUME NEW x \in Int, NEW y \in Int, NEW z \in Int, Same(x, y), Same(y, z)
  PROVE  Same(x, z)
<1>1. Depth \in Int /\ x - y \in Int /\ y - z \in Int /\ (x - y) + (y - z) = x - z
  BY SizesFit
<1> QED BY <1>1, TimesSum DEF Same

\* A lap of the buffer does not matter.
LEMMA SameDepth == ASSUME NEW x \in Int PROVE Same(x + Depth, x) /\ Same(x - Depth, x)
<1>1. Depth \in Int /\ (x + Depth) - x = Depth /\ (x - Depth) - x = -Depth
  BY SizesFit
<1> QED BY <1>1, TimesSelf DEF Same

\* Rounding up to a multiple.
LEMMA UpIs ==
  ASSUME NEW v \in Nat, NEW d \in Nat \ {0}
  PROVE  /\ ((v + d - 1) \div d) * d \in v .. v + d - 1
         /\ Times(d, ((v + d - 1) \div d) * d)
<1> DEFINE q == (v + d - 1) \div d
<1>1. v + d - 1 \in Nat
  OBVIOUS
<1>2. /\ (v + d - 1) % d \in 0 .. d - 1 /\ q \in Int
      /\ v + d - 1 = q * d + ((v + d - 1) % d)
  BY <1>1, DivMod
<1> HIDE DEF q
<1>3. Times(d, q * d) /\ q * d \in Int
  <2>1. q \in Int
    BY <1>2
  <2> QED BY <2>1 DEF Times
<1>4. q * d = v + d - 1 - ((v + d - 1) % d)
  BY <1>1, <1>2, <1>3
<1> QED BY <1>1, <1>2, <1>3, <1>4 DEF q

\* RoundUp goes up to the edge of a burst, and less than one burst.
LEMMA RoundUpIs ==
  ASSUME NEW v \in Nat
  PROVE  Cap!RoundUp(v) \in v .. v + Burst - 1 /\ Times(Burst, Cap!RoundUp(v))
BY SizesFit, UpIs DEF Cap!RoundUp

\* Neither more nor less.
LEMMA Squeeze == ASSUME NEW a \in Int, NEW b \in Int, a <= b, a >= b PROVE a = b
OBVIOUS

\* TRACE_BEATS gives the address at which the next byte is stored.
LEMMA WritePosIs ==
  ASSUME x4 \in Nat, Times(Beat, x4)
  PROVE  /\ Cap!WritePos \in 0 .. Depth - Beat /\ Same(Cap!WritePos, x4) /\ Times(Beat, Cap!WritePos)
<1>1. PICK d \in Int : Depth = d * Beat
  BY SizesFit DEF Times
<1>2. Beat \in Nat \ {0} /\ Depth \in Nat \ {0}
  BY SizesFit
<1>3. d \in Nat \ {0}
  BY <1>1, <1>2
<1>4. PICK g \in Int : x4 = g * Beat
  BY DEF Times
<1>5. \A p \in Int : (p * Beat) \div Beat = p
  <2> SUFFICES ASSUME NEW p \in Int PROVE (p * Beat) \div Beat = p
    OBVIOUS
  <2> DEFINE r == (p * Beat) % Beat
             e == (p * Beat) \div Beat
  <2>1. p * Beat \in Int /\ Beat \in Int
    BY <1>2
  <2>2. r \in 0 .. Beat - 1 /\ e \in Int /\ p * Beat = e * Beat + r
    BY <2>1, <1>2, DivMod
  <2>3. r = 0
    BY <2>1, <1>2, TimesMod DEF Times
  <2>4. (p - e) * Beat = 0 /\ p - e \in Int
    BY <2>2, <2>3, <1>2
  <2>5. p - e = 0
    BY <2>4, <1>2
  <2> QED BY <2>2, <2>5
<1>6. x4 \div Beat = g /\ Depth \div Beat = d
  BY <1>1, <1>4, <1>5
<1> DEFINE w == g % d
<1>7. w \in 0 .. d - 1 /\ g \div d \in Int /\ g = (g \div d) * d + w
  BY <1>3, <1>4, DivMod
<1>8. Cap!WritePos = w * Beat
  BY <1>6 DEF Cap!WritePos
<1>9. w * Beat \in Int /\ w * Beat >= 0 /\ w * Beat <= (d - 1) * Beat /\ (d - 1) * Beat = Depth - Beat
  BY <1>1, <1>2, <1>3, <1>7
<1> HIDE DEF w
<1>10. w * Beat - x4 = (-(g \div d)) * Depth
  <2>1. x4 = ((g \div d) * d + w) * Beat
    BY <1>4, <1>7
  <2>2. \A e, c \in Int : (e * d + c) * Beat = e * (d * Beat) + c * Beat
    BY <1>2, <1>3
  <2>3. x4 = (g \div d) * Depth + w * Beat
    <3>1. w \in Int /\ g \div d \in Int
      BY <1>3, <1>7
    <3>2. ((g \div d) * d + w) * Beat = (g \div d) * (d * Beat) + w * Beat
      BY <2>2, <3>1
    <3> QED BY <2>1, <3>2, <1>1
  <2>4. \A e, c \in Int : c - (e * Depth + c) = (-e) * Depth
    BY <1>2
  <2> QED BY <2>3, <2>4, <1>7, <1>9
<1>11. Same(Cap!WritePos, x4)
  BY <1>8, <1>10, <1>7 DEF Same, Times
<1>12. Times(Beat, Cap!WritePos)
  BY <1>7, <1>8 DEF Times
<1> QED BY <1>8, <1>9, <1>11, <1>12, <1>2


-----------------------------------------------------------------------------
Bytes == Nat \X Int
\* Address a holds the newest byte that was ever written there.
Newest(a) ==
  /\ x2[a] \in Bytes /\ x2[a][1] = x6
  /\ x2[a][2] <= x4 /\ x2[a][2] > x4 - Depth /\ Same(x2[a][2], a + 1)
\* What the hardware keeps: whole beats, the last one maybe short, the newest bytes of all.
Board ==
  /\ Times(Beat, x4) /\ x3 <= x4 /\ x4 - Beat < x3
  /\ x1.kind = "ddr" => x3 = x4
  /\ ~x1.circ => x4 <= Depth
  /\ x5 <=> x1.circ /\ x4 >= Depth
  /\ \A a \in 0 .. Depth - 1 : a < x4 => Newest(a)
Recorded ==
  /\ x1 \in [kind : {"uram", "ddr"}, circ : BOOLEAN, demo : BOOLEAN]
  /\ x3 \in Nat /\ x4 \in Nat /\ x5 \in BOOLEAN /\ x6 \in Nat
  /\ x1.demo => x3 = x4 /\ (~x1.circ => x3 <= Depth)
  /\ ~x1.demo => Board

\* b is byte number due of the recording, or a newer one in its place.
AtPlace(b, due) ==
  /\ b[1] = x6 /\ b[2] \in Int
  /\ b[2] >= due /\ Same(b[2], due) /\ b[2] <= x4
  /\ b[2] <= x3 \/ (x3 < x4 /\ x3 > Depth)
\* The byte with the number due is, or was, at address a.
Place(a, due) ==
  /\ a \in 0 .. Depth - 1 /\ a < x4 /\ Same(a + 1, due)
  /\ due >= 1 \/ x1.kind = "ddr" \/ x3 > Depth
\* Cap!Enough, of r bytes.
EnoughIs(r) ==
  LET due == Cap!Least(x7.held, x7.cap)
  IN \/ x1.kind = "ddr" /\ ~x1.demo /\ x7.cap < x7.held /\ due - Burst < r /\ r <= due
     \/ r = due
     \/ x1.kind = "ddr" /\ x5 /\ x7.n < Depth /\ r = Depth

Unread(segs) == IF segs = <<>> THEN 0
                ELSE Len(segs[1]) + (IF Len(segs) = 1 THEN 0 ELSE Len(segs[2]))
\* Of the T bytes to read, those of x7.out are read and those of x7.segs are not.
Taking(T) ==
  LET done == Len(x7.out) first == x7.end - T
  IN /\ x7.out \in Seq(Bytes)
     /\ x7.segs \in Seq(Seq(0 .. Depth - 1)) /\ Len(x7.segs) <= 2
     /\ T = done + Unread(x7.segs)
     /\ x7.end \in Nat /\ x7.end <= x4 /\ (x7.end <= x7.n \/ x7.n > Depth)
     /\ \A i \in 1 .. done : AtPlace(x7.out[i], first + i)
     /\ x7.segs # <<>> =>
          \A i \in 1 .. Len(x7.segs[1]) : Place(x7.segs[1][i], first + done + i)
     /\ Len(x7.segs) = 2 =>
          \A i \in 1 .. Len(x7.segs[2]) : Place(x7.segs[2][i], first + done + Len(x7.segs[1]) + i)
     /\ x7.cut \in Nat /\ EnoughIs(Cap!Least(T, x7.cut))
\* The answer: enough, and every byte in its place.
Answered ==
  /\ x7.out \in Seq(Bytes) /\ x7.end \in Nat
  /\ EnoughIs(Len(x7.out))
  /\ \A i \in 1 .. Len(x7.out) : AtPlace(x7.out[i], x7.end - Len(x7.out) + i)

\* The counter has been read.
Counted ==
  /\ x7.n \in Nat /\ x7.n <= x3 /\ x7.held = Cap!Least(x7.n, Depth)
  /\ x7.pc # "blocks" =>
       x7.end = x7.n /\ x7.cut = Cap!Least(x7.held, x7.cap) /\ x7.cut > 0 /\ x7.out = <<>>
DumpFields == DOMAIN Cap!NoDump
Asking ==
  /\ x7.kind \in {"dump", "tail"} /\ x7.cap \in Nat
  /\ x7.kind = "tail" => x1.kind = "uram"
\* A request that no clear came into, by the step it is at.
Undisturbed ==
  /\ x7.pc \in {"idle", "demo", "bytes", "beats", "stat", "blocks", "done"}
  /\ x7.pc # "idle" => Asking
  /\ x7.pc = "demo" => x1.demo
  /\ x7.pc \in {"bytes", "beats", "stat", "blocks"} => ~x1.demo
  /\ x7.pc = "bytes" => x7.out = <<>>
  /\ x7.pc \in {"beats", "stat", "blocks"} => Counted
  /\ x7.pc = "beats" => x1.kind = "uram" /\ (x7.kind = "tail" \/ x7.n > Depth)
  /\ x7.pc = "stat" => x1.kind = "ddr" /\ x7.kind = "dump"
  /\ x7.pc = "blocks" => \E T \in Nat : Taking(T)
  /\ x7.pc = "done" => Answered
\* A window of the DDR buffer that is asked to be shorter than a burst.
ShortWindow == x1.kind = "ddr" /\ ~x1.demo /\ x7.cap < Burst
Judged == ~x7.spoilt /\ ~ShortWindow
CapInv == Recorded /\ DOMAIN x7 = DumpFields /\ (Judged => Undisturbed)

\* What the property says of the answer.
LEMMA CapAnswers == CapInv /\ ~ShortWindow => Cap!DumpIsNewest
<1> SUFFICES ASSUME CapInv, ~ShortWindow, x7.pc = "done", ~x7.spoilt
             PROVE  Cap!Enough /\ \A i \in DOMAIN x7.out : Cap!InPlace(i)
  BY DEF Cap!DumpIsNewest
<1>1. Recorded /\ Answered
  BY DEF CapInv, Judged, Undisturbed
<1>2. x7.out \in Seq(Bytes) /\ Len(x7.out) \in Nat /\ DOMAIN x7.out = 1 .. Len(x7.out)
  BY <1>1 DEF Answered
<1>3. Cap!Enough
  BY <1>1 DEF Answered, EnoughIs, Cap!Enough
<1>4. ASSUME NEW i \in DOMAIN x7.out PROVE Cap!InPlace(i)
  <2> DEFINE b == x7.out[i]
             due == x7.end - Len(x7.out) + i
  <2>1. AtPlace(b, due) /\ due \in Int
    BY <1>1, <1>2 DEF Answered
  <2>2. (b[2] - due) % Depth = 0
    <3>1. b[2] - due \in Int /\ Times(Depth, b[2] - due)
      BY <2>1 DEF AtPlace, Same
    <3> QED BY <3>1, SizesFit, TimesMod
  <2> QED BY <2>1, <2>2 DEF AtPlace, Cap!InPlace, Cap!Ended
<1> QED BY <1>3, <1>4

\* A place holds its byte or a newer one.
LEMMA ReadAtPlace ==
  ASSUME Recorded, Board, NEW a, NEW due \in Int, Place(a, due), due <= x4,
         due <= x3 \/ x3 > Depth
  PROVE  x2[a] \in Bytes /\ AtPlace(x2[a], due)
<1> DEFINE b == x2[a]
<1>1. a \in 0 .. Depth - 1 /\ a \in Int /\ a + 1 \in Int /\ Newest(a) /\ Same(a + 1, due)
  BY SizesFit DEF Board, Place
<1>2. b \in Bytes /\ b[1] = x6 /\ b[2] \in Int /\ b[2] <= x4 /\ b[2] > x4 - Depth
  BY <1>1 DEF Newest, Bytes
<1>3. Same(b[2], due)
  BY <1>1, <1>2, SameTrans DEF Newest
<1>4. x3 \in Nat /\ x4 \in Nat /\ Beat \in Nat /\ Depth \in Nat \ {0}
  BY SizesFit DEF Recorded
<1>5. b[2] >= due
  <2>1. due - b[2] < Depth
    BY <1>2, <1>4
  <2>2. Same(due, b[2])
    BY <1>2, <1>3, SameIs
  <2>3. due - b[2] > -Depth => due = b[2]
    BY <1>2, <1>3, <2>1, <2>2, SameIs
  <2> QED BY <2>3, <1>2, <1>4
<1>6. ASSUME b[2] > x3 PROVE x3 < x4 /\ x3 > Depth
  <2>1. x3 < x4 /\ x1.kind # "ddr"
    BY <1>2, <1>4, <1>6 DEF Board
  <2>2. ASSUME due <= x3, due >= 1 PROVE x3 > Depth
    <3>1. b[2] - due > 0 /\ b[2] - due > -Depth
      BY <1>2, <1>4, <1>6, <2>2
    <3>2. b[2] - due >= Depth
      <4>1. b[2] - due < Depth => b[2] = due
        BY <3>1, <1>2, <1>3, SameIs
      <4> QED BY <3>1, <4>1, <1>2, <1>4
    <3>3. x4 - Depth > 0 /\ x4 - Depth \in Int /\ x4 - Depth > -Beat
      BY <3>2, <2>2, <1>2, <1>4
    <3>4. Times(Beat, x4 - Depth)
      BY <1>4, SizesFit, TimesSum DEF Board
    <3>5. x4 - Depth >= Beat
      BY <3>3, <3>4, SizesFit, TimesSmall
    <3> QED BY <3>5, <1>4 DEF Board
  <2> QED BY <2>1, <2>2 DEF Place
<1> QED BY <1>2, <1>3, <1>4, <1>5, <1>6 DEF AtPlace

\* Nothing is recorded and nothing asked for.
LEMMA CapInit == ASSUME Cap!Init PROVE CapInv
<1> USE SizesFit
<1>1. x1 \in [kind : {"uram", "ddr"}, circ : BOOLEAN, demo : BOOLEAN]
  BY DEF Cap!Init
<1>2. x3 = 0 /\ x4 = 0 /\ x5 = FALSE /\ x6 = 0 /\ x7 = Cap!NoDump
  BY DEF Cap!Init
<1>3. Times(Beat, 0)
  BY TimesSelf
<1>4. Board
  BY <1>2, <1>3 DEF Board
<1>5. Recorded
  <2>1. x3 \in Nat /\ x4 \in Nat /\ x6 \in Nat /\ x3 = x4 /\ x3 <= Depth
    BY <1>2
  <2>2. x5 \in BOOLEAN
    BY <1>2
  <2> QED BY <1>1, <2>1, <2>2, <1>4 DEF Recorded
<1>6. x7.pc = "idle" /\ ~x7.spoilt
  BY <1>2 DEF Cap!NoDump
<1> QED BY <1>2, <1>5, <1>6 DEF CapInv, DumpFields, Undisturbed

\* One more beat.
LEMMA RecordKeeps ==
  ASSUME Recorded, NEW k \in 1 .. Beat, Cap!Record(k)
  PROVE  Recorded' /\ x3 = x4 /\ x3 <= x3' /\ x4 <= x4' /\ (x5 => x5')
<1>0. x4 \in Nat /\ Depth \in Nat /\ Beat \in Nat
  BY SizesFit DEF Recorded
<1>1. /\ ~x1.demo /\ ~(x3 < x4) /\ (x1.circ \/ x4 < Depth)
      /\ (k = Beat \/ x1.kind = "uram")
      /\ x4' = x4 + Beat /\ x3' = x3 + k /\ x1' = x1 /\ x6' = x6
  BY <1>0 DEF Cap!Record, Cap!Ended, Cap!Full
<1>w. x5' = (x5 \/ (x1.circ /\ (x4 + Beat) % Depth = 0))
  BY DEF Cap!Record
<1>m. x2' = [a \in 0 .. Depth - 1 |->
           LET lane == (a - x4) % Depth IN IF lane < Beat THEN <<x6, x4 + lane + 1>> ELSE x2[a]]
  BY DEF Cap!Record
<1>2. Board /\ x3 \in Nat /\ x4 \in Nat /\ x5 \in BOOLEAN /\ x6 \in Nat
  BY <1>1 DEF Recorded
<1>3. Beat \in Nat \ {0} /\ Depth \in Nat \ {0} /\ Beat <= Depth /\ Times(Beat, Depth) /\ k \in Nat
  BY SizesFit
<1>4. x3 = x4 /\ x3 <= x3' /\ x4 <= x4' /\ (x5 => x5') /\ x3' \in Nat /\ x4' \in Nat /\ x5' \in BOOLEAN
  BY <1>1, <1>w, <1>2, <1>3 DEF Board
<1>5. Times(Beat, x4') /\ x3' <= x4' /\ x4' - Beat < x3' /\ (x1.kind = "ddr" => x3' = x4')
  <2>1. Times(Beat, Beat)
    BY <1>3, TimesSelf
  <2>2. Times(Beat, x4 + Beat)
    BY <1>2, <1>3, <2>1, TimesSum DEF Board
  <2> QED BY <1>1, <1>2, <1>3, <1>4, <2>2
<1>6. ASSUME x4 < Depth PROVE x4 + Beat <= Depth
  <2>1. Times(Beat, x4 - Depth) /\ x4 - Depth \in Int
    BY <1>2, <1>3, TimesSum DEF Board
  <2>2. x4 - Depth > -Beat => x4 - Depth = 0
    <3>1. x4 - Depth < Beat
      BY <1>2, <1>3, <1>6
    <3> QED BY <1>3, <2>1, <3>1, TimesSmall
  <2> QED BY <1>2, <1>3, <1>6, <2>2
<1>7. ~x1.circ => x4' <= Depth
  BY <1>1, <1>6
<1>8. x5' <=> x1.circ /\ x4' >= Depth
  <2>1. ASSUME (x4 + Beat) % Depth = 0 PROVE x4 + Beat >= Depth
    <3>1. Times(Depth, x4 + Beat)
      BY <1>2, <1>3, <2>1, TimesMod
    <3>2. x4 + Beat < Depth => x4 + Beat = 0
      BY <1>2, <1>3, <3>1, TimesSmall
    <3> QED BY <1>2, <1>3, <3>2
  <2>2. ASSUME x4 < Depth, x4 + Beat >= Depth PROVE (x4 + Beat) % Depth = 0
    <3>1. x4 + Beat = Depth
      BY <1>2, <1>3, <1>6, <2>2
    <3> QED BY <3>1, <1>3, TimesSelf, TimesMod
  <2>3. x5 <=> x1.circ /\ x4 >= Depth
    BY <1>2 DEF Board
  <2>4. x4 >= Depth => x4 + Beat >= Depth
    BY <1>2, <1>3
  <2>5. (x4 >= Depth \/ (x4 + Beat) % Depth = 0) <=> x4 + Beat >= Depth
    BY <1>2, <1>3, <2>1, <2>2, <2>4
  <2> QED BY <1>1, <1>w, <2>3, <2>5
<1>9. ASSUME NEW a \in 0 .. Depth - 1, a < x4' PROVE Newest(a)'
  <2> DEFINE lane == (a - x4) % Depth
             b == IF lane < Beat THEN <<x6, x4 + lane + 1>> ELSE x2[a]
  <2>1. x2'[a] = b
    BY <1>m
  <2>2. lane \in 0 .. Depth - 1 /\ Same(lane, a - x4) /\ a \in Int /\ a + 1 \in Int /\ a - x4 \in Int
    <3>1. a \in Int /\ a - x4 \in Int /\ a + 1 \in Int
      BY <1>2, <1>3
    <3> QED BY <3>1, <1>3, SameIs, DivMod
  <2> HIDE DEF lane
  <2>3. CASE lane < Beat
    <3>1. b = <<x6, x4 + lane + 1>>
      BY <2>3
    <3>2. Same(x4 + 1, x4 + 1) /\ (x4 + 1) + lane = x4 + lane + 1 /\ (x4 + 1) + (a - x4) = a + 1
      BY <1>2, <2>2, SameIs
    <3>3. Same(x4 + lane + 1, a + 1)
      <4>1. Same((x4 + 1) + lane, (x4 + 1) + (a - x4))
        BY <1>2, <2>2, <3>2, SameSum
      <4> QED BY <4>1, <3>2
    <3>4. x4 + lane + 1 <= x4' /\ x4 + lane + 1 > x4' - Depth /\ x4 + lane + 1 \in Int
      BY <1>1, <1>2, <1>3, <2>2, <2>3
    <3>5. b \in Bytes /\ b[1] = x6 /\ b[2] = x4 + lane + 1
      BY <3>1, <3>4, <1>2 DEF Bytes
    <3> QED BY <3>3, <3>4, <3>5, <2>1, <1>1 DEF Newest, Same, Times
  <2>4. CASE ~(lane < Beat)
    <3>1. a < x4
      <4>1. CASE a >= x4
        <5>1. a - x4 < Depth /\ a - x4 > -Depth /\ a - x4 < Beat
          BY <4>1, <1>1, <1>2, <1>3, <1>9
        <5>2. lane - (a - x4) < Depth /\ lane - (a - x4) > -Depth
          BY <5>1, <4>1, <2>2, <1>2, <1>3
        <5>3. lane = a - x4
          BY <5>2, <2>2, SameIs
        <5> QED BY <5>1, <5>3, <2>4
      <4> QED BY <4>1, <1>2, <1>3
    <3>2. Newest(a)
      BY <3>1, <1>2 DEF Board
    <3> DEFINE m == x2[a][2]
    <3>3. m \in Int /\ m <= x4 /\ m > x4 - Depth /\ Same(m, a + 1) /\ x2[a] \in Bytes /\ x2[a][1] = x6
      BY <3>2 DEF Newest, Bytes
    <3>4. m > x4 + Beat - Depth
      <4>1. SUFFICES ASSUME m <= x4 + Beat - Depth PROVE FALSE
        BY <3>3, <1>2, <1>3
      <4> DEFINE d == m - 1 - x4 + Depth
      <4>2. d \in Int /\ d >= 0 /\ d < Beat
        BY <4>1, <3>3, <1>2, <1>3
      <4>3. Same(d, lane)
        <5>1. Same(x4 + 1, x4 + 1) /\ x4 + 1 \in Int
          BY <1>2, SameIs
        <5>2. Same(m - (x4 + 1), (a + 1) - (x4 + 1))
          BY <5>1, <3>3, <2>2, SameSum
        <5>3. m - (x4 + 1) \in Int /\ (a + 1) - (x4 + 1) = a - x4 /\ d = (m - (x4 + 1)) + Depth
          BY <3>3, <1>2, <1>3, <2>2
        <5>4. Same(d, m - (x4 + 1)) /\ Same(a - x4, lane)
          BY <5>3, <2>2, SameDepth, SameIs
        <5>5. Same(m - (x4 + 1), a - x4)
          BY <5>2, <5>3
        <5> QED BY <5>3, <5>4, <5>5, <4>2, <2>2, SameTrans
      <4>4. d - lane < Depth /\ d - lane > -Depth /\ lane \in Int
        BY <4>2, <2>2, <1>3
      <4>5. d = lane
        BY <4>2, <4>3, <4>4, SameIs
      <4> QED BY <4>2, <4>5, <2>4
    <3>5. x2'[a] = x2[a] /\ m <= x4' /\ m > x4' - Depth
      BY ONLY <3>3, <3>4, <2>1, <2>4, <1>1, <1>2, <1>3
    <3> QED BY <3>3, <3>5, <1>1 DEF Newest, Same, Times
  <2> QED BY <2>3, <2>4
<1>10. Board'
  BY <1>1, <1>4, <1>5, <1>7, <1>8, <1>9 DEF Board, Times
<1> QED BY <1>1, <1>2, <1>4, <1>10 DEF Recorded

\* DemoBus stores any number of bytes at once.
LEMMA DemoTickKeeps ==
  ASSUME Recorded, NEW k \in 1 .. Depth, Cap!DemoTick(k)
  PROVE  Recorded' /\ x3 = x4 /\ x3 <= x3' /\ x4 <= x4' /\ (x5 => x5')
<1>1. /\ x1.demo /\ x1' = x1 /\ x5' = x5 /\ x6' = x6 /\ x3' = x4'
      /\ x3' = IF x1.circ THEN x3 + k ELSE Cap!Least(x3 + k, Depth)
  BY DEF Cap!DemoTick
<1>2. x3 \in Nat /\ x4 \in Nat /\ x3 = x4 /\ (~x1.circ => x3 <= Depth) /\ k \in Nat /\ Depth \in Nat
  BY <1>1, SizesFit DEF Recorded
<1>3. x3' \in Nat /\ x3 <= x3' /\ (~x1.circ => x3' <= Depth)
  BY <1>1, <1>2 DEF Cap!Least
<1> QED BY <1>1, <1>2, <1>3 DEF Recorded

\* A clear spoils the request under way.
LEMMA ClearKeeps ==
  ASSUME CapInv, Cap!Clear
  PROVE  CapInv'
<1>1. /\ x3' = 0 /\ x4' = 0 /\ x5' = FALSE /\ x6' = x6 + 1 /\ x1' = x1
      /\ x7' = [x7 EXCEPT !.spoilt = x7.pc # "idle"]
  BY DEF Cap!Clear
<1>2. DOMAIN x7 = DumpFields /\ "spoilt" \in DumpFields /\ "pc" \in DumpFields
  BY DEF CapInv, DumpFields, Cap!NoDump
<1>3. DOMAIN x7' = DumpFields /\ x7'.pc = x7.pc /\ x7'.spoilt = (x7.pc # "idle")
  BY <1>1, <1>2
<1>4. Times(Beat, 0) /\ Beat \in Nat \ {0} /\ Depth \in Nat \ {0}
  BY TimesSelf, SizesFit
<1>5. Board'
  BY <1>1, <1>4 DEF Board, Times
<1>6. Recorded'
  <2>1. x1' \in [kind : {"uram", "ddr"}, circ : BOOLEAN, demo : BOOLEAN] /\ x6' \in Nat
    BY <1>1 DEF CapInv, Recorded
  <2>2. x3' \in Nat /\ x4' \in Nat /\ x3' = x4' /\ x3' <= Depth
    BY <1>1, <1>4
  <2>3. x5' \in BOOLEAN
    BY <1>1
  <2> QED BY <2>1, <2>2, <2>3, <1>5 DEF Recorded
<1>7. Judged' => Undisturbed'
  BY <1>3 DEF Judged, Undisturbed
<1> QED BY <1>3, <1>6, <1>7 DEF CapInv, DumpFields

\* The lesser of two numbers.
LEMMA LeastIs ==
  ASSUME NEW a \in Nat, NEW b \in Nat
  PROVE  Cap!Least(a, b) \in Nat /\ Cap!Least(a, b) <= a /\ Cap!Least(a, b) <= b
         /\ (Cap!Least(a, b) = a \/ Cap!Least(a, b) = b)
BY DEF Cap!Least

\* The recording goes on and the request waits.
LEMMA GrowsKeeps ==
  ASSUME CapInv, Recorded', x1' = x1, x6' = x6, x7' = x7,
         x3 = x4, x3 <= x3', x4 <= x4', x5 => x5'
  PROVE  CapInv'
<1>1. x3 \in Nat /\ x4 \in Nat /\ x3' \in Nat /\ x4' \in Nat /\ Depth \in Nat \ {0}
  BY SizesFit DEF CapInv, Recorded
<1>2. ASSUME NEW b, NEW due \in Int, AtPlace(b, due) PROVE AtPlace(b, due)'
  <2>1. b[2] \in Int /\ b[1] = x6' /\ b[2] >= due /\ Same(b[2], due) /\ b[2] <= x3
    BY <1>1, <1>2 DEF AtPlace
  <2>2. b[2] <= x4' /\ b[2] <= x3'
    BY <2>1, <1>1
  <2> QED BY <2>1, <2>2 DEF AtPlace, Same, Times
<1>3. ASSUME NEW a, NEW due \in Int, Place(a, due) PROVE Place(a, due)'
  <2>1. a \in 0 .. Depth - 1 /\ a < x4'
    BY <1>1, <1>3 DEF Place
  <2>2. due >= 1 \/ x1'.kind = "ddr" \/ x3' > Depth
    BY <1>1, <1>3 DEF Place
  <2> QED BY <1>3, <2>1, <2>2 DEF Place, Same, Times
<1>4. ASSUME NEW r, EnoughIs(r) PROVE EnoughIs(r)'
  BY <1>4 DEF EnoughIs
<1>5. ASSUME NEW T \in Nat, Taking(T) PROVE Taking(T)'
  <2>1. x7.out \in Seq(Bytes) /\ x7.segs \in Seq(Seq(0 .. Depth - 1)) /\ x7.end \in Nat
    BY <1>5 DEF Taking
  <2>2. Len(x7.out) \in Nat /\ x7.end - T \in Int
    BY <2>1
  <2>3. \A i \in 1 .. Len(x7.out) : AtPlace(x7.out[i], x7.end - T + i)'
    <3>1. SUFFICES ASSUME NEW i \in 1 .. Len(x7.out) PROVE AtPlace(x7.out[i], x7.end - T + i)'
      OBVIOUS
    <3>2. x7.end - T + i \in Int /\ AtPlace(x7.out[i], x7.end - T + i)
      BY <1>5, <2>2 DEF Taking
    <3> QED BY <3>2, <1>2
  <2>4. ASSUME x7.segs # <<>>
        PROVE  \A i \in 1 .. Len(x7.segs[1]) : Place(x7.segs[1][i], x7.end - T + Len(x7.out) + i)'
    <3>1. SUFFICES ASSUME NEW i \in 1 .. Len(x7.segs[1])
                   PROVE  Place(x7.segs[1][i], x7.end - T + Len(x7.out) + i)'
      OBVIOUS
    <3>2. x7.segs[1] \in Seq(0 .. Depth - 1)
      BY <2>1, <2>4
    <3>3. x7.end - T + Len(x7.out) + i \in Int /\ Place(x7.segs[1][i], x7.end - T + Len(x7.out) + i)
      <4>1. Len(x7.segs[1]) \in Nat
        BY <3>2
      <4>2. x7.end - T + Len(x7.out) + i \in Int
        BY <2>2, <4>1
      <4>3. Place(x7.segs[1][i], x7.end - T + Len(x7.out) + i)
        BY <1>5, <2>4 DEF Taking
      <4> QED BY <4>2, <4>3
    <3> QED BY <3>3, <1>3
  <2>5. ASSUME Len(x7.segs) = 2
        PROVE  \A i \in 1 .. Len(x7.segs[2]) :
                 Place(x7.segs[2][i], x7.end - T + Len(x7.out) + Len(x7.segs[1]) + i)'
    <3>1. SUFFICES ASSUME NEW i \in 1 .. Len(x7.segs[2])
                   PROVE  Place(x7.segs[2][i], x7.end - T + Len(x7.out) + Len(x7.segs[1]) + i)'
      OBVIOUS
    <3>2. x7.segs[1] \in Seq(0 .. Depth - 1) /\ x7.segs[2] \in Seq(0 .. Depth - 1)
      BY <2>1, <2>5
    <3>3. /\ x7.end - T + Len(x7.out) + Len(x7.segs[1]) + i \in Int
          /\ Place(x7.segs[2][i], x7.end - T + Len(x7.out) + Len(x7.segs[1]) + i)
      <4>1. Len(x7.segs[1]) \in Nat /\ Len(x7.segs[2]) \in Nat
        BY <3>2
      <4>2. x7.end - T + Len(x7.out) + Len(x7.segs[1]) + i \in Int
        BY SMTT(30), <2>2, <4>1
      <4>3. Place(x7.segs[2][i], x7.end - T + Len(x7.out) + Len(x7.segs[1]) + i)
        BY <1>5, <2>5 DEF Taking
      <4> QED BY <4>2, <4>3
    <3> QED BY <3>3, <1>3
  <2>6. EnoughIs(Cap!Least(T, x7.cut))' /\ x7.end <= x4'
    <3>1. EnoughIs(Cap!Least(T, x7.cut))
      BY <1>5 DEF Taking
    <3>2. EnoughIs(Cap!Least(T, x7.cut))'
      BY <3>1, <1>4 DEF EnoughIs, Cap!Least
    <3> QED BY <3>2, <1>5, <2>1, <1>1 DEF Taking
  <2> QED BY <1>5, <2>1, <2>3, <2>4, <2>5, <2>6 DEF Taking
<1>6. ASSUME Answered PROVE Answered'
  <2>1. x7.out \in Seq(Bytes) /\ x7.end \in Nat /\ Len(x7.out) \in Nat
    BY <1>6 DEF Answered
  <2>2. \A i \in 1 .. Len(x7.out) : AtPlace(x7.out[i], x7.end - Len(x7.out) + i)'
    <3>1. SUFFICES ASSUME NEW i \in 1 .. Len(x7.out)
                   PROVE  AtPlace(x7.out[i], x7.end - Len(x7.out) + i)'
      OBVIOUS
    <3>2. x7.end - Len(x7.out) + i \in Int /\ AtPlace(x7.out[i], x7.end - Len(x7.out) + i)
      BY <1>6, <2>1 DEF Answered
    <3> QED BY <3>2, <1>2
  <2>3. EnoughIs(Len(x7.out))'
    BY <1>6 DEF Answered, EnoughIs
  <2> QED BY <2>1, <2>2, <2>3 DEF Answered
<1>7. Counted => Counted'
  BY <1>1 DEF Counted, Cap!Least
<1>8. Asking => Asking'
  BY DEF Asking
<1>9. ASSUME Undisturbed PROVE Undisturbed'
  <2>1. (\E T \in Nat : Taking(T)) => \E T \in Nat : Taking(T)'
    BY <1>5
  <2> QED BY <1>6, <1>7, <1>8, <1>9, <2>1 DEF Undisturbed
<1> QED BY <1>9 DEF CapInv, DumpFields, Judged, ShortWindow

\* A piece of the buffer.
LEMMA SegIs ==
  ASSUME NEW a \in Nat, NEW k \in Nat, a + k <= Depth, Depth \in Nat
  PROVE  Cap!Seg(a, k) \in Seq(0 .. Depth - 1) /\ Len(Cap!Seg(a, k)) = k
         /\ \A i \in 1 .. k : Cap!Seg(a, k)[i] = a + i - 1
<1> DEFINE p == [i \in 1 .. k |-> a + i - 1]
<1>1. \A i \in 1 .. k : a + i - 1 \in 0 .. Depth - 1
  OBVIOUS
<1>2. p \in [1 .. k -> 0 .. Depth - 1] /\ \A i \in 1 .. k : p[i] = a + i - 1
  BY <1>1
<1>3. p \in Seq(0 .. Depth - 1) /\ Len(p) = k
  BY <1>2
<1> QED BY <1>2, <1>3 DEF Cap!Seg

\* Two pieces of the buffer, of which the second begins where the first meets the end.
LEMMA PiecesToTake ==
  ASSUME Recorded, UNCHANGED <<x1, x2, x3, x4, x5, x6>>,
         NEW a \in Nat, NEW k \in Nat, NEW l \in Nat,
         x7'.out = <<>>,
         \/ x7'.segs = <<Cap!Seg(a, k), Cap!Seg(0, l)>>
         \/ l = 0 /\ x7'.segs = <<Cap!Seg(a, k)>>,
         a + k <= Depth, l <= Depth, l > 0 => a + k = Depth,
         x4 >= Depth \/ (a + k <= x4 /\ l = 0),
         x7'.end \in Nat, x7'.end <= x4, x7'.end <= x7'.n \/ x7'.n > Depth,
         Same(a, x7'.end - (k + l)),
         x7'.end >= k + l \/ x1.kind = "ddr" \/ x3 > Depth,
         x7'.cut \in Nat, EnoughIs(Cap!Least(k + l, x7.cut))'
  PROVE  Taking(k + l)'
<1> DEFINE T == k + l
           p == Cap!Seg(a, k)
           q == Cap!Seg(0, l)
           first == x7'.end - T
<1>1. x3 \in Nat /\ x4 \in Nat /\ Depth \in Nat \ {0} /\ T \in Nat /\ first \in Int
  BY SizesFit DEF Recorded
<1>2. p \in Seq(0 .. Depth - 1) /\ Len(p) = k /\ \A i \in 1 .. k : p[i] = a + i - 1
  <2>1. Depth \in Nat
    BY <1>1
  <2> QED BY <2>1, SegIs
<1>3. q \in Seq(0 .. Depth - 1) /\ Len(q) = l /\ \A i \in 1 .. l : q[i] = i - 1
  <2>1. Depth \in Nat /\ 0 \in Nat /\ 0 + l <= Depth
    BY <1>1
  <2>2. q \in Seq(0 .. Depth - 1) /\ Len(q) = l /\ \A i \in 1 .. l : q[i] = 0 + i - 1
    BY <2>1, SegIs
  <2>3. \A i \in 1 .. l : 0 + i - 1 = i - 1
    OBVIOUS
  <2> QED BY <2>2, <2>3
<1> HIDE DEF p, q
<1>4. ASSUME NEW i \in 1 .. k PROVE Place(p[i], first + i)
  <2>0. i \in Nat /\ i >= 1 /\ i <= k /\ a \in Int /\ first \in Int
    BY <1>1
  <2>1. p[i] = a + i - 1 /\ p[i] + 1 = a + i /\ a + i - 1 \in 0 .. Depth - 1
    BY ONLY <2>0, <1>1, <1>2
  <2>2. Same(a + i, first + i)
    <3>1. Same(i, i)
      BY <2>0, SameIs
    <3> QED BY <2>0, <3>1, SameSum
  <2>3. p[i] < x4
    BY <2>0, <2>1, <1>1
  <2>4. first + i >= 1 \/ x1.kind = "ddr" \/ x3 > Depth
    BY SMTT(30), <2>0, <1>1
  <2> QED BY <2>1, <2>2, <2>3, <2>4 DEF Place
<1>5. ASSUME NEW i \in 1 .. l PROVE Place(q[i], first + k + i)
  <2>0. i \in Nat /\ i >= 1 /\ i <= l /\ a \in Int /\ first \in Int /\ k + i \in Int
    BY ONLY <1>1
  <2>1. q[i] = i - 1 /\ q[i] + 1 = i /\ i - 1 \in 0 .. Depth - 1 /\ l > 0 /\ a + k = Depth
    BY SMTT(30), <2>0, <1>1, <1>3
  <2>2. Same(Depth + i, first + k + i)
    <3>1. Same(k + i, k + i)
      BY <2>0, SameIs
    <3>2. Same(a + (k + i), first + (k + i))
      BY <2>0, <3>1, SameSum
    <3>3. a + (k + i) = Depth + i /\ first + (k + i) = first + k + i
      BY ONLY <2>0, <2>1
    <3> QED BY <3>2, <3>3
  <2>3. Same(i, Depth + i)
    <3>1. i + Depth = Depth + i /\ i + Depth \in Int /\ i \in Int
      BY <1>1, <2>0
    <3>2. Same(i + Depth, i)
      BY <2>0, SameDepth
    <3> QED BY <3>1, <3>2, SameIs
  <2>4. Same(i, first + k + i)
    <3> DEFINE u == Depth + i
               v == first + k + i
    <3>1. i \in Int /\ u \in Int /\ v \in Int /\ Same(i, u) /\ Same(u, v)
      BY <1>1, <2>0, <2>2, <2>3
    <3> HIDE DEF u, v
    <3>2. Same(i, v)
      BY <3>1, SameTrans
    <3> QED BY <3>2 DEF v
  <2>5. q[i] < x4
    BY <2>0, <2>1, <1>1
  <2>6. first + k + i >= 1 \/ x1.kind = "ddr" \/ x3 > Depth
    BY SMTT(30), <2>0, <1>1
  <2> QED BY <2>1, <2>4, <2>5, <2>6 DEF Place
<1>6. \A d, b : Place(d, b)' <=> Place(d, b)
  BY DEF Place, Same, Times
<1>7. Len(x7'.out) = 0 /\ x7'.out \in Seq(Bytes)
  OBVIOUS
<1>10. /\ x7'.end \in Nat /\ x7'.end <= x4' /\ (x7'.end <= x7'.n \/ x7'.n > Depth)
      /\ (\A i \in 1 .. Len(x7.out) : AtPlace(x7.out[i], x7.end - T + i))'
      /\ x7'.cut \in Nat /\ EnoughIs(Cap!Least(T, x7.cut))'
  BY <1>1, <1>7
<1>8. CASE x7'.segs = <<p, q>>
  <2>1. /\ x7'.segs \in Seq(Seq(0 .. Depth - 1)) /\ Len(x7'.segs) = 2 /\ x7'.segs # <<>>
        /\ x7'.segs[1] = p /\ x7'.segs[2] = q
    BY <1>2, <1>3, <1>8
  <2>2. T = Len(x7'.out) + Unread(x7'.segs)
    BY <2>1, <1>1, <1>2, <1>3, <1>7 DEF Unread
  <2>3. (\A i \in 1 .. Len(x7.segs[1]) : Place(x7.segs[1][i], x7.end - T + Len(x7.out) + i))'
    BY <2>1, <1>1, <1>2, <1>4, <1>6, <1>7
  <2>4. (\A i \in 1 .. Len(x7.segs[2]) :
           Place(x7.segs[2][i], x7.end - T + Len(x7.out) + Len(x7.segs[1]) + i))'
    BY <2>1, <1>1, <1>2, <1>3, <1>5, <1>6, <1>7
  <2>5. Len(x7'.segs) <= 2
    BY <2>1
  <2> HIDE DEF T, first
  <2>6. Taking(T)'
    BY <1>10, <1>7, <2>1, <2>2, <2>3, <2>4, <2>5 DEF Taking, first
  <2> QED BY <2>6 DEF T
<1>9. CASE l = 0 /\ x7'.segs = <<p>>
  <2>1. /\ x7'.segs \in Seq(Seq(0 .. Depth - 1)) /\ Len(x7'.segs) = 1 /\ x7'.segs # <<>>
        /\ x7'.segs[1] = p
    BY <1>2, <1>9
  <2>2. T = Len(x7'.out) + Unread(x7'.segs)
    BY <2>1, <1>1, <1>2, <1>7, <1>9 DEF Unread
  <2>3. (\A i \in 1 .. Len(x7.segs[1]) : Place(x7.segs[1][i], x7.end - T + Len(x7.out) + i))'
    BY <2>1, <1>1, <1>2, <1>4, <1>6, <1>7
  <2>4. Len(x7'.segs) <= 2 /\ Len(x7'.segs) # 2
    BY <2>1
  <2> HIDE DEF T, first
  <2>5. Taking(T)'
    BY <1>10, <1>7, <2>1, <2>2, <2>3, <2>4 DEF Taking, first
  <2> QED BY <2>5 DEF T
<1> QED BY <1>8, <1>9 DEF p, q

\* A step of the request leaves the recording alone.
LEMMA RequestKeepsRecord == ASSUME Recorded, UNCHANGED <<x1, x2, x3, x4, x5, x6>> PROVE Recorded'
<1>1. \A a : Newest(a)' <=> Newest(a)
  BY DEF Newest, Same, Times
<1>2. ~x1.demo => Board'
  BY <1>1 DEF Recorded, Board, Times
<1> QED BY <1>2 DEF Recorded

\* Records of a request.
LEMMA DumpHas ==
  ASSUME DOMAIN x7 = DumpFields
  PROVE  /\ "pc" \in DOMAIN x7 /\ "kind" \in DOMAIN x7 /\ "cap" \in DOMAIN x7 /\ "n" \in DOMAIN x7
         /\ "end" \in DOMAIN x7 /\ "segs" \in DOMAIN x7 /\ "out" \in DOMAIN x7
         /\ "held" \in DOMAIN x7 /\ "cut" \in DOMAIN x7 /\ "spoilt" \in DOMAIN x7
BY DEF DumpFields, Cap!NoDump

\* A request begins.
LEMMA BeginKeeps ==
  ASSUME CapInv, NEW kind \in {"dump", "tail"}, NEW q \in Asked, Cap!Begin(kind, q)
  PROVE  CapInv'
<1>1. /\ UNCHANGED <<x1, x2, x3, x4, x5, x6>>
      /\ x7' = [Cap!NoDump EXCEPT !.pc = IF x1.demo THEN "demo" ELSE "bytes", !.kind = kind,
                            !.cap = IF kind = "dump" THEN Cap!DumpCap(q) ELSE q[1]]
      /\ kind = "dump" \/ (x1.kind = "uram" /\ q # <<>>)
  BY DEF Cap!Begin, Cap!recording
<1>2. /\ DOMAIN x7' = DumpFields /\ ~x7'.spoilt /\ x7'.kind = kind /\ x7'.out = <<>>
      /\ x7'.pc = (IF x1.demo THEN "demo" ELSE "bytes")
      /\ x7'.cap = (IF kind = "dump" THEN Cap!DumpCap(q) ELSE q[1])
  BY <1>1 DEF Cap!NoDump, DumpFields
<1>3. Cap!DumpCap(q) \in Nat
  <2>1. CapDefault \in Nat /\ CapMax \in Nat
    BY CaptureAssumption
  <2>2. q = <<>> \/ q[1] \in Nat
    BY CaptureAssumption
  <2> QED BY <2>1, <2>2 DEF Cap!DumpCap, Cap!Least
<1>4. Asking'
  <2>1. kind = "tail" => q[1] \in Nat /\ x1.kind = "uram"
    BY <1>1, CaptureAssumption
  <2> QED BY <1>1, <1>2, <1>3, <2>1 DEF Asking
<1>5. Undisturbed'
  BY <1>1, <1>2, <1>4 DEF Undisturbed
<1> QED BY <1>1, <1>2, <1>5, RequestKeepsRecord DEF CapInv, DumpFields

\* An answer is sent.
LEMMA AnswerKeeps == ASSUME CapInv, Cap!Answer PROVE CapInv'
<1>1. UNCHANGED <<x1, x2, x3, x4, x5, x6>> /\ x7' = Cap!NoDump
  BY DEF Cap!Answer, Cap!recording
<1>2. DOMAIN x7' = DumpFields /\ x7'.pc = "idle"
  BY <1>1 DEF Cap!NoDump, DumpFields
<1>3. Undisturbed'
  BY <1>2 DEF Undisturbed
<1> QED BY <1>1, <1>2, <1>3, RequestKeepsRecord DEF CapInv, DumpFields

\* A step of the request that leaves the recording and the limit alone.
LEMMA DumpGoes ==
  ASSUME CapInv, UNCHANGED <<x1, x2, x3, x4, x5, x6>>,
         DOMAIN x7' = DumpFields, x7'.spoilt = x7.spoilt, x7'.cap = x7.cap, Judged => Undisturbed'
  PROVE  CapInv'
BY RequestKeepsRecord DEF CapInv, DumpFields, Judged, ShortWindow

\* The newest n of a sequence.
LEMMA TailIs ==
  ASSUME NEW S, NEW s \in Seq(S), NEW n \in Nat
  PROVE  /\ Cap!Tail_(s, n) \in Seq(S) /\ Len(Cap!Tail_(s, n)) = Cap!Least(Len(s), n)
         /\ \A i \in 1 .. Len(Cap!Tail_(s, n)) :
              Cap!Tail_(s, n)[i] = s[Len(s) - Len(Cap!Tail_(s, n)) + i]
<1>1. Len(s) \in Nat /\ \A i \in 1 .. Len(s) : s[i] \in S
  OBVIOUS
<1>2. CASE Len(s) > n
  <2>1. Cap!Tail_(s, n) = SubSeq(s, Len(s) - n + 1, Len(s))
    BY <1>2 DEF Cap!Tail_
  <2>2. /\ SubSeq(s, Len(s) - n + 1, Len(s)) \in Seq(S)
        /\ Len(SubSeq(s, Len(s) - n + 1, Len(s))) = n
        /\ \A i \in 1 .. n : SubSeq(s, Len(s) - n + 1, Len(s))[i] = s[Len(s) - n + i]
    BY <1>1, <1>2
  <2> QED BY <2>1, <2>2, <1>2 DEF Cap!Least
<1>3. CASE ~(Len(s) > n)
  <2>1. Cap!Tail_(s, n) = s /\ Cap!Least(Len(s), n) = Len(s)
    BY <1>1, <1>3 DEF Cap!Tail_, Cap!Least
  <2> QED BY <1>1, <2>1
<1> QED BY <1>2, <1>3

\* DemoBus answers at once.
LEMMA DumpDemoKeeps == ASSUME CapInv, Cap!DumpDemo PROVE CapInv'
<1> DEFINE held == Cap!Least(x3, Depth)
           s == [i \in 1 .. held |-> <<x6, x3 - held + i>>]
           out == Cap!Tail_(s, x7.cap)
           r == Len(out)
<1>1. /\ x7.pc = "demo" /\ UNCHANGED <<x1, x2, x3, x4, x5, x6>>
      /\ x7' = [x7 EXCEPT !.pc = "done", !.end = x3, !.held = held, !.out = out]
  BY DEF Cap!DumpDemo, Cap!recording
<1>2. /\ DOMAIN x7' = DumpFields /\ x7'.pc = "done" /\ x7'.end = x3 /\ x7'.held = held /\ x7'.out = out
      /\ x7'.cap = x7.cap /\ x7'.kind = x7.kind /\ x7'.spoilt = x7.spoilt /\ x7'.n = x7.n
  BY <1>1, DumpHas DEF CapInv
<1>3. ASSUME Judged PROVE Undisturbed'
  <2>1. x1.demo /\ Asking /\ x3 \in Nat /\ x4 = x3 /\ x6 \in Nat /\ Depth \in Nat /\ x7.cap \in Nat
    BY <1>1, <1>3, SizesFit DEF CapInv, Judged, Undisturbed, Recorded, Asking
  <2>2. held \in Nat /\ held <= x3
    BY <2>1, LeastIs
  <2>3. s \in Seq(Bytes) /\ Len(s) = held /\ \A i \in 1 .. held : s[i] = <<x6, x3 - held + i>>
    <3>1. \A i \in 1 .. held : <<x6, x3 - held + i>> \in Bytes
      BY <2>1, <2>2 DEF Bytes
    <3> QED BY <2>2, <3>1
  <2> HIDE DEF held, s
  <2>4. /\ out \in Seq(Bytes) /\ r = Cap!Least(held, x7.cap)
        /\ \A i \in 1 .. r : out[i] = s[held - r + i]
    BY SMTT(30), <2>1, <2>3, TailIs
  <2>5. r \in Nat /\ r <= held
    <3>1. held \in Nat /\ x7.cap \in Nat /\ r = Cap!Least(held, x7.cap)
      BY <2>1, <2>2, <2>4
    <3> QED BY <3>1, LeastIs
  <2> HIDE DEF out, r
  <2>6. (\A i \in 1 .. Len(x7.out) : AtPlace(x7.out[i], x7.end - Len(x7.out) + i))'
    <3>1. SUFFICES ASSUME NEW i \in 1 .. r PROVE AtPlace(out[i], x3 - r + i)
      BY <1>1, <1>2, <2>1, <2>4 DEF AtPlace, Same, Times, r
    <3>2. out[i] = <<x6, x3 - r + i>> /\ x3 - r + i \in Int /\ x3 - r + i <= x3
      <4>1. held - r + i \in 1 .. held
        BY <2>2, <2>5
      <4>2. s[held - r + i] = <<x6, x3 - held + (held - r + i)>>
        BY <2>3, <4>1
      <4>3. out[i] = s[held - r + i]
        BY <2>4
      <4>4. x3 - held + (held - r + i) = x3 - r + i /\ x3 - r + i \in Int /\ x3 - r + i <= x3
        BY <2>1, <2>2, <2>5
      <4> QED BY <4>2, <4>3, <4>4
    <3> QED BY <2>1, <3>2, SameIs DEF AtPlace
  <2>7. EnoughIs(Len(x7.out))'
    BY <1>1, <1>2, <2>4 DEF EnoughIs, r
  <2>8. Answered'
    BY <1>2, <2>1, <2>4, <2>6, <2>7 DEF Answered
  <2>9. Asking'
    BY <1>1, <1>2, <2>1 DEF Asking
  <2> QED BY <1>2, <2>8, <2>9 DEF Undisturbed
<1> QED BY <1>1, <1>2, <1>3, DumpGoes

\* The blocks are all read: the newest dump.cut bytes are the answer.
LEMMA DumpDoneKeeps == ASSUME CapInv, Cap!DumpDone PROVE CapInv'
<1> DEFINE out == Cap!Tail_(x7.out, x7.cut)
           r == Len(out)
<1>1. /\ x7.pc = "blocks" /\ x7.segs = <<>> /\ UNCHANGED <<x1, x2, x3, x4, x5, x6>>
      /\ x7' = [x7 EXCEPT !.pc = "done", !.out = out]
  BY DEF Cap!DumpDone, Cap!recording
<1>2. /\ DOMAIN x7' = DumpFields /\ x7'.pc = "done" /\ x7'.end = x7.end /\ x7'.held = x7.held
      /\ x7'.out = out /\ x7'.cap = x7.cap /\ x7'.kind = x7.kind /\ x7'.spoilt = x7.spoilt
      /\ x7'.n = x7.n
  BY <1>1, DumpHas DEF CapInv
<1>3. ASSUME Judged PROVE Undisturbed'
  <2>1. Asking
    BY <1>1, <1>3 DEF CapInv, Judged, Undisturbed
  <2>2. PICK T \in Nat : Taking(T)
    BY <1>1, <1>3 DEF CapInv, Judged, Undisturbed
  <2>3. /\ x7.out \in Seq(Bytes) /\ x7.cut \in Nat /\ x7.end \in Nat /\ T = Len(x7.out)
        /\ \A i \in 1 .. T : AtPlace(x7.out[i], x7.end - T + i)
        /\ EnoughIs(Cap!Least(T, x7.cut))
    BY <1>1, <2>2 DEF Taking, Unread
  <2>4. /\ out \in Seq(Bytes) /\ r = Cap!Least(T, x7.cut)
        /\ \A i \in 1 .. r : out[i] = x7.out[T - r + i]
    BY <2>3, TailIs
  <2>5. r \in Nat /\ r <= T
    BY <2>3, <2>4, LeastIs
  <2> HIDE DEF out, r
  <2>6. (\A i \in 1 .. Len(x7.out) : AtPlace(x7.out[i], x7.end - Len(x7.out) + i))'
    <3>1. SUFFICES ASSUME NEW i \in 1 .. r PROVE AtPlace(out[i], x7.end - r + i)
      BY <1>1, <1>2, <2>4 DEF AtPlace, Same, Times, r
    <3>0. x7.end \in Int /\ i \in Int /\ i >= 1 /\ i <= r
      BY <2>3, <2>5
    <3>2. T - r + i \in 1 .. T /\ x7.end - T + (T - r + i) = x7.end - r + i
      BY <3>0, <2>5
    <3>3. AtPlace(x7.out[T - r + i], x7.end - T + (T - r + i))
      BY <2>3, <3>2
    <3> QED BY <2>4, <3>2, <3>3
  <2>7. EnoughIs(Len(x7.out))'
    BY <1>1, <1>2, <2>3, <2>4 DEF EnoughIs, r
  <2>8. Answered'
    BY <1>2, <2>3, <2>4, <2>6, <2>7 DEF Answered
  <2>9. Asking'
    BY ONLY <1>1, <1>2, <2>1 DEF Asking
  <2> QED BY <1>2, <2>8, <2>9 DEF Undisturbed
<1> QED BY <1>1, <1>2, <1>3, DumpGoes

\* One block is read: every place holds its byte or a newer one.
LEMMA DumpBlockKeeps == ASSUME CapInv, Cap!DumpBlock PROVE CapInv'
<1> DEFINE s == x7.segs[1]
           got == [i \in DOMAIN s |-> x2[s[i]]]
<1>1. /\ x7.pc = "blocks" /\ x7.segs # <<>> /\ UNCHANGED <<x1, x2, x3, x4, x5, x6>>
      /\ x7' = [x7 EXCEPT !.segs = Tail(@), !.out = @ \o got]
  BY DEF Cap!DumpBlock, Cap!recording
<1>2. /\ DOMAIN x7' = DumpFields /\ x7'.segs = Tail(x7.segs) /\ x7'.out = x7.out \o got
      /\ x7'.pc = "blocks" /\ x7'.end = x7.end /\ x7'.held = x7.held /\ x7'.cap = x7.cap
      /\ x7'.kind = x7.kind /\ x7'.spoilt = x7.spoilt /\ x7'.n = x7.n /\ x7'.cut = x7.cut
  BY <1>1, DumpHas DEF CapInv
<1>3. ASSUME Judged PROVE Undisturbed'
  <2>1. Asking /\ ~x1.demo /\ Counted /\ Board /\ Recorded
    BY <1>1, <1>3 DEF CapInv, Judged, Undisturbed, Recorded
  <2>2. PICK T \in Nat : Taking(T)
    BY <1>1, <1>3 DEF CapInv, Judged, Undisturbed
  <2> DEFINE done == Len(x7.out)
             l == Len(s)
             first == x7.end - T
             todo == Unread(x7.segs)
  <2>3. /\ x7.out \in Seq(Bytes) /\ x7.end \in Nat
        /\ x7.segs \in Seq(Seq(0 .. Depth - 1)) /\ Len(x7.segs) \in {1, 2}
        /\ s \in Seq(0 .. Depth - 1)
    <3>1. x7.segs \in Seq(Seq(0 .. Depth - 1)) /\ Len(x7.segs) <= 2 /\ x7.out \in Seq(Bytes) /\ x7.end \in Nat
      BY <2>2 DEF Taking
    <3>2. Len(x7.segs) \in Nat \ {0} /\ s \in Seq(0 .. Depth - 1)
      BY <1>1, <3>1
    <3>3. Len(x7.segs) \in {1, 2}
      <4>1. \A n \in Nat \ {0} : n <= 2 => n \in {1, 2}
        OBVIOUS
      <4> QED BY <3>1, <3>2, <4>1
    <3> QED BY <3>1, <3>2, <3>3
  <2>a. done \in Nat /\ l \in Nat /\ DOMAIN s = 1 .. l /\ first \in Int
    BY <2>3
  <2>c. Len(x7.segs) = 2 => Len(x7.segs[2]) \in Nat
    BY <2>3
  <2>b. /\ Len(x7.segs) = 1 => todo = l
        /\ Len(x7.segs) = 2 => todo = l + Len(x7.segs[2])
    <3>1. x7.segs # <<>>
      BY <1>1
    <3>2. todo = l + (IF Len(x7.segs) = 1 THEN 0 ELSE Len(x7.segs[2]))
      BY <3>1 DEF Unread
    <3> HIDE DEF l, todo
    <3>3. CASE Len(x7.segs) = 1
      BY <3>2, <3>3, <2>a
    <3>4. CASE Len(x7.segs) = 2
      BY <3>2, <3>4
    <3> QED BY <3>3, <3>4, <2>3
  <2>d. T = done + todo
    BY <2>2 DEF Taking
  <2>e. first + T = x7.end
    BY <2>3
  <2> HIDE DEF todo
  <2>4. todo \in Nat /\ todo >= l
    <3>1. Len(x7.segs) = 1 \/ Len(x7.segs) = 2
      BY <2>3
    <3> HIDE DEF l
    <3> QED BY <3>1, <2>a, <2>b, <2>c
  <2>5. x3 \in Nat /\ x4 \in Nat /\ Depth \in Nat /\ x7.n \in Nat /\ x7.n <= x3 /\ x7.end <= x4
        /\ (x7.end <= x7.n \/ x7.n > Depth)
    BY <2>1, <2>2, SizesFit DEF Recorded, Counted, Taking
  <2>6. ASSUME NEW i \in 1 .. l PROVE x2[s[i]] \in Bytes /\ AtPlace(x2[s[i]], first + done + i)
    <3>1. Place(s[i], first + done + i)
      BY <1>1, <2>2 DEF Taking
    <3> HIDE DEF first, done, l
    <3>2. first + done + i \in Int /\ first + done + i <= x7.end
      BY <2>a, <2>d, <2>e, <2>4
    <3>3. first + done + i <= x4 /\ (first + done + i <= x3 \/ x3 > Depth)
      BY <2>3, <2>5, <3>2
    <3> QED BY <2>1, <3>1, <3>2, <3>3, ReadAtPlace
  <2>7. got \in Seq(Bytes) /\ Len(got) = l /\ \A i \in 1 .. l : got[i] = x2[s[i]]
    BY <2>a, <2>6
  <2> HIDE DEF got
  <2>8. /\ x7'.out \in Seq(Bytes) /\ Len(x7'.out) = done + l
        /\ \A i \in 1 .. done + l : x7'.out[i] = IF i <= done THEN x7.out[i] ELSE got[i - done]
    <3>1. x7'.out = x7.out \o got
      BY <1>2
    <3>2. /\ x7.out \o got \in Seq(Bytes) /\ Len(x7.out \o got) = Len(x7.out) + Len(got)
          /\ \A i \in 1 .. Len(x7.out) + Len(got) :
               (x7.out \o got)[i] = IF i <= Len(x7.out) THEN x7.out[i] ELSE got[i - Len(x7.out)]
      <4>1. x7.out \in Seq(Bytes) /\ got \in Seq(Bytes)
        BY <2>3, <2>7
      <4> QED BY <4>1, ConcatProperties
    <3> QED BY <3>1, <3>2, <2>7
  <2>9. \A b, due : AtPlace(b, due)' <=> AtPlace(b, due)
    BY <1>1 DEF AtPlace, Same, Times
  <2>10. \A a, due : Place(a, due)' <=> Place(a, due)
    BY <1>1 DEF Place, Same, Times
  <2>11. (\A i \in 1 .. Len(x7.out) : AtPlace(x7.out[i], x7.end - T + i))'
    <3>1. SUFFICES ASSUME NEW i \in 1 .. done + l PROVE AtPlace(x7'.out[i], first + i)
      BY <1>2, <2>8, <2>9
    <3>2. CASE i <= done
      <4>1. i \in 1 .. Len(x7.out) /\ x7'.out[i] = x7.out[i]
        <5> HIDE DEF done, l
        <5>1. i \in 1 .. done + l /\ i \in Int /\ i >= 1
          BY <2>a
        <5>2. x7'.out[i] = x7.out[i]
          BY <5>1, <2>8, <3>2
        <5> QED BY <5>1, <5>2, <3>2, <2>a DEF done
      <4> QED BY <2>2, <4>1 DEF Taking
    <3>3. CASE ~(i <= done)
      <4> HIDE DEF done, l, first
      <4>1. i - done \in 1 .. l /\ first + done + (i - done) = first + i
        BY <2>a, <3>3
      <4>2. AtPlace(x2[s[i - done]], first + i)
        BY <4>1, <2>6
      <4> QED BY <2>7, <2>8, <3>3, <4>1, <4>2
    <3> QED BY <3>2, <3>3
  <2>12. /\ x7'.segs \in Seq(Seq(0 .. Depth - 1)) /\ Len(x7'.segs) = Len(x7.segs) - 1
         /\ (Len(x7.segs) = 2 => x7'.segs[1] = x7.segs[2]) /\ (Len(x7.segs) = 1 => x7'.segs = <<>>)
    <3>1. x7'.segs = Tail(x7.segs)
      BY <1>2
    <3>2. Tail(x7.segs) \in Seq(Seq(0 .. Depth - 1)) /\ Len(Tail(x7.segs)) = Len(x7.segs) - 1
      BY <2>3, <1>1, HeadTailProperties
    <3>3. Len(x7.segs) = 2 => Tail(x7.segs)[1] = x7.segs[2]
      BY <2>3, <1>1
    <3>4. Len(x7.segs) = 1 => Tail(x7.segs) = <<>>
      <4>1. Len(x7.segs) = 1 => Len(Tail(x7.segs)) = 0
        BY <3>2
      <4> QED BY <3>2, <4>1, EmptySeq
    <3> QED BY <3>1, <3>2, <3>3, <3>4
  <2>13. T = Len(x7'.out) + Unread(x7'.segs)
    <3>1. CASE Len(x7.segs) = 1
      <4>1. Unread(x7'.segs) = 0
        BY <2>12, <3>1 DEF Unread
      <4>2. todo = l /\ Len(x7'.out) = done + l
        BY <2>b, <2>8, <3>1
      <4> HIDE DEF done, l
      <4> QED BY <2>a, <2>d, <4>1, <4>2
    <3>2. CASE Len(x7.segs) = 2
      <4>1. x7'.segs # <<>> /\ Len(x7'.segs) = 1 /\ Len(x7.segs[2]) \in Nat
        BY <2>c, <2>12, <3>2
      <4>2. Unread(x7'.segs) = Len(x7.segs[2])
        BY <2>12, <3>2, <4>1 DEF Unread
      <4>3. todo = l + Len(x7.segs[2])
        BY <2>b, <3>2
      <4>4. Len(x7'.out) = done + l
        BY <2>8
      <4> HIDE DEF done, l
      <4>5. \A a, b, c \in Nat : a + (b + c) = (a + b) + c
        OBVIOUS
      <4>6. done + (l + Len(x7.segs[2])) = (done + l) + Len(x7.segs[2])
        BY <2>a, <4>1, <4>5
      <4> QED BY <2>d, <4>2, <4>3, <4>4, <4>6
    <3> QED BY <2>3, <3>1, <3>2
  <2>14. x7'.segs # <<>> =>
           (\A i \in 1 .. Len(x7.segs[1]) : Place(x7.segs[1][i], x7.end - T + Len(x7.out) + i))'
    <3>1. SUFFICES ASSUME Len(x7.segs) = 2, NEW i \in 1 .. Len(x7.segs[2])
                   PROVE  Place(x7.segs[2][i], first + (done + l) + i)
      BY <1>2, <2>3, <2>8, <2>10, <2>12
    <3>2. Place(x7.segs[2][i], first + done + l + i)
      BY <2>2, <3>1 DEF Taking
    <3>3. i \in Int
      BY <2>c, <3>1
    <3>4. first + (done + l) + i = first + done + l + i
      <4> HIDE DEF first, done, l
      <4> QED BY <2>a, <3>3
    <3> QED BY <3>2, <3>4
  <2>15. EnoughIs(Cap!Least(T, x7.cut))' /\ x7'.cut \in Nat
    BY <1>1, <1>2, <2>2 DEF Taking, EnoughIs, Cap!Least
  <2>16. Len(x7'.segs) \in {0, 1} /\ x7'.end \in Nat /\ x7'.end <= x4' /\ (x7'.end <= x7'.n \/ x7'.n > Depth)
    BY <1>1, <1>2, <2>3, <2>5, <2>12
  <2>17. Taking(T)'
    <3>1. Len(x7'.segs) <= 2 /\ ~(Len(x7'.segs) = 2)
      <4>1. PICK z \in {0, 1} : z = Len(x7'.segs)
        BY <2>16
      <4>2. z <= 2 /\ ~(z = 2)
        OBVIOUS
      <4> QED BY <4>1, <4>2
    <3>2. x7'.out \in Seq(Bytes) /\ x7'.segs \in Seq(Seq(0 .. Depth - 1))
      BY <2>8, <2>12
    <3> HIDE DEF done, l, first
    <3> QED BY <2>11, <2>13, <2>14, <2>15, <2>16, <3>1, <3>2 DEF Taking
  <2>18. Asking' /\ Counted'
    BY <1>1, <1>2, <2>1 DEF Asking, Counted, Cap!Least
  <2> QED BY <1>1, <1>2, <2>1, <2>17, <2>18 DEF Undisturbed
<1> QED BY <1>1, <1>2, <1>3, DumpGoes

\* The counter is read: it decides how much is held and which blocks follow.
LEMMA DumpBytesKeeps == ASSUME CapInv, Cap!DumpBytes PROVE CapInv'
<1> DEFINE counter == IF x1.kind = "uram" THEN x3 ELSE x4
           held == Cap!Least(counter, Depth)
           n == Cap!Least(held, x7.cap)
           pc == IF n = 0 THEN "done"
                 ELSE IF x1.kind = "ddr" THEN "stat"
                 ELSE IF x7.kind = "tail" \/ counter > Depth THEN "beats" ELSE "blocks"
<1>1. /\ x7.pc = "bytes" /\ UNCHANGED <<x1, x2, x3, x4, x5, x6>>
      /\ x7' = [x7 EXCEPT !.n = counter, !.held = held, !.end = counter, !.pc = pc,
          !.segs = IF x7.kind = "dump" THEN <<Cap!Seg(0, held)>> ELSE <<>>, !.cut = n]
  BY DEF Cap!DumpBytes, Cap!recording
<1>2. /\ DOMAIN x7' = DumpFields /\ x7'.n = counter /\ x7'.held = held /\ x7'.end = counter
      /\ x7'.pc = pc /\ x7'.cut = n /\ x7'.kind = x7.kind /\ x7'.cap = x7.cap /\ x7'.out = x7.out
      /\ x7'.segs = (IF x7.kind = "dump" THEN <<Cap!Seg(0, held)>> ELSE <<>>)
      /\ x7'.spoilt = x7.spoilt
  BY <1>1, DumpHas DEF CapInv
<1>3. ASSUME Judged PROVE Undisturbed'
  <2>1. Asking /\ ~x1.demo /\ x7.out = <<>> /\ Board /\ Recorded
    BY <1>1, <1>3 DEF CapInv, Judged, Undisturbed, Recorded
  <2>2. /\ x3 \in Nat /\ x4 \in Nat /\ x3 <= x4 /\ Depth \in Nat /\ x7.cap \in Nat
        /\ x1.kind \in {"uram", "ddr"} /\ x7.kind \in {"dump", "tail"}
        /\ (x1.kind = "ddr" => x3 = x4) /\ (x7.kind = "tail" => x1.kind = "uram")
    BY <2>1, SizesFit DEF Recorded, Board, Asking
  <2>3. counter = x3
    BY <2>2
  <2> HIDE DEF counter
  <2>4. held \in Nat /\ held <= counter /\ n \in Nat /\ n <= held
    <3>1. held \in Nat /\ held <= counter
      BY <2>2, <2>3, LeastIs
    <3> HIDE DEF held
    <3> QED BY <2>2, <3>1, LeastIs
  <2>5. n > 0 => Counted'
    BY <1>1, <1>2, <2>1, <2>2, <2>3, <2>4 DEF Counted
  <2>6. Asking'
    BY <1>1, <1>2, <2>1 DEF Asking
  <2>7. ASSUME n = 0 PROVE Answered' /\ x7'.pc = "done"
    <3>1. x7'.pc = "done" /\ Len(x7'.out) = 0 /\ x7'.out \in Seq(Bytes) /\ x7'.end \in Nat
      BY <1>2, <2>1, <2>2, <2>3, <2>7
    <3>2. EnoughIs(Len(x7.out))'
      BY <1>2, <2>7, <3>1 DEF EnoughIs
    <3> QED BY <3>1, <3>2 DEF Answered
  <2>8. ASSUME n > 0, pc = "blocks" PROVE \E T \in Nat : Taking(T)'
    <3>1. x1.kind = "uram" /\ x7.kind = "dump" /\ counter <= Depth
      BY <2>2, <2>3, <2>4, <2>8
    <3>2. held = counter
      BY <2>2, <2>3, <3>1 DEF Cap!Least
    <3>3. PICK h \in Nat : h = held
      BY <2>4
    <3>4. /\ x7'.segs = <<Cap!Seg(0, h)>> /\ x7'.out = <<>> /\ x7'.end = h /\ x7'.n = h
          /\ x7'.held = h /\ x7'.cut = n /\ n \in Nat /\ n <= h
      BY <1>2, <2>1, <2>4, <3>1, <3>2, <3>3
    <3>5. EnoughIs(Cap!Least(h + 0, x7.cut))'
      <4>1. Cap!Least(h + 0, n) = n
        BY <3>3, <3>4 DEF Cap!Least
      <4>2. x7'.cap = x7.cap /\ n = Cap!Least(h, x7.cap)
        BY <1>2, <3>3
      <4> QED BY <3>4, <4>1, <4>2 DEF EnoughIs
    <3>6. Same(0, h - (h + 0))
      <4>1. h - (h + 0) = 0
        OBVIOUS
      <4> QED BY <4>1, SameIs
    <3>7. 0 + h <= Depth /\ 0 + h <= x4 /\ h >= h + 0 /\ 0 <= Depth /\ h <= x4
      BY <2>2, <2>3, <2>4, <3>1, <3>2, <3>3
    <3> HIDE DEF held, n
    <3>8. Taking(h + 0)'
      BY <1>1, <2>1, <3>4, <3>5, <3>6, <3>7, PiecesToTake
    <3> QED BY <3>8
  <2>9. pc \in {"done", "stat", "beats", "blocks"} /\ (n > 0 <=> pc # "done")
    BY <2>4
  <2>10. pc = "stat" => x1.kind = "ddr" /\ x7.kind = "dump"
    BY <2>2
  <2>11. pc = "beats" => x1.kind = "uram" /\ (x7.kind = "tail" \/ counter > Depth)
    BY <2>2
  <2> HIDE DEF pc, n, held
  <2>12. x7'.pc \in {"stat", "beats", "blocks"} => Counted'
    BY <1>2, <2>5, <2>9
  <2>13. x7'.pc = "done" => Answered'
    BY <1>2, <2>4, <2>7, <2>9
  <2>14. x7'.pc = "blocks" => \E T \in Nat : Taking(T)'
    BY <1>2, <2>8, <2>9
  <2>15. x7'.pc = "stat" => x1'.kind = "ddr" /\ x7'.kind = "dump"
    BY <1>1, <1>2, <2>10
  <2>16. x7'.pc = "beats" => x1'.kind = "uram" /\ (x7'.kind = "tail" \/ x7'.n > Depth)
    BY <1>1, <1>2, <2>11
  <2>17. ~x1'.demo /\ x7'.pc \in {"done", "stat", "beats", "blocks"}
    BY <1>1, <1>2, <2>1, <2>9
  <2> QED BY <2>6, <2>12, <2>13, <2>14, <2>15, <2>16, <2>17 DEF Undisturbed
<1> QED BY <1>1, <1>2, <1>3, DumpGoes

\* The words of the tail reach the end of the ring, or hold all of it.
LEMMA TailWindow ==
  ASSUME NEW start \in 0 .. Depth - 1, NEW n \in 1 .. Depth,
         NEW a0, a0 = start - (start % Beat),
         NEW n0, n0 = Cap!Least(n + (start - a0), Depth - a0),
         NEW words, words = ((n0 + Beat - 1) \div Beat) * Beat,
         NEW first, first = Cap!Least(n, words - (start - a0))
  PROVE  /\ first \in 1 .. n /\ start + first <= Depth /\ (first < n => start + first = Depth)
<1>1. Beat \in Nat \ {0} /\ Depth \in Nat \ {0} /\ start \in Nat /\ n \in Nat
  BY SizesFit
<1> DEFINE r0 == start % Beat
<1>2. r0 \in 0 .. Beat - 1 /\ Times(Beat, start - r0)
  <2>1. start \in Int
    BY <1>1
  <2>2. Times(Beat, start - (start % Beat))
    BY <1>1, <2>1, TimesMod
  <2>3. start % Beat \in 0 .. Beat - 1
    BY <1>1, <2>1, DivMod
  <2> QED BY <2>2, <2>3
<1>3. r0 <= start
  <2>1. start < Beat => start = r0
    <3>1. start - r0 > -Beat /\ start - r0 \in Int
      BY <1>1, <1>2
    <3>2. start < Beat => start - r0 < Beat
      BY <1>1, <1>2
    <3>3. start < Beat => start - r0 = 0
      BY <1>1, <1>2, <3>1, <3>2, TimesSmall
    <3> QED BY <1>1, <1>2, <3>3
  <2> QED BY <1>1, <1>2, <2>1
<1>4. a0 = start - r0
  OBVIOUS
<1> HIDE DEF r0
<1>5. a0 \in Nat /\ a0 <= start /\ start - a0 = r0 /\ r0 \in Nat /\ Times(Beat, a0)
  BY <1>1, <1>2, <1>3, <1>4
<1>6. Depth - a0 \in Nat /\ Depth - a0 > r0 /\ Times(Beat, Depth - a0)
  <2>1. Times(Beat, Depth - a0)
    BY <1>1, <1>5, SizesFit, TimesSum
  <2> QED BY <1>1, <1>5, <2>1
<1>7. n0 \in Nat /\ n0 <= Depth - a0 /\ n0 > r0 /\ (n0 = n + r0 \/ n0 = Depth - a0)
  <2> DEFINE w == n + r0
             e == Depth - a0
  <2>1. w \in Nat /\ w > r0 /\ n0 = Cap!Least(w, e)
    BY <1>1, <1>5
  <2>2. e \in Nat /\ e > r0
    BY <1>6
  <2> HIDE DEF w, e
  <2>3. n0 \in Nat /\ n0 <= e /\ (n0 = w \/ n0 = e)
    BY <2>1, <2>2, LeastIs
  <2>4. n0 > r0
    BY <2>1, <2>2, <2>3
  <2> QED BY <2>3, <2>4 DEF w, e
<1>8. words \in Int /\ words >= n0 /\ words <= n0 + Beat - 1 /\ Times(Beat, words)
  <2>1. words \in n0 .. n0 + Beat - 1 /\ Times(Beat, words)
    BY <1>1, <1>7, UpIs
  <2> QED BY <1>1, <1>7, <2>1
<1>9. words <= Depth - a0
  <2>1. Times(Beat, words - (Depth - a0)) /\ words - (Depth - a0) \in Int
    <3>1. Beat \in Int /\ words \in Int /\ Depth - a0 \in Int
      BY <1>1, <1>6, <1>8
    <3> DEFINE e == Depth - a0
    <3>2. e \in Int /\ Times(Beat, e)
      BY <1>6, <3>1
    <3> HIDE DEF e
    <3>3. Times(Beat, words - e)
      BY <1>8, <3>1, <3>2, TimesSum
    <3> QED BY <3>1, <3>3 DEF e
  <2>2. words - (Depth - a0) < Beat
    BY <1>1, <1>6, <1>7, <1>8
  <2>3. words - (Depth - a0) > -Beat => words - (Depth - a0) = 0
    BY <1>1, <2>1, <2>2, TimesSmall
  <2> QED BY <1>1, <1>6, <1>8, <2>1, <2>2, <2>3
<1>10. first = Cap!Least(n, words - r0) /\ words - r0 \in Nat /\ words - r0 > 0
  BY SMTT(30), <1>1, <1>5, <1>7, <1>8
<1>11. first \in Nat /\ first <= n /\ first <= words - r0 /\ (first = n \/ first = words - r0)
  <2> DEFINE w == words - r0
  <2>1. w \in Nat /\ first = Cap!Least(n, w)
    BY <1>10
  <2> HIDE DEF w
  <2>2. first \in Nat /\ first <= n /\ first <= w /\ (first = n \/ first = w)
    BY ONLY <1>1, <2>1, LeastIs
  <2> QED BY <2>2 DEF w
<1>12. first >= 1
  BY <1>1, <1>10, <1>11
<1>13. start + first <= Depth
  BY <1>1, <1>5, <1>6, <1>8, <1>9, <1>11
<1>14. ASSUME first < n PROVE start + first = Depth
  <2>1. first = words - r0 /\ n0 = Depth - a0
    BY <1>1, <1>5, <1>7, <1>8, <1>11, <1>14
  <2>2. words = Depth - a0
    <3> DEFINE e == Depth - a0
    <3>1. words <= e \/ words = e
      BY <1>9
    <3>2. words >= e /\ words \in Int /\ e \in Int
      BY <1>6, <1>8, <2>1
    <3> HIDE DEF e
    <3>3. words = e
      BY ONLY <3>1, <3>2, Squeeze
    <3> QED BY <3>3 DEF e
  <2> QED BY ONLY <1>1, <1>5, <2>1, <2>2
<1> QED BY <1>1, <1>11, <1>12, <1>13, <1>14

\* The write position is read, and the ring is unrolled from there.
LEMMA DumpBeatsKeeps == ASSUME CapInv, Cap!DumpBeats PROVE CapInv'
<1> DEFINE wr == Cap!WritePos
           start == IF x7.n > Depth THEN (wr - x7.cut) % Depth ELSE x7.held - x7.cut
           a0 == start - (start % Beat)
           n0 == Cap!Least(x7.cut + (start - a0), Depth - a0)
           words == ((n0 + Beat - 1) \div Beat) * Beat
           first == Cap!Least(x7.cut, words - (start - a0))
           segs == IF x7.kind = "dump" THEN <<Cap!Seg(wr, Depth - wr), Cap!Seg(0, wr)>>
                   ELSE <<Cap!Seg(start, first), Cap!Seg(0, x7.cut - first)>>
           end == IF x7.n > Depth THEN x4 ELSE x7.end
<1>1. /\ x7.pc = "beats" /\ UNCHANGED <<x1, x2, x3, x4, x5, x6>>
      /\ x7' = [x7 EXCEPT !.pc = "blocks", !.end = end, !.segs = segs]
  BY DEF Cap!DumpBeats, Cap!recording
<1>2. /\ DOMAIN x7' = DumpFields /\ x7'.pc = "blocks" /\ x7'.end = end /\ x7'.segs = segs
      /\ x7'.n = x7.n /\ x7'.held = x7.held /\ x7'.cut = x7.cut /\ x7'.kind = x7.kind
      /\ x7'.cap = x7.cap /\ x7'.out = x7.out /\ x7'.spoilt = x7.spoilt
  BY <1>1, DumpHas DEF CapInv
<1>3. ASSUME Judged PROVE Undisturbed'
  <2>1. Asking /\ ~x1.demo /\ Counted /\ Board /\ Recorded /\ x1.kind = "uram"
        /\ (x7.kind = "tail" \/ x7.n > Depth)
    BY <1>1, <1>3 DEF CapInv, Judged, Undisturbed, Recorded
  <2>2. /\ x3 \in Nat /\ x4 \in Nat /\ x3 <= x4 /\ Depth \in Nat \ {0} /\ Beat \in Nat \ {0}
        /\ x7.cap \in Nat /\ x7.n \in Nat /\ x7.n <= x3 /\ x7.held = Cap!Least(x7.n, Depth)
        /\ x7.end = x7.n /\ x7.cut = Cap!Least(x7.held, x7.cap) /\ x7.cut > 0 /\ x7.out = <<>>
        /\ Times(Beat, x4)
    BY <1>1, <2>1, SizesFit DEF Recorded, Board, Asking, Counted
  <2>3. x7.held \in Nat /\ x7.held <= x7.n /\ x7.held <= Depth /\ x7.cut \in Nat /\ x7.cut <= x7.held
        /\ (x7.n > Depth => x7.held = Depth) /\ (~(x7.n > Depth) => x7.held = x7.n)
    <3>1. x7.held \in Nat /\ x7.held <= x7.n /\ x7.held <= Depth
      <4>1. x7.n \in Nat /\ Depth \in Nat /\ x7.held = Cap!Least(x7.n, Depth)
        BY <2>2
      <4> QED BY <4>1, LeastIs
    <3>2. x7.cut \in Nat /\ x7.cut <= x7.held
      <4>1. x7.cut = Cap!Least(x7.held, x7.cap) /\ x7.cap \in Nat
        BY <2>2
      <4> QED BY <3>1, <4>1, LeastIs
    <3> QED BY <2>2, <3>1, <3>2 DEF Cap!Least
  <2>4. wr \in 0 .. Depth - Beat /\ Same(wr, x4)
    <3>1. x4 \in Nat /\ Times(Beat, x4)
      BY ONLY <2>2
    <3> QED BY <3>1, WritePosIs
  <2> HIDE DEF wr
  <2>5. CASE x7.kind = "dump"
    <3>1. x7.n > Depth /\ x7.held = Depth /\ x4 >= Depth /\ x3 > Depth
      BY <2>1, <2>2, <2>3, <2>5
    <3>2. PICK w \in Nat : w = wr
      BY <2>2, <2>4
    <3>3. PICK g \in Nat : g = x4
      BY <2>2
    <3>4. PICK c \in Nat : c = x7.cut
      BY <2>3
    <3>5. w <= Depth /\ Same(w, g)
      BY <2>2, <2>4, <3>2, <3>3
    <3>6. PICK d \in Nat : d = Depth - w
      BY <2>2, <3>5
    <3>7. w + d = Depth /\ d + w = Depth
      BY <2>2, <3>6
    <3>8. Same(w, g - (d + w))
      <4>1. Same(g - Depth, g) /\ g - Depth \in Int
        BY <2>2, SameDepth
      <4>2. Same(g, g - Depth)
        BY <4>1, SameIs
      <4> QED BY <3>5, <3>7, <4>1, <4>2, SameTrans
    <3>9. x7'.segs = <<Cap!Seg(w, d), Cap!Seg(0, w)>> /\ x7'.end = g /\ x7'.out = <<>> /\ x7'.cut = c
      BY <1>2, <2>2, <2>5, <3>1, <3>2, <3>3, <3>4, <3>6
    <3>10. EnoughIs(Cap!Least(d + w, x7.cut))'
      <4>1. Cap!Least(Depth, c) = c
        BY ONLY <2>2, <2>3, <3>4 DEF Cap!Least
      <4>2. c = Cap!Least(x7'.held, x7'.cap)
        BY ONLY <1>2, <2>2, <3>4
      <4> QED BY <3>7, <3>9, <4>1, <4>2 DEF EnoughIs
    <3>11. x7'.n > Depth /\ g <= x4
      BY <1>2, <2>2, <3>1, <3>3
    <3>12. Taking(d + w)'
      <4>1. w + d <= Depth /\ w <= Depth /\ (w > 0 => w + d = Depth)
        BY <2>2, <3>5, <3>7
      <4>2. Recorded /\ UNCHANGED <<x1, x2, x3, x4, x5, x6>>
        BY <1>1, <2>1
      <4>3. x7'.end \in Nat /\ x7'.end <= x4 /\ x7'.n > Depth /\ x7'.cut \in Nat
        <5>1. x7'.end = g /\ x7'.cut = c
          BY ONLY <3>9, Zenon
        <5> QED BY <3>11, <5>1
      <4> QED BY <3>1, <3>8, <3>9, <3>10, <4>1, <4>2, <4>3, PiecesToTake
    <3>13. Asking' /\ Counted'
      BY ZenonT(30), <1>1, <1>2, <2>1 DEF Asking, Counted, Cap!Least
    <3>14. d + w \in Nat
      OBVIOUS
    <3> QED BY ZenonT(30), <1>1, <1>2, <2>1, <3>12, <3>13, <3>14 DEF Undisturbed
  <2>6. CASE x7.kind # "dump"
    <3>1. x7.kind = "tail"
      BY <2>1, <2>6 DEF Asking
    <3>2. start \in 0 .. Depth - 1
      <4>1. CASE x7.n > Depth
        <5>1. wr - x7.cut \in Int
          BY <2>2, <2>3, <2>4
        <5> QED BY <2>2, <4>1, <5>1, DivMod
      <4>2. CASE ~(x7.n > Depth)
        BY <2>2, <2>3, <4>2
      <4> QED BY <4>1, <4>2
    <3>3. Same(start, end - x7.cut)
      <4>1. CASE x7.n > Depth
        <5>1. wr - x7.cut \in Int /\ x4 - x7.cut \in Int /\ wr \in Int /\ x4 \in Int /\ x7.cut \in Int
          BY <2>2, <2>3, <2>4
        <5>2. Same((wr - x7.cut) % Depth, wr - x7.cut)
          BY <5>1, SameIs
        <5>3. Same(x7.cut, x7.cut)
          BY <5>1, SameIs
        <5>4. Same(wr - x7.cut, x4 - x7.cut)
          BY <2>4, <5>1, <5>3, SameSum
        <5>5. (wr - x7.cut) % Depth \in Int
          BY <2>2, <3>2, <4>1
        <5> QED BY <4>1, <5>1, <5>2, <5>4, <5>5, SameTrans
      <4>2. CASE ~(x7.n > Depth)
        <5>1. end - x7.cut = start /\ start \in Int
          BY <2>2, <2>3, <4>2
        <5> QED BY <5>1, SameIs
      <4> QED BY <4>1, <4>2
    <3>4. PICK a \in 0 .. Depth - 1 : a = start
      BY <3>2
    <3>5. PICK c \in 1 .. Depth : c = x7.cut
      BY <2>2, <2>3
    <3>6. PICK k : k = first
      OBVIOUS
    <3> DEFINE b0 == a - (a % Beat)
               m0 == Cap!Least(c + (a - b0), Depth - b0)
               wo == ((m0 + Beat - 1) \div Beat) * Beat
    <3>7. k = Cap!Least(c, wo - (a - b0))
      BY <3>4, <3>5, <3>6
    <3>8. k \in 1 .. c /\ a + k <= Depth /\ (k < c => a + k = Depth)
      <4> HIDE DEF b0, m0, wo
      <4> QED BY <3>7, TailWindow DEF b0, m0, wo
    <3> HIDE DEF b0, m0, wo, start, first, end, a0, n0, words
    <3>9. PICK e \in Nat : e = end
      BY <2>2 DEF end
    <3>10. PICK l \in Nat : l = c - k
      BY <3>5, <3>8
    <3>11. a \in Nat /\ k \in Nat /\ c \in Nat /\ k + l = c /\ l <= Depth /\ (l > 0 => a + k = Depth)
      BY ONLY <2>2, <3>8, <3>10
    <3>12. x7'.segs = <<Cap!Seg(a, k), Cap!Seg(0, l)>> /\ x7'.end = e /\ x7'.out = <<>> /\ x7'.cut = c
      BY <1>2, <2>2, <3>1, <3>4, <3>5, <3>6, <3>9, <3>10
    <3>13. Same(a, e - (k + l))
      BY <3>3, <3>4, <3>5, <3>9, <3>11
    <3>14. e <= x4 /\ (e <= x7'.n \/ x7'.n > Depth) /\ (x4 >= Depth \/ (a + k <= x4 /\ l = 0))
           /\ (e >= k + l \/ x3 > Depth)
      <4>1. CASE x7.n > Depth
        BY <1>2, <2>2, <3>9, <4>1 DEF end
      <4>2. CASE ~(x7.n > Depth)
        <5>1. a = x7.n - c /\ e = x7.n /\ x7.n <= Depth
          BY <2>2, <2>3, <3>4, <3>5, <3>9, <4>2 DEF start, end
        <5>2. a + c = x7.n /\ c <= x7.n
          <6>1. x7.n \in Nat
            BY <2>2
          <6> QED BY <3>11, <5>1, <6>1
        <5>3. ~(k < c) \/ x7.n = Depth
          <6>1. ASSUME k < c PROVE x7.n = Depth
            <7>1. a + k = Depth /\ a + k < a + c
              BY <3>8, <3>11, <6>1
            <7>2. x7.n <= Depth /\ x7.n > Depth
              BY <5>1, <5>2, <7>1
            <7>3. x7.n \in Int /\ Depth \in Int
              BY <2>2
            <7> QED BY <7>2, <7>3
          <6> QED BY <6>1
        <5>4. x4 >= Depth \/ (a + k <= x4 /\ l = 0)
          <6>1. CASE x7.n = Depth
            BY <2>2, <6>1
          <6>2. CASE ~(k < c)
            <7>1. k = c
              BY <3>8, <3>11, <6>2
            <7>2. l = 0 /\ a + k <= x4
              BY <2>2, <3>10, <3>11, <5>2, <7>1
            <7> QED BY <7>2
          <6> QED BY <5>3, <6>1, <6>2
        <5>5. x7'.n = x7.n /\ e <= x7'.n /\ e <= x4
          <6>1. x7'.n = x7.n /\ x7.n <= x4
            BY <1>2, <2>2
          <6> QED BY <5>1, <6>1
        <5>6. e >= k + l
          BY <3>11, <5>1, <5>2
        <5> QED BY <5>4, <5>5, <5>6
      <4> QED BY <4>1, <4>2
    <3>15. EnoughIs(Cap!Least(k + l, x7.cut))'
      <4>1. Cap!Least(k + l, c) = c
        BY <3>11 DEF Cap!Least
      <4>2. c = Cap!Least(x7'.held, x7'.cap)
        BY <1>2, <2>2, <3>5
      <4> QED BY <3>12, <4>1, <4>2 DEF EnoughIs
    <3>16. Taking(k + l)'
      BY <1>1, <2>1, <3>8, <3>11, <3>12, <3>13, <3>14, <3>15, PiecesToTake
    <3>17. Asking' /\ Counted'
      BY <1>1, <1>2, <2>1 DEF Asking, Counted, Cap!Least
    <3>18. k + l \in Nat
      BY <3>11
    <3> QED BY <1>1, <1>2, <2>1, <3>16, <3>17, <3>18 DEF Undisturbed
  <2> QED BY <2>5, <2>6
<1> QED BY <1>1, <1>2, <1>3, DumpGoes

\* An address of a place: x % Depth.
LEMMA ModIs ==
  ASSUME NEW x \in Int
  PROVE  x % Depth \in 0 .. Depth - 1 /\ x % Depth \in Int /\ Same(x % Depth, x)
<1>1. Depth \in Nat \ {0}
  BY SizesFit
<1>2. x % Depth \in 0 .. Depth - 1
  BY <1>1, DivMod
<1>3. x % Depth \in Int
  BY <1>1, <1>2
<1>4. Same(x % Depth, x)
  BY ONLY SameIs
<1> QED BY <1>2, <1>3, <1>4

\* The capped window of a wrapped buffer: it ends at the write pointer and starts
\* at the edge of a burst.
LEMMA CappedWindow ==
  ASSUME NEW n \in Nat, NEW c \in Burst .. Depth - 1,
         NEW off, off = n % Depth,
         NEW start, start = Cap!RoundUp((off - c) % Depth) % Depth,
         NEW m, m = IF (off - start) % Depth = 0 THEN c ELSE (off - start) % Depth
  PROVE  /\ start \in 0 .. Depth - 1 /\ m \in 1 .. c /\ c - Burst < m
         /\ Same(start, n - m) /\ off \in 0 .. Depth - 1
<1>1. Depth \in Nat \ {0} /\ Burst \in Nat \ {0} /\ c \in Nat /\ c >= Burst /\ c < Depth
  BY SizesFit
<1>2. off \in 0 .. Depth - 1 /\ off \in Int /\ Same(off, n)
  <2>1. n \in Int
    OBVIOUS
  <2> QED BY <2>1, ModIs
<1> DEFINE s0 == (off - c) % Depth
           u == Cap!RoundUp(s0)
           d == u - s0
<1>3. s0 \in 0 .. Depth - 1 /\ s0 \in Nat /\ Same(s0, off - c)
  <2>1. off - c \in Int
    BY <1>1, <1>2
  <2>2. s0 \in 0 .. Depth - 1 /\ Same(s0, off - c)
    BY <2>1, ModIs
  <2> QED BY <1>1, <2>2
<1>4. start = u % Depth
  OBVIOUS
<1> HIDE DEF s0
<1>5. u \in s0 .. s0 + Burst - 1
  BY <1>3, RoundUpIs
<1> HIDE DEF u
<1>6. u \in Nat /\ d \in 0 .. Burst - 1 /\ u = s0 + d /\ d \in Nat
  BY <1>1, <1>3, <1>5
<1> HIDE DEF d
<1>7. start \in 0 .. Depth - 1 /\ start \in Int /\ Same(start, u)
  <2>1. u \in Int
    BY <1>6
  <2> QED BY <1>4, <2>1, ModIs
<1>8. c - d \in 1 .. Depth - 1 /\ c - d \in Int /\ c - d <= c /\ c - Burst < c - d
  BY <1>1, <1>6
<1>9. Same(start, off - (c - d))
  <2>1. Same(d, d)
    BY <1>6, SameIs
  <2>2. off - c \in Int /\ off - (c - d) = (off - c) + d /\ off - (c - d) \in Int
    BY <1>1, <1>2, <1>6
  <2>3. Same(s0 + d, (off - c) + d)
    BY <1>3, <1>6, <2>1, <2>2, SameSum
  <2> QED BY <1>6, <1>7, <2>2, <2>3, SameTrans
<1> DEFINE v == (off - start) % Depth
<1>10. v \in 0 .. Depth - 1 /\ v \in Int /\ Same(v, off - start) /\ off - start \in Int
  <2>1. off - start \in Int
    BY <1>2, <1>7
  <2> QED BY <2>1, ModIs
<1>11. v = c - d
  <2>1. Same(off, off) /\ off - (c - d) \in Int
    BY <1>2, <1>8, SameIs
  <2>2. Same(off - start, off - (off - (c - d)))
    BY <1>2, <1>7, <1>9, <2>1, SameSum
  <2>3. off - (off - (c - d)) = c - d
    BY <1>2, <1>8
  <2>4. Same(v, c - d)
    BY <1>8, <1>10, <2>2, <2>3, SameTrans
  <2>5. v - (c - d) < Depth /\ v - (c - d) > -Depth
    BY <1>1, <1>8, <1>10
  <2> QED BY <1>8, <1>10, <2>4, <2>5, SameIs
<1>12. m = c - d
  BY <1>8, <1>11
<1>13. Same(start, n - m)
  <2>1. Same(c - d, c - d) /\ off - (c - d) \in Int /\ n - (c - d) \in Int
    BY <1>2, <1>8, SameIs
  <2>2. Same(off - (c - d), n - (c - d))
    BY ONLY <1>2, <1>8, <2>1, SameSum
  <2> QED BY <1>7, <1>9, <1>12, <2>1, <2>2, SameTrans
<1> QED BY <1>2, <1>7, <1>8, <1>12, <1>13

\* SINK_STAT is read: the window of the DDR buffer, wrapped or not, capped or not.
LEMMA DumpStatKeeps == ASSUME CapInv, Cap!DumpStat PROVE CapInv'
<1> DEFINE off == x7.n % Depth
           n == x7.cut
           start == Cap!RoundUp((off - n) % Depth) % Depth
           m == IF (off - start) % Depth = 0 THEN n ELSE (off - start) % Depth
           from == Cap!RoundUp(x7.held - n)
           segs == IF x1.circ /\ x5
                   THEN IF n >= x7.held THEN <<Cap!Seg(off, Depth - off), Cap!Seg(0, off)>>
                        ELSE IF start + m <= Depth THEN <<Cap!Seg(start, m)>>
                        ELSE <<Cap!Seg(start, Depth - start), Cap!Seg(0, m - (Depth - start))>>
                   ELSE IF n >= x7.held THEN <<Cap!Seg(0, x7.held)>>
                        ELSE <<Cap!Seg(from, x7.held - from)>>
<1>1. /\ x7.pc = "stat" /\ UNCHANGED <<x1, x2, x3, x4, x5, x6>>
      /\ x7' = [x7 EXCEPT !.pc = "blocks", !.cut = Depth, !.segs = segs]
  BY DEF Cap!DumpStat, Cap!recording
<1>2. /\ DOMAIN x7' = DumpFields /\ x7'.pc = "blocks" /\ x7'.cut = Depth /\ x7'.segs = segs
      /\ x7'.n = x7.n /\ x7'.held = x7.held /\ x7'.end = x7.end /\ x7'.kind = x7.kind
      /\ x7'.cap = x7.cap /\ x7'.out = x7.out /\ x7'.spoilt = x7.spoilt
  BY <1>1, DumpHas DEF CapInv
<1>3. ASSUME Judged PROVE Undisturbed'
  <2>1. Asking /\ ~x1.demo /\ Counted /\ Board /\ Recorded /\ x1.kind = "ddr" /\ x7.kind = "dump"
    BY <1>1, <1>3 DEF CapInv, Judged, Undisturbed, Recorded
  <2>2. /\ x3 \in Nat /\ x4 \in Nat /\ x3 = x4 /\ Depth \in Nat \ {0} /\ Burst \in Nat \ {0}
        /\ x7.cap \in Nat /\ x7.n \in Nat /\ x7.n <= x4
        /\ x7.held = Cap!Least(x7.n, Depth)
        /\ x7.end = x7.n /\ n = Cap!Least(x7.held, x7.cap) /\ n > 0 /\ x7.out = <<>>
    BY <1>1, <2>1, SizesFit DEF Recorded, Board, Asking, Counted
  <2>0. x7.cap >= Burst
    BY <1>3, <2>1, <2>2 DEF Judged, ShortWindow
  <2>3. x7.held \in Nat /\ x7.held <= x7.n /\ x7.held <= Depth /\ (x7.held = x7.n \/ x7.held = Depth)
    <3>1. x7.n \in Nat /\ Depth \in Nat /\ x7.held = Cap!Least(x7.n, Depth)
      BY <2>2
    <3> QED BY <3>1, LeastIs
  <2>4. n \in Nat /\ n <= x7.held /\ (n < x7.held => n = x7.cap)
    <3>1. n = Cap!Least(x7.held, x7.cap) /\ x7.cap \in Nat
      BY <2>2
    <3> QED BY <2>3, <3>1, LeastIs
  <2>5. IF x1.circ /\ x5 THEN x4 >= Depth ELSE x4 <= Depth /\ x7.held = x7.n
    <3>1. CASE x1.circ /\ x5
      BY <2>1, <3>1 DEF Board
    <3>2. CASE ~(x1.circ /\ x5)
      <4>1. x4 <= Depth
        <5>1. (~x1.circ => x4 <= Depth) /\ (x5 <=> x1.circ /\ x4 >= Depth)
          BY <2>1 DEF Board
        <5>2. x4 \in Nat /\ Depth \in Nat
          BY <2>2
        <5>3. CASE ~x1.circ
          BY <5>1, <5>3
        <5>4. CASE x1.circ
          <6>1. ~(x4 >= Depth)
            BY ONLY <3>2, <5>1, <5>4
          <6> QED BY <5>2, <6>1
        <5> QED BY <5>3, <5>4
      <4> QED BY <2>2, <2>3, <3>2, <4>1
    <3> QED BY <3>1, <3>2
  \* Each of the windows is two pieces, the second of them maybe empty.
  <2>6. \E a, k, l \in Nat :
          /\ segs = <<Cap!Seg(a, k), Cap!Seg(0, l)>> \/ (l = 0 /\ segs = <<Cap!Seg(a, k)>>)
          /\ a + k <= Depth /\ l <= Depth /\ (l > 0 => a + k = Depth)
          /\ x4 >= Depth \/ (a + k <= x4 /\ l = 0)
          /\ Same(a, x7.n - (k + l))
          /\ k + l <= Depth /\ EnoughIs(k + l)
    <3>1. CASE x1.circ /\ x5 /\ n >= x7.held
      <4>1. off \in 0 .. Depth - 1 /\ Same(off, x7.n) /\ off \in Nat /\ Depth - off \in Nat
        <5>1. x7.n \in Int
          BY <2>2
        <5>2. off \in 0 .. Depth - 1 /\ Same(off, x7.n)
          BY <5>1, ModIs
        <5> QED BY <2>2, <5>2
      <4> HIDE DEF off
      <4>2. segs = <<Cap!Seg(off, Depth - off), Cap!Seg(0, off)>>
        BY <3>1
      <4>3. off + (Depth - off) = Depth /\ (Depth - off) + off = Depth
        BY <2>2, <4>1
      <4>4. Same(off, x7.n - Depth)
        <5>1. x7.n - Depth \in Int /\ x7.n \in Int /\ off \in Int
          BY <2>2, <4>1
        <5>2. Same(x7.n - Depth, x7.n)
          BY <5>1, SameDepth
        <5>3. Same(x7.n, x7.n - Depth)
          BY <5>1, <5>2, SameIs
        <5> QED BY <4>1, <5>1, <5>3, SameTrans
      <4>5. EnoughIs(Depth)
        <5>1. CASE x7.n < Depth
          BY <2>1, <3>1, <5>1 DEF EnoughIs
        <5>2. CASE ~(x7.n < Depth)
          <6>1. Cap!Least(x7.held, x7.cap) = Depth
            BY <2>2, <2>3, <2>4, <3>1, <5>2
          <6> QED BY <6>1 DEF EnoughIs
        <5> QED BY <5>1, <5>2
      <4>6. off <= Depth /\ x4 >= Depth
        BY <2>2, <2>5, <3>1, <4>1
      <4>7. PICK k \in Nat : k = Depth - off
        BY <4>1
      <4>8. off + k = Depth /\ k + off = Depth /\ off + k <= Depth /\ k + off <= Depth
        BY ONLY <2>2, <4>1, <4>7
      <4>9. segs = <<Cap!Seg(off, k), Cap!Seg(0, off)>>
        BY <4>2, <4>7
      <4>10. Same(off, x7.n - (k + off)) /\ EnoughIs(k + off)
        BY ONLY <4>4, <4>5, <4>8
      <4> HIDE DEF segs, n
      <4> QED BY <4>1, <4>6, <4>8, <4>9, <4>10
    <3>2. CASE x1.circ /\ x5 /\ ~(n >= x7.held)
      <4>1. n \in Burst .. Depth - 1 /\ n = x7.cap /\ x7.cap < x7.held /\ x4 >= Depth
        BY <2>0, <2>2, <2>3, <2>4, <2>5, <3>2
      <4>2. /\ start \in 0 .. Depth - 1 /\ m \in 1 .. n /\ n - Burst < m
            /\ Same(start, x7.n - m)
        <5>1. x7.n \in Nat /\ n \in Burst .. Depth - 1
          BY <2>2, <4>1
        <5> QED BY <5>1, CappedWindow
      <4> HIDE DEF start, m
      <4>3. EnoughIs(m) /\ m \in Nat /\ m <= Depth
        <5>1. m <= n /\ n = Cap!Least(x7.held, x7.cap) /\ m \in Nat /\ m <= Depth
          BY <2>2, <4>1, <4>2
        <5> QED BY <2>1, <4>1, <4>2, <5>1 DEF EnoughIs
      <4>4. CASE start + m <= Depth
        <5>1. segs = <<Cap!Seg(start, m)>>
          BY <3>2, <4>4
        <5>2. start \in Nat /\ m + 0 = m /\ 0 <= Depth
          BY <2>2, <4>2, <4>3
        <5>3. Same(start, x7.n - (m + 0)) /\ EnoughIs(m + 0) /\ start + m <= Depth /\ m + 0 <= Depth
          BY <4>2, <4>3, <4>4, <5>2
        <5>4. 0 \in Nat
          OBVIOUS
        <5>5. PICK w \in Nat, k \in Nat, l \in Nat : w = start /\ k = m /\ l = 0
          BY <4>3, <5>2, <5>4
        <5>6. l = 0 /\ segs = <<Cap!Seg(w, k)>>
          BY <5>1, <5>5
        <5>7. Same(w, x7.n - (k + l)) /\ EnoughIs(k + l) /\ w + k <= Depth /\ k + l <= Depth
          BY <5>3, <5>5
        <5>8. x4 >= Depth /\ l <= Depth /\ ~(l > 0)
          BY ONLY <4>1, <5>2, <5>5
        <5> HIDE DEF segs, n
        <5> QED BY <5>6, <5>7, <5>8
      <4>5. CASE ~(start + m <= Depth)
        <5> DEFINE k == Depth - start
                   l == m - k
        <5>1. segs = <<Cap!Seg(start, k), Cap!Seg(0, l)>>
          BY <3>2, <4>5
        <5>0. start \in 0 .. Depth - 1 /\ Depth \in Nat /\ m \in Nat /\ m <= Depth /\ start + m > Depth
          <6>1. start \in 0 .. Depth - 1 /\ Depth \in Nat /\ m \in Nat /\ m <= Depth
            BY <2>2, <4>2, <4>3
          <6> QED BY <6>1, <4>5
        <5>2. start \in Nat /\ k \in Nat /\ l \in Nat /\ k + l = m /\ start + k = Depth /\ l <= Depth
          BY <5>0
        <5> HIDE DEF k, l
        <5>3. Same(start, x7.n - (k + l)) /\ EnoughIs(k + l) /\ start + k <= Depth /\ k + l <= Depth
          BY ONLY SMTT(30), <2>2, <4>2, <4>3, <5>2
        <5> QED BY <4>1, <5>1, <5>2, <5>3
      <4> QED BY <4>4, <4>5
    <3>3. CASE ~(x1.circ /\ x5) /\ n >= x7.held
      <4>1. segs = <<Cap!Seg(0, x7.held)>>
        BY <3>3
      <4>2. x7.n - (x7.held + 0) = 0 /\ 0 + x7.held <= Depth /\ 0 + x7.held <= x4 /\ x7.held + 0 <= Depth
        BY <2>2, <2>3, <2>5, <3>3
      <4>3. Same(0, x7.n - (x7.held + 0))
        BY <4>2, SameIs
      <4>4. EnoughIs(x7.held + 0)
        <5>1. Cap!Least(x7.held, x7.cap) = x7.held + 0
          BY <2>2, <2>3, <2>4, <3>3
        <5> QED BY <5>1 DEF EnoughIs
      <4>5. PICK w, k, l \in Nat : w = 0 /\ k = x7.held /\ l = 0
        BY <2>3
      <4> HIDE DEF segs, n
      <4>6. segs = <<Cap!Seg(w, k)>> /\ Same(w, x7.n - (k + l)) /\ EnoughIs(k + l)
            /\ w + k <= Depth /\ w + k <= x4 /\ k + l <= Depth
        BY <4>1, <4>2, <4>3, <4>4, <4>5
      <4>7. l <= Depth /\ ~(l > 0)
        BY <2>2, <4>5
      <4> QED BY <4>5, <4>6, <4>7
    <3>4. CASE ~(x1.circ /\ x5) /\ ~(n >= x7.held)
      <4> DEFINE k == x7.held - from
      <4>1. segs = <<Cap!Seg(from, k)>>
        BY <3>4
      <4>2. n = x7.cap /\ n < x7.held /\ n >= Burst /\ x7.held - n \in Nat
        BY <2>0, <2>2, <2>3, <2>4, <3>4
      <4>3. from \in x7.held - n .. x7.held - n + Burst - 1
        BY <4>2, RoundUpIs
      <4> HIDE DEF from
      <4>4. from \in Nat /\ k \in Nat /\ from + k = x7.held /\ k <= n /\ n - Burst < k
        <5>1. x7.held \in Nat /\ n \in Nat /\ n <= x7.held /\ Burst \in Nat /\ from \in Int
          BY <2>2, <2>3, <2>4, <4>2, <4>3
        <5>2. from >= x7.held - n /\ from <= x7.held - n + Burst - 1
          BY <4>3
        <5>3. from <= x7.held
          BY <4>2, <5>1, <5>2
        <5> HIDE DEF n
        <5> QED BY <5>1, <5>2, <5>3
      <4> HIDE DEF k
      <4>5. x7.n - (k + 0) = from /\ from + k <= Depth /\ from + k <= x4 /\ k + 0 = k /\ k <= Depth
        BY <2>2, <2>3, <2>4, <2>5, <3>4, <4>4
      <4>6. Same(from, x7.n - (k + 0))
        <5>1. from \in Int
          BY <4>4
        <5> QED BY <4>5, <5>1, SameIs
      <4>7. EnoughIs(k + 0)
        <5>1. Cap!Least(x7.held, x7.cap) = n /\ x7.cap < x7.held
          BY <2>2, <4>2
        <5> QED BY <2>1, <4>4, <4>5, <5>1 DEF EnoughIs
      <4>8. PICK w, j, l \in Nat : w = from /\ j = k /\ l = 0
        BY <4>4
      <4> HIDE DEF segs, n
      <4>9. segs = <<Cap!Seg(w, j)>> /\ Same(w, x7.n - (j + l)) /\ EnoughIs(j + l)
            /\ w + j <= Depth /\ w + j <= x4 /\ j + l <= Depth
        BY <4>1, <4>5, <4>6, <4>7, <4>8
      <4>10. l <= Depth /\ ~(l > 0)
        BY <2>2, <4>8
      <4> QED BY <4>8, <4>9, <4>10
    <3> QED BY ZenonT(30), <3>1, <3>2, <3>3, <3>4
  <2> HIDE DEF segs, n
  <2>7. PICK a, k, l \in Nat :
          /\ segs = <<Cap!Seg(a, k), Cap!Seg(0, l)>> \/ (l = 0 /\ segs = <<Cap!Seg(a, k)>>)
          /\ a + k <= Depth /\ l <= Depth /\ (l > 0 => a + k = Depth)
          /\ x4 >= Depth \/ (a + k <= x4 /\ l = 0)
          /\ Same(a, x7.n - (k + l))
          /\ k + l <= Depth /\ EnoughIs(k + l)
    BY <2>6
  <2>8. PICK e \in Nat : e = x7.n
    BY <2>2
  <2>9. x7'.out = <<>> /\ x7'.end = e /\ x7'.n = e /\ e <= x4 /\ x7'.cut = Depth /\ Same(a, e - (k + l))
    BY <1>2, <2>2, <2>7, <2>8
  <2>10. EnoughIs(Cap!Least(k + l, x7.cut))'
    <3>1. Cap!Least(k + l, Depth) = k + l
      BY ONLY <2>2, <2>7 DEF Cap!Least
    <3> QED BY <1>1, <1>2, <2>7, <2>9, <3>1 DEF EnoughIs
  <2>11. \/ x7'.segs = <<Cap!Seg(a, k), Cap!Seg(0, l)>>
         \/ l = 0 /\ x7'.segs = <<Cap!Seg(a, k)>>
    BY <1>2, <2>7
  <2>12. Taking(k + l)'
    <3>1. Recorded /\ UNCHANGED <<x1, x2, x3, x4, x5, x6>> /\ x1.kind = "ddr"
      BY <1>1, <2>1
    <3>2. x7'.end \in Nat /\ x7'.end <= x4 /\ x7'.end <= x7'.n /\ x7'.cut \in Nat /\ x7'.out = <<>>
          /\ Same(a, x7'.end - (k + l))
      BY <2>2, <2>9
    <3>3. /\ a + k <= Depth /\ l <= Depth /\ (l > 0 => a + k = Depth)
          /\ x4 >= Depth \/ (a + k <= x4 /\ l = 0)
      BY <2>7
    <3> QED BY <2>10, <2>11, <3>1, <3>2, <3>3, PiecesToTake
  <2>13. Asking' /\ Counted'
    BY <1>1, <1>2, <2>1 DEF Asking, Counted, Cap!Least
  <2>14. k + l \in Nat
    OBVIOUS
  <2> QED BY ONLY <1>1, <1>2, <2>1, <2>12, <2>13, <2>14 DEF Undisturbed
<1> QED BY <1>1, <1>2, <1>3, DumpGoes

\* Every step keeps the invariant.
LEMMA CapNext == ASSUME CapInv, [Cap!Next]_(Cap!vars) PROVE CapInv'
<1>1. ASSUME NEW k \in 1 .. Beat, Cap!Record(k) PROVE CapInv'
  <2>1. x1' = x1 /\ x6' = x6 /\ x7' = x7
    BY <1>1 DEF Cap!Record
  <2>2. Recorded' /\ x3 = x4 /\ x3 <= x3' /\ x4 <= x4' /\ (x5 => x5')
    BY <1>1, RecordKeeps DEF CapInv
  <2> QED BY <2>1, <2>2, GrowsKeeps
<1>2. ASSUME NEW k \in 1 .. Depth, Cap!DemoTick(k) PROVE CapInv'
  <2>1. x1' = x1 /\ x6' = x6 /\ x7' = x7
    BY <1>2 DEF Cap!DemoTick
  <2>2. Recorded' /\ x3 = x4 /\ x3 <= x3' /\ x4 <= x4' /\ (x5 => x5')
    BY <1>2, DemoTickKeeps DEF CapInv
  <2> QED BY <2>1, <2>2, GrowsKeeps
<1>3. CASE Cap!Clear
  BY <1>3, ClearKeeps
<1>4. ASSUME NEW kind \in {"dump", "tail"}, NEW q \in Asked, Cap!Begin(kind, q) PROVE CapInv'
  BY <1>4, BeginKeeps
<1>5. CASE Cap!DumpDemo
  BY <1>5, DumpDemoKeeps
<1>6. CASE Cap!DumpBytes
  BY <1>6, DumpBytesKeeps
<1>7. CASE Cap!DumpBeats
  BY <1>7, DumpBeatsKeeps
<1>8. CASE Cap!DumpStat
  BY <1>8, DumpStatKeeps
<1>9. CASE Cap!DumpBlock
  BY <1>9, DumpBlockKeeps
<1>10. CASE Cap!DumpDone
  BY <1>10, DumpDoneKeeps
<1>11. CASE Cap!Answer
  BY <1>11, AnswerKeeps
<1>12. CASE UNCHANGED Cap!vars
  <2>1. UNCHANGED <<x1, x2, x3, x4, x5, x6>> /\ x7' = x7
    BY <1>12 DEF Cap!vars, Cap!recording
  <2>2. Recorded'
    BY <2>1, RequestKeepsRecord DEF CapInv
  <2>3. ASSUME NEW b, NEW due, AtPlace(b, due) PROVE AtPlace(b, due)'
    BY <2>1, <2>3 DEF AtPlace, Same, Times
  <2>4. ASSUME NEW a, NEW due, Place(a, due) PROVE Place(a, due)'
    BY <2>1, <2>4 DEF Place, Same, Times
  <2>5. ASSUME Undisturbed PROVE Undisturbed'
    <3>1. \A r : EnoughIs(r) => EnoughIs(r)'
      BY <2>1 DEF EnoughIs
    <3>2. (\E T \in Nat : Taking(T)) => \E T \in Nat : Taking(T)'
      BY ONLY <2>1, <2>3, <2>4, <3>1 DEF Taking
    <3>3. Answered => Answered'
      BY <2>1, <2>3, <3>1 DEF Answered
    <3> QED BY <2>1, <2>5, <3>2, <3>3 DEF Undisturbed, Asking, Counted
  <2> QED BY <2>1, <2>2, <2>5 DEF CapInv, Judged, ShortWindow, DumpFields
<1> QED BY <1>1, <1>2, <1>3, <1>4, <1>5, <1>6, <1>7, <1>8, <1>9, <1>10, <1>11, <1>12 DEF Cap!Next

\* Nothing but a request sets how much is asked for.
LongEnough == x7.cap \in Nat /\ (x7.pc # "idle" /\ x1.kind = "ddr" => x7.cap >= Burst)

\* Nothing makes the window shorter.
LEMMA LongEnoughKeeps ==
  ASSUME DOMAIN x7 = DumpFields, LongEnough, [Cap!Next]_(Cap!vars),
         \A q \in Asked : q = <<>> \/ q[1] = 0 \/ q[1] >= Burst
  PROVE  LongEnough'
<1>1. ASSUME NEW kind \in {"dump", "tail"}, NEW q \in Asked, Cap!Begin(kind, q) PROVE LongEnough'
  <2>1. /\ x7'.kind = kind
        /\ x7'.cap = (IF kind = "dump" THEN Cap!DumpCap(q) ELSE q[1])
        /\ x1' = x1 /\ (kind = "dump" \/ (x1.kind = "uram" /\ q # <<>>))
    BY <1>1 DEF Cap!Begin, Cap!NoDump, Cap!recording
  <2>2. CapDefault \in Nat /\ CapMax \in Nat /\ CapDefault >= Burst /\ CapMax >= Burst /\ Burst \in Nat
    BY CaptureAssumption
  <2>3. q = <<>> \/ (q[1] \in Nat /\ (q[1] = 0 \/ q[1] >= Burst))
    BY CaptureAssumption
  <2>4. Cap!DumpCap(q) >= Burst /\ Cap!DumpCap(q) \in Nat
    BY <2>2, <2>3 DEF Cap!DumpCap, Cap!Least
  <2> QED BY <2>1, <2>3, <2>4 DEF LongEnough
<1>2. CASE Cap!Answer
  BY <1>2 DEF Cap!Answer, Cap!NoDump, LongEnough
<1>3. CASE ~Cap!Answer /\ ~(\E kind \in {"dump", "tail"}, q \in Asked : Cap!Begin(kind, q))
  <2>1. x1' = x1 /\ x7'.cap = x7.cap /\ (x7.pc = "idle" => x7'.pc = "idle")
    BY <1>3, DumpHas DEF Cap!recording, Cap!Next, Cap!Record, Cap!DemoTick, Cap!Clear, Cap!DumpDemo, Cap!DumpBytes,
      Cap!DumpBeats, Cap!DumpStat, Cap!DumpBlock, Cap!DumpDone, Cap!vars
  <2> QED BY SMTT(30), <2>1 DEF LongEnough
<1> QED BY <1>1, <1>2, <1>3

\* Whatever the sink does between the accesses of a request (dump_bytes, trace_tail,
\* DemoBus.uram_dump), the answer is the newest part of one recording, in order:
\* for every size of beat, burst and buffer.  The one exception is a window of the
\* DDR buffer asked to be shorter than a burst.
THEOREM DumpIsNewestUnlessShort == SpecAll => [](part = "capture" /\ ~ShortWindow => Cap!DumpIsNewest)
<1> DEFINE Inv == part = "capture" => CapInv
<1>1. InitAll => Inv
  BY CapInit DEF InitAll
<1>2. Inv /\ [NextAll]_allVars => Inv'
  BY PartSteps, CapNext
<1>3. Inv => (part = "capture" /\ ~ShortWindow => Cap!DumpIsNewest)
  BY CapAnswers
<1> QED BY <1>1, <1>2, <1>3, PTL DEF SpecAll

\* Where no request asks for less than a burst (dump_cap_arg), every answer of
\* dump_bytes and trace_tail is the newest part of one recording.
THEOREM DumpIsNewestTheorem ==
  ASSUME \A q \in Asked : q = <<>> \/ q[1] = 0 \/ q[1] >= Burst
  PROVE  SpecAll => []DumpIsNewest
<1> DEFINE Inv == part = "capture" => CapInv /\ LongEnough
<1>0. Cap!Init => LongEnough
  BY DEF Cap!Init, Cap!NoDump, LongEnough
<1>1. InitAll => Inv
  BY <1>0, CapInit DEF InitAll
<1>2. Inv /\ [NextAll]_allVars => Inv'
  <2> SUFFICES ASSUME Inv, [NextAll]_allVars, part' = "capture" PROVE CapInv' /\ LongEnough'
    OBVIOUS
  <2>1. CapInv /\ LongEnough /\ [Cap!Next]_(Cap!vars)
    BY PartSteps
  <2>2. DOMAIN x7 = DumpFields
    BY <2>1 DEF CapInv
  <2> QED BY <2>1, <2>2, CapNext, LongEnoughKeeps
<1>3. Inv => DumpIsNewest
  <2> SUFFICES ASSUME CapInv, LongEnough, x7.pc = "done", ~x7.spoilt PROVE Cap!DumpIsNewest
    BY DEF DumpIsNewest, Cap!DumpIsNewest
  <2>1. x7.cap < Burst => ~(x7.cap >= Burst)
    <3>1. x7.cap \in Int /\ Burst \in Int
      BY CaptureAssumption DEF LongEnough
    <3> QED BY <3>1
  <2>2. ~ShortWindow
    BY <2>1 DEF ShortWindow, LongEnough
  <2> QED BY <2>2, CapAnswers
<1> QED BY <1>1, <1>2, <1>3, PTL DEF SpecAll

-----------------------------------------------------------------------------
(* Console: x1 ring, x2 bytes, x3 rptr, x4 era, x5 clr, x6 rec, x7 rx,     *)
(* x8 lostKeys, x9 th, x10 overlap, x11 pages, x12 found.                  *)

\* A character: its era, and its number since the clear that began the era.
Chars == Nat \X Int
ConFields == DOMAIN Con!Rest
RecFields == DOMAIN Con!NewRec
ConShape ==
  /\ x1 \in [0 .. ConBytes - 1 -> Chars] /\ x2 \in Nat /\ x4 \in Nat
  /\ x5 \in BOOLEAN /\ DOMAIN x6 = RecFields /\ x10 \in BOOLEAN /\ x12 \in Nat
  /\ DOMAIN x9 = Pollers \cup Typists /\ \A t \in Pollers \cup Typists : DOMAIN x9[t] = ConFields
\* The ring holds the last ConBytes characters.
RingHolds ==
  \A k \in 1 .. x2 : k > x2 - ConBytes => x1[(k - 1) % ConBytes] = <<x4, k>>
\* What of the characters h is to fetch has been read of the ring.
GotHolds(h) ==
  /\ h.got \in Seq(Chars) /\ h.new \in 1 .. ConBytes /\ h.total = x6.total + h.new
  /\ h.start = x6.total % ConBytes
  /\ \A i \in 1 .. Len(h.got), k \in x6.total + 1 .. h.total :
       (k - 1) % ConBytes = i - 1 => h.got[i] = <<x4, k>>
\* Where a poll stands that nothing overlaps.
PollStage(h) ==
  /\ h.total \in Nat /\ h.total <= x2 /\ x3 <= h.total
  /\ h.pc \in {"new", "read", "append", "rptr", "check"}
  /\ h.pc = "new" => h.got = <<>> /\ x6.total = x3
  /\ h.pc = "read" => GotHolds(h) /\ x6.total = x3 /\ Len(h.got) < Con!Needed(h)
  /\ h.pc = "append" => GotHolds(h) /\ x6.total = x3 /\ Len(h.got) = Con!Needed(h)
  /\ h.pc \in {"rptr", "check"} => x6.total = h.total
  /\ h.pc = "check" => x3 = h.total
RecHolds ==
  /\ x6.buf \in Seq(Chars) /\ x6.total \in Nat /\ x6.lost \in Nat /\ x6.head \in Nat
  /\ Con!Exact(x6)
\* Nothing has overlapped, and the server did not start on a ring in use.
Undoubted ==
  /\ RingHolds
  /\ x3 \in 0 .. x2 /\ x2 - x3 <= ConBytes
  /\ x5 => x3 = 0 /\ Con!Polling = {}
  /\ ~x5 => RecHolds /\ (Con!Polling = {} => x6.total = x3)
  /\ \A p, q \in Con!Polling : p = q
  /\ \A p \in Con!Polling : PollStage(x9[p])
\* A character may come of every typist that has looked at the fill level.
Putting == {x \in Typists : x9[x].pc = "put"}
KeysFit == x7 \in Nat /\ x8 = 0 /\ x7 + Cardinality(Putting) <= RxLimit + Cardinality(Typists)
ConInv == ConShape /\ KeysFit /\ (~x10 /\ x12 = 0 => Undoubted)

-----------------------------------------------------------------------------
\* Equal remainders are a multiple apart, and the other way round.
LEMMA ModSame ==
  ASSUME NEW x \in Int, NEW y \in Int, NEW d \in Nat \ {0}
  PROVE  x % d = y % d <=> Times(d, x - y)
<1>1. x % d \in 0 .. d - 1 /\ y % d \in 0 .. d - 1
  BY DivMod
<1>2. x - (x % d) \in Int /\ y - (y % d) \in Int /\ x % d \in Int /\ y % d \in Int /\ d \in Int
  BY <1>1
<1>3. Times(d, x - (x % d)) /\ Times(d, y - (y % d))
  BY TimesMod
<1>4. Times(d, (x - (x % d)) - (y - (y % d)))
  BY <1>2, <1>3, TimesSum
<1>5. ASSUME x % d = y % d PROVE Times(d, x - y)
  <2>1. (x - (x % d)) - (y - (y % d)) = x - y
    BY <1>2, <1>5
  <2> QED BY <1>4, <2>1
<1>6. ASSUME Times(d, x - y) PROVE x % d = y % d
  <2>1. x - y \in Int /\ (x - (x % d)) - (y - (y % d)) \in Int
    BY <1>2
  <2>2. Times(d, (x - y) - ((x - (x % d)) - (y - (y % d))))
    BY <1>2, <1>4, <1>6, <2>1, TimesSum
  <2>3. (x - y) - ((x - (x % d)) - (y - (y % d))) = (x % d) - (y % d)
    BY <1>2
  <2>4. (x % d) - (y % d) \in Int /\ (x % d) - (y % d) > -d /\ (x % d) - (y % d) < d
    BY <1>1
  <2>5. (x % d) - (y % d) = 0
    BY <2>2, <2>3, <2>4, TimesSmall
  <2> QED BY <1>2, <2>5
<1> QED BY <1>5, <1>6

\* Less than a lap apart, two numbers have different places.
LEMMA ModApart ==
  ASSUME NEW x \in Int, NEW y \in Int, NEW d \in Nat \ {0}, x < y, y - x < d
  PROVE  x % d # y % d
<1>1. y - x \in Int /\ y - x > -d /\ y - x # 0
  OBVIOUS
<1>2. ~Times(d, y - x)
  BY <1>1, TimesSmall
<1> QED BY <1>2, ModSame

\* A remainder counts on like the number.
LEMMA ModOn ==
  ASSUME NEW x \in Int, NEW y \in Int, NEW d \in Nat \ {0}
  PROVE  ((x % d) + y) % d = (x + y) % d
<1>1. x % d \in Int
  BY DivMod
<1>2. (x % d) + y \in Int /\ x + y \in Int /\ (x + y) - ((x % d) + y) = x - (x % d)
  BY <1>1
<1>3. Times(d, (x + y) - ((x % d) + y))
  BY <1>2, TimesMod
<1> QED BY <1>2, <1>3, ModSame

\* The sizes of the console.
LEMMA ConSizes ==
  /\ ConBytes \in Nat \ {0} /\ MaxBuf \in Nat /\ RxBytes \in Nat /\ RxLimit \in Nat
  /\ MaxChars \in Nat /\ Pollers \cap Typists = {} /\ IsFiniteSet(Typists) /\ Cardinality(Typists) \in Nat
  /\ RxLimit + Cardinality(Typists) <= RxBytes
BY ConsoleAssumption, FS_CardinalityType

\* Fields of a thread and of the recorder.
LEMMA ConHas ==
  /\ ConFields = {"pc", "total", "new", "start", "got", "sent"}
  /\ RecFields = {"buf", "total", "head", "lost", "ok"}
BY DEF ConFields, RecFields, Con!Rest, Con!NewRec

\* Below d a number is its own remainder.
LEMMA ModOwn == ASSUME NEW d \in Nat \ {0}, NEW x \in 0 .. d - 1 PROVE x % d = x
OBVIOUS

\* A place in the ring.
LEMMA ConMod == ASSUME NEW x \in Int PROVE x % ConBytes \in 0 .. ConBytes - 1
BY ConSizes, DivMod

\* At the start nothing has been recorded; a ring found full is of an earlier server.
LEMMA ConInit == ASSUME Con!Init PROVE ConInv
<1>1. /\ x2 \in 0 .. MaxChars /\ x12 = x2 /\ x3 \in 0 .. x2 /\ x2 - x3 <= ConBytes
      /\ x4 = 0 /\ x5 = FALSE /\ x6 = Con!NewRec /\ x7 = 0 /\ x8 = 0 /\ x10 = FALSE
      /\ x9 = [t \in Pollers \cup Typists |-> Con!Rest]
      /\ x1 = [i \in 0 .. ConBytes - 1 |->
                 <<0, IF i < x12 THEN x12 - ((x12 - 1 - i) % ConBytes) ELSE 0>>]
  BY ConSizes DEF Con!Init
<1>2. x1 \in [0 .. ConBytes - 1 -> Chars]
  <2>1. \A i \in 0 .. ConBytes - 1 : (x12 - 1 - i) % ConBytes \in Int
    BY <1>1, ConsoleAssumption, ConSizes, DivMod
  <2> QED BY <1>1, <2>1, ConsoleAssumption DEF Chars
<1>3. ConShape
  <2>1. x2 \in Nat /\ x4 \in Nat /\ x12 \in Nat /\ x5 \in BOOLEAN /\ x10 \in BOOLEAN
    <3>1. x2 \in Nat
      BY <1>1, ConSizes
    <3>3. x5 \in BOOLEAN /\ x10 \in BOOLEAN
      BY <1>1
    <3>4. x4 \in Nat /\ x12 \in Nat
      BY <1>1, <3>1
    <3> QED BY <3>1, <3>3, <3>4
  <2>2. DOMAIN x6 = RecFields
    BY <1>1 DEF RecFields
  <2>3. DOMAIN x9 = Pollers \cup Typists /\ \A t \in Pollers \cup Typists : DOMAIN x9[t] = ConFields
    BY <1>1 DEF ConFields
  <2> QED BY <1>2, <2>1, <2>2, <2>3 DEF ConShape
<1>4. Putting = {} /\ Con!Polling = {}
  BY <1>1 DEF Putting, Con!Polling, Con!Rest
<1>5. KeysFit
  BY <1>1, <1>4, ConSizes, FS_EmptySet DEF KeysFit
<1>6. ASSUME x12 = 0 PROVE Undoubted
  <2>1. x2 = 0 /\ x3 = 0
    BY <1>1, <1>6
  <2>2. RecHolds
    BY <1>1 DEF RecHolds, Con!Exact, Con!NewRec
  <2> QED BY <1>1, <1>4, <2>1, <2>2, ConSizes DEF Undoubted, RingHolds, Con!NewRec
<1> QED BY <1>3, <1>5, <1>6 DEF ConInv

\* A step that no poll notices.
LEMMA ConQuiet ==
  ASSUME Undoubted, UNCHANGED <<x1, x2, x3, x4, x5, x6>>, \A p \in Pollers : x9'[p] = x9[p]
  PROVE  Undoubted'
<1>1. Con!Polling' = Con!Polling
  BY DEF Con!Polling
<1>2. \A h : PollStage(h) => PollStage(h)'
  BY DEF PollStage, GotHolds, Con!Needed
<1>3. \A p \in Con!Polling : x9'[p] = x9[p]
  BY DEF Con!Polling
<1>4. \A p \in Con!Polling' : PollStage(x9[p])'
  BY <1>1, <1>2, <1>3 DEF Undoubted
<1>5. RingHolds' /\ (~x5' => RecHolds')
  BY DEF Undoubted, RingHolds, RecHolds, Con!Exact
<1> QED BY <1>1, <1>4, <1>5 DEF Undoubted

\* One thread moves.
LEMMA ConGo ==
  ASSUME ConShape, NEW t \in Pollers \cup Typists, NEW n, Con!Go(t, n), DOMAIN n = ConFields
  PROVE  /\ DOMAIN x9' = Pollers \cup Typists /\ x9'[t] = n
         /\ \A u \in Pollers \cup Typists : u # t => x9'[u] = x9[u]
         /\ \A u \in Pollers \cup Typists : DOMAIN x9'[u] = ConFields
BY DEF ConShape, Con!Go

\* Between its look at the fill level and its character a typist is counted, so
\* that every character that is put finds room.
LEMMA TypingKeeps ==
  ASSUME ConInv, NEW x \in Typists, Con!TypeBegin(x) \/ Con!TypeLevel(x) \/ Con!TypeChar(x)
  PROVE  ConInv'
<1>1. PICK n : Con!Go(x, n) /\ DOMAIN n = ConFields
              /\ UNCHANGED <<x1, x2, x3, x4, x5, x6, x10, x11, x12>>
              /\ \/ n.pc # "put" /\ UNCHANGED <<x7, x8>>
                 \/ x9[x].pc # "put" /\ n.pc = "put" /\ x7 < RxLimit /\ UNCHANGED <<x7, x8>>
                 \/ /\ x9[x].pc = "put" /\ n.pc # "put"
                    /\ IF x7 = RxBytes THEN x8' = 1 /\ UNCHANGED x7 ELSE x7' = x7 + 1 /\ UNCHANGED x8
  <2>0. DOMAIN x9[x] = ConFields /\ "pc" \in ConFields /\ "sent" \in ConFields /\ DOMAIN Con!Rest = ConFields
    BY ConHas DEF ConInv, ConShape, ConFields
  <2>1. CASE Con!TypeBegin(x)
    <3>1. DOMAIN [Con!Rest EXCEPT !.pc = "level"] = ConFields /\ [Con!Rest EXCEPT !.pc = "level"].pc = "level"
      BY DEF ConFields, Con!Rest
    <3> QED BY <2>1, <3>1 DEF Con!TypeBegin, Con!guest
  <2>2. CASE Con!TypeLevel(x) /\ x7 >= RxLimit
    <3>1. Con!Rest.pc = "idle"
      BY DEF Con!Rest
    <3> QED BY <2>0, <2>2, <3>1 DEF Con!TypeLevel, Con!guest
  <2>3. CASE Con!TypeLevel(x) /\ ~(x7 >= RxLimit)
    <3> DEFINE n == [x9[x] EXCEPT !.pc = "put"]
    <3>1. DOMAIN n = ConFields /\ n.pc = "put"
      BY <2>0
    <3>2. Con!Go(x, n) /\ x9[x].pc # "put" /\ UNCHANGED <<x1, x2, x3, x4, x5, x6, x7, x8, x10, x11, x12>>
      BY <2>3 DEF Con!TypeLevel, Con!guest
    <3>3. x7 < RxLimit
      BY <2>3, ConSizes DEF ConInv, KeysFit
    <3> QED BY <3>1, <3>2, <3>3
  <2>4. CASE Con!TypeChar(x)
    <3> DEFINE n == IF x9[x].sent + 1 = Typed THEN Con!Rest
                    ELSE [x9[x] EXCEPT !.pc = "level", !.sent = @ + 1]
    <3>1. DOMAIN n = ConFields /\ n.pc # "put"
      BY <2>0 DEF Con!Rest
    <3>2. Con!Go(x, n) /\ x9[x].pc = "put" /\ UNCHANGED <<x1, x2, x3, x4, x5, x6, x10, x11, x12>>
          /\ IF x7 = RxBytes THEN x8' = 1 /\ UNCHANGED x7 ELSE x7' = x7 + 1 /\ UNCHANGED x8
      BY <2>4 DEF Con!TypeChar, Con!guest
    <3> QED BY <3>1, <3>2
  <2> QED BY <2>1, <2>2, <2>3, <2>4
<1>2. /\ DOMAIN x9' = Pollers \cup Typists /\ x9'[x] = n
      /\ \A u \in Pollers \cup Typists : u # x => x9'[u] = x9[u]
      /\ \A u \in Pollers \cup Typists : DOMAIN x9'[u] = ConFields
  BY <1>1, ConGo DEF ConInv
<1>3. ConShape'
  BY <1>1, <1>2 DEF ConInv, ConShape
<1>4. \A p \in Pollers : x9'[p] = x9[p]
  BY <1>2, ConSizes
<1>5. ~x10' /\ x12' = 0 => Undoubted'
  BY <1>1, <1>4, ConQuiet DEF ConInv
<1>6. KeysFit'
  <2>1. Putting \subseteq Typists /\ IsFiniteSet(Typists) /\ Putting' \subseteq Typists
    BY ConSizes DEF Putting
  <2>2. /\ IsFiniteSet(Putting) /\ Cardinality(Putting) \in Nat /\ Cardinality(Putting) <= Cardinality(Typists)
        /\ IsFiniteSet(Putting') /\ Cardinality(Putting') \in Nat /\ Cardinality(Putting') <= Cardinality(Typists)
    BY <2>1, FS_Subset, FS_CardinalityType
  <2>3. x7 \in Nat /\ x8 = 0 /\ x7 + Cardinality(Putting) <= RxLimit + Cardinality(Typists)
    BY DEF ConInv, KeysFit
  <2>4. CASE n.pc # "put" /\ UNCHANGED <<x7, x8>>
    <3>1. Putting' \subseteq Putting
      BY <1>2, <2>4 DEF Putting
    <3>2. Cardinality(Putting') <= Cardinality(Putting)
      BY <2>2, <3>1, FS_Subset
    <3> QED BY <2>2, <2>3, <2>4, <3>2, ConSizes DEF KeysFit
  <2>5. CASE x7 < RxLimit /\ UNCHANGED <<x7, x8>>
    BY <2>2, <2>3, <2>5, ConSizes DEF KeysFit
  <2>6. CASE /\ x9[x].pc = "put" /\ n.pc # "put"
             /\ IF x7 = RxBytes THEN x8' = 1 /\ UNCHANGED x7 ELSE x7' = x7 + 1 /\ UNCHANGED x8
    <3>1. x \in Putting /\ Putting' = Putting \ {x}
      BY <1>2, <2>6 DEF Putting
    <3>2. Cardinality(Putting') = Cardinality(Putting) - 1
      BY <2>2, <3>1, FS_RemoveElement
    <3>3. Cardinality(Putting) >= 1
      BY <2>2, <3>2
    <3>4. x7 # RxBytes
      BY <2>2, <2>3, <3>1, <3>2, <3>3, ConSizes
    <3> QED BY ONLY <2>2, <2>3, <2>6, <3>2, <3>4, ConSizes DEF KeysFit
  <2> QED BY <1>1, <2>4, <2>5, <2>6
<1> QED BY <1>3, <1>5, <1>6 DEF ConInv

\* A step of a poller that no other poll or con_clear has overlapped.
LEMMA PollGoes ==
  ASSUME ConInv, NEW p \in Pollers, NEW n, DOMAIN n = ConFields, Con!Go(p, n),
         UNCHANGED <<x1, x2, x4, x5, x7, x8, x12>>,
         x10' \in BOOLEAN, DOMAIN x6' = RecFields,
         ~x10' /\ x12 = 0 =>
           /\ Undoubted /\ ~x5 /\ Con!Polling \subseteq {p}
           /\ RecHolds' /\ x3' \in 0 .. x2 /\ x2 - x3' <= ConBytes
           /\ n.pc = "idle" => x6'.total = x3'
           /\ n.pc # "idle" => PollStage(n)'
  PROVE  ConInv'
<1>1. /\ DOMAIN x9' = Pollers \cup Typists /\ x9'[p] = n
      /\ \A u \in Pollers \cup Typists : u # p => x9'[u] = x9[u]
      /\ \A u \in Pollers \cup Typists : DOMAIN x9'[u] = ConFields
  BY ConGo DEF ConInv
<1>2. ConShape'
  BY <1>1 DEF ConInv, ConShape
<1>3. KeysFit'
  <2>1. \A x \in Typists : x9'[x] = x9[x]
    BY <1>1, ConSizes
  <2>2. Putting' = Putting
    BY <2>1 DEF Putting
  <2> QED BY <2>2 DEF ConInv, KeysFit
<1>4. ASSUME ~x10', x12' = 0 PROVE Undoubted'
  <2>1. /\ Undoubted /\ ~x5 /\ Con!Polling \subseteq {p}
        /\ RecHolds' /\ x3' \in 0 .. x2 /\ x2 - x3' <= ConBytes
        /\ n.pc = "idle" => x6'.total = x3'
        /\ n.pc # "idle" => PollStage(n)'
    BY <1>4
  <2>2. Con!Polling' \subseteq {p} /\ (p \in Con!Polling' <=> n.pc # "idle")
    BY <1>1, <2>1 DEF Con!Polling
  <2>3. RingHolds'
    BY <2>1 DEF Undoubted, RingHolds
  <2>4. \A q \in Con!Polling' : PollStage(x9[q])'
    <3>1. CASE n.pc = "idle"
      BY <2>2, <3>1
    <3>2. CASE n.pc # "idle"
      <4>1. PollStage(n)'
        BY <2>1, <3>2
      <4> SUFFICES ASSUME NEW q \in Con!Polling' PROVE PollStage(x9[q])'
        OBVIOUS
      <4>2. x9'[q] = n
        BY <1>1, <2>2
      <4>3. GotHolds(n)' => GotHolds(x9[q])'
        BY <4>2 DEF GotHolds
      <4> QED BY <4>1, <4>2, <4>3 DEF PollStage, Con!Needed
    <3> QED BY <3>1, <3>2
  <2> QED BY <2>1, <2>2, <2>3, <2>4 DEF Undoubted
<1> QED BY <1>2, <1>3, <1>4 DEF ConInv

\* A poll under way that nothing overlaps is the only one, and stands somewhere.
LEMMA PollAlone ==
  ASSUME Undoubted, NEW p \in Pollers, x9[p].pc # "idle"
  PROVE  /\ Con!Polling \subseteq {p} /\ ~x5 /\ PollStage(x9[p]) /\ RecHolds /\ RingHolds
         /\ x3 \in 0 .. x2 /\ x2 - x3 <= ConBytes
BY DEF Undoubted, Con!Polling

\* A poll reads how far the guest has printed.
LEMMA PollTotalKeeps ==
  ASSUME ConInv, NEW p \in Pollers, Con!PollTotal(p) PROVE ConInv'
<1>1. PICK n : n = [Con!Rest EXCEPT !.pc = "new", !.total = x2]
  OBVIOUS
<1>2. DOMAIN n = ConFields /\ n.pc = "new" /\ n.total = x2 /\ n.got = <<>>
  BY <1>1 DEF ConFields, Con!Rest
<1>3. /\ Con!Go(p, n) /\ x10' = (x10 \/ Con!Polling # {} \/ x5)
      /\ UNCHANGED <<x1, x2, x3, x4, x5, x6, x7, x8, x11, x12>>
  BY <1>1 DEF Con!PollTotal, Con!guest
<1>4. x10' \in BOOLEAN /\ DOMAIN x6' = RecFields /\ x2 \in Nat
  BY <1>3 DEF ConInv, ConShape
<1>5. ASSUME ~x10', x12 = 0
      PROVE  /\ Undoubted /\ ~x5 /\ Con!Polling \subseteq {p}
             /\ RecHolds' /\ x3' \in 0 .. x2 /\ x2 - x3' <= ConBytes
             /\ PollStage(n)'
  <2>1. Undoubted /\ ~x5 /\ Con!Polling = {}
    BY <1>3, <1>5 DEF ConInv
  <2>2. RecHolds /\ x6.total = x3 /\ x3 \in 0 .. x2 /\ x2 - x3 <= ConBytes
    BY <2>1 DEF Undoubted
  <2>3. RecHolds'
    BY <1>3, <2>2 DEF RecHolds, Con!Exact
  <2>4. PollStage(n)'
    BY <1>2, <1>3, <1>4, <2>2 DEF PollStage
  <2> QED BY <1>3, <2>1, <2>2, <2>3, <2>4
<1> QED BY <1>2, <1>3, <1>4, <1>5, PollGoes

\* No more than a ring is new: the guest stops at the acknowledged character.
LEMMA PollNewKeeps ==
  ASSUME ConInv, NEW p \in Pollers, Con!PollNew(p) PROVE ConInv'
<1> DEFINE h == x9[p]
           base == IF h.total < x6.total THEN [x6 EXCEPT !.buf = <<>>, !.total = 0] ELSE x6
           new == h.total - base.total
           take == IF new > ConBytes THEN ConBytes ELSE new
           next == IF new = 0 THEN [h EXCEPT !.pc = "rptr"]
                   ELSE [h EXCEPT !.pc = "read", !.new = take, !.start = (h.total - take) % ConBytes]
<1>1. PICK n : n = next
  <2> HIDE DEF next
  <2> QED OBVIOUS
<1>2. /\ h.pc = "new" /\ Con!Go(p, n) /\ x6' = [base EXCEPT !.lost = @ + new - take]
      /\ UNCHANGED <<x1, x2, x3, x4, x5, x7, x8, x10, x11, x12>>
  BY <1>1 DEF Con!PollNew, Con!guest
<1>3. DOMAIN h = ConFields /\ DOMAIN x6 = RecFields
  BY DEF ConInv, ConShape
<1>4. DOMAIN n = ConFields /\ DOMAIN x6' = RecFields
  BY <1>1, <1>2, <1>3
<1>5. x10' \in BOOLEAN
  BY <1>2 DEF ConInv, ConShape
<1>6. ASSUME ~x10', x12 = 0
      PROVE  /\ Undoubted /\ ~x5 /\ Con!Polling \subseteq {p}
             /\ RecHolds' /\ x3' \in 0 .. x2 /\ x2 - x3' <= ConBytes
             /\ n.pc # "idle" /\ PollStage(n)'
  <2>1. Undoubted /\ h.pc # "idle"
    BY <1>2, <1>6 DEF ConInv
  <2>2. /\ Con!Polling \subseteq {p} /\ ~x5 /\ PollStage(h) /\ RecHolds
        /\ x3 \in 0 .. x2 /\ x2 - x3 <= ConBytes
    BY <2>1, PollAlone
  <2>3. /\ h.total \in Nat /\ h.total <= x2 /\ x3 <= h.total /\ h.got = <<>> /\ x6.total = x3
        /\ x2 \in Nat /\ x3 \in Nat
    BY <1>2, <2>2 DEF PollStage, ConInv, ConShape
  <2>4. base = x6 /\ new = h.total - x6.total /\ new \in Nat /\ new <= ConBytes /\ take = new
    <3>1. ~(h.total < x6.total)
      BY <2>3
    <3>2. base = x6
      BY <3>1
    <3>3. new = h.total - x3
      BY <2>3, <3>2
    <3> HIDE DEF new, base
    <3>4. new \in Nat /\ new <= ConBytes
      BY ONLY SMTT(30), <2>2, <2>3, <3>3, ConSizes
    <3>5. take = new
      BY <3>4, ConSizes
    <3> QED BY <2>3, <3>2, <3>3, <3>4, <3>5
  <2>5. x6' = [x6 EXCEPT !.lost = @ + new - take] /\ x6.lost \in Nat
    BY <1>2, <2>2, <2>4 DEF RecHolds
  <2>6. /\ x6'.buf = x6.buf /\ x6'.total = x6.total /\ x6'.head = x6.head /\ x6'.lost = x6.lost
    BY <1>3, <2>4, <2>5, ConHas
  <2>7. RecHolds'
    BY <1>2, <2>2, <2>6 DEF RecHolds, Con!Exact
  <2>8. PollStage(n)'
    <3>1. CASE new = 0
      <4>1. n.pc = "rptr" /\ n.total = h.total
        BY <1>1, <1>3, <3>1, ConHas
      <4>2. x6'.total = n.total
        BY ONLY <2>3, <2>4, <2>6, <3>1, <4>1
      <4> QED BY <1>2, <2>3, <2>6, <4>1, <4>2 DEF PollStage
    <3>2. CASE new # 0
      <4>1. /\ n.pc = "read" /\ n.total = h.total /\ n.new = new /\ n.got = <<>>
            /\ n.start = (h.total - new) % ConBytes
        BY <1>1, <1>3, <2>3, <2>4, <3>2, ConHas
      <4>2. h.total - new = x6.total /\ n.total = x6.total + n.new /\ n.new \in 1 .. ConBytes
        BY ONLY SMTT(30), <2>3, <2>4, <3>2, <4>1, ConSizes
      <4>3. GotHolds(n)'
        BY <1>2, <2>6, <4>1, <4>2 DEF GotHolds
      <4>4. Len(n.got) < Con!Needed(n)
        <5>1. n.start \in Nat /\ Len(n.got) = 0
          BY <2>3, <4>1, <4>2, ConSizes, DivMod
        <5> QED BY <4>2, <5>1, ConSizes DEF Con!Needed
      <4> QED BY ONLY <1>2, <2>3, <2>6, <4>1, <4>3, <4>4 DEF PollStage, Con!Needed
    <3> QED BY <3>1, <3>2
  <2>9. n.pc # "idle"
    BY <1>1, <1>3, ConHas
  <2> QED BY <1>2, <2>1, <2>2, <2>7, <2>8, <2>9
<1> QED BY <1>2, <1>4, <1>5, <1>6, PollGoes

\* A character of the ring that is to be fetched is still there when it is read.
LEMMA PollReadKeeps ==
  ASSUME ConInv, NEW p \in Pollers, Con!PollRead(p) PROVE ConInv'
<1> DEFINE h == x9[p]
           got == Append(h.got, x1[Len(h.got)])
<1>1. PICK n : n = [h EXCEPT !.got = got, !.pc = IF Len(got) = Con!Needed(h) THEN "append" ELSE @]
  OBVIOUS
<1>2. /\ h.pc = "read" /\ Con!Go(p, n)
      /\ UNCHANGED <<x1, x2, x3, x4, x5, x6, x7, x8, x10, x11, x12>>
  BY <1>1 DEF Con!PollRead, Con!guest
<1>3. DOMAIN h = ConFields /\ DOMAIN x6' = RecFields /\ x10' \in BOOLEAN
      /\ x1 \in [0 .. ConBytes - 1 -> Chars] /\ x2 \in Nat
  BY <1>2 DEF ConInv, ConShape
<1>4. DOMAIN n = ConFields
  BY <1>1, <1>3
<1>5. ASSUME ~x10', x12 = 0
      PROVE  /\ Undoubted /\ ~x5 /\ Con!Polling \subseteq {p}
             /\ RecHolds' /\ x3' \in 0 .. x2 /\ x2 - x3' <= ConBytes
             /\ n.pc # "idle" /\ PollStage(n)'
  <2>1. Undoubted /\ h.pc # "idle"
    BY <1>2, <1>5 DEF ConInv
  <2>2. /\ Con!Polling \subseteq {p} /\ ~x5 /\ PollStage(h) /\ RecHolds /\ RingHolds
        /\ x3 \in 0 .. x2 /\ x2 - x3 <= ConBytes
    BY <2>1, PollAlone
  <2>3. /\ h.total \in Nat /\ h.total <= x2 /\ x3 <= h.total /\ x6.total = x3
        /\ GotHolds(h) /\ Len(h.got) < Con!Needed(h)
    BY <1>2, <2>2 DEF PollStage
  <2>4. h.got \in Seq(Chars) /\ Len(h.got) \in 0 .. ConBytes - 1
    <3>1. h.got \in Seq(Chars) /\ h.new \in 1 .. ConBytes /\ h.start = x6.total % ConBytes
      BY <2>3 DEF GotHolds
    <3>2. x6.total \in Int /\ Len(h.got) \in Nat
      BY <2>2, <3>1 DEF RecHolds
    <3>3. h.start \in Nat
      <4>1. x6.total % ConBytes \in 0 .. ConBytes - 1
        BY <3>2, ConMod
      <4> QED BY <3>1, <4>1, ConSizes
    <3> QED BY ONLY SMTT(30), <2>3, <3>1, <3>2, <3>3, ConSizes DEF Con!Needed
  <2>5. /\ got \in Seq(Chars) /\ Len(got) = Len(h.got) + 1 /\ got[Len(got)] = x1[Len(h.got)]
        /\ \A i \in 1 .. Len(h.got) : got[i] = h.got[i]
    BY <1>3, <2>4
  <2>6. /\ n.got = got /\ n.new = h.new /\ n.total = h.total /\ n.start = h.start
        /\ n.pc = IF Len(got) = Con!Needed(h) THEN "append" ELSE "read"
    BY <1>1, <1>2, <1>3, ConHas
  <2>7. ASSUME NEW i \in 1 .. Len(got), NEW k \in x6.total + 1 .. h.total, (k - 1) % ConBytes = i - 1
        PROVE  got[i] = <<x4, k>>
    <3>1. CASE i \in 1 .. Len(h.got)
      BY <2>3, <2>5, <2>7, <3>1 DEF GotHolds
    <3>2. CASE i = Len(h.got) + 1
      <4>1. got[i] = x1[(k - 1) % ConBytes]
        BY <2>4, <2>5, <2>7, <3>2
      <4>2. k \in 1 .. x2 /\ k > x2 - ConBytes
        BY ONLY SMTT(30), <1>2, <1>3, <2>2, <2>3, ConSizes
      <4> QED BY <2>2, <4>1, <4>2 DEF RingHolds
    <3> QED BY <2>4, <2>5, <3>1, <3>2
  <2>8. GotHolds(n)'
    <3>1. h.new \in 1 .. ConBytes /\ h.total = x6.total + h.new /\ h.start = x6.total % ConBytes
      BY ONLY <2>3 DEF GotHolds
    <3>2. \A i \in 1 .. Len(n.got), k \in x6.total + 1 .. n.total :
            (k - 1) % ConBytes = i - 1 => n.got[i] = <<x4, k>>
      BY <2>6, <2>7
    <3>3. n.got \in Seq(Chars) /\ n.new \in 1 .. ConBytes /\ n.total = x6.total + n.new
          /\ n.start = x6.total % ConBytes
      BY <2>5, <2>6, <3>1
    <3>4. x6' = x6 /\ x4' = x4
      BY <1>2
    <3> HIDE DEF got
    <3> QED BY <3>2, <3>3, <3>4 DEF GotHolds
  <2>9. Con!Needed(n) = Con!Needed(h) /\ Con!Needed(h) \in Int
    <3>1. h.start \in Int /\ h.new \in Int
      <4>1. h.start = x6.total % ConBytes /\ h.new \in 1 .. ConBytes
        BY <2>3 DEF GotHolds
      <4>2. x6.total \in Int
        BY <2>2 DEF RecHolds
      <4> QED BY ONLY <4>1, <4>2, ConMod, ConSizes
    <3> QED BY <2>6, <3>1, ConSizes DEF Con!Needed
  <2>10. /\ n.pc = "read" => Len(n.got) < Con!Needed(n)
         /\ n.pc = "append" => Len(n.got) = Con!Needed(n)
         /\ n.pc \in {"read", "append"}
    BY <2>3, <2>4, <2>5, <2>6, <2>9
  <2>11. PollStage(n)'
    BY <1>2, <2>3, <2>6, <2>8, <2>10 DEF PollStage, Con!Needed
  <2>12. RecHolds'
    BY <1>2, <2>2 DEF RecHolds, Con!Exact
  <2> QED BY <1>2, <2>1, <2>2, <2>10, <2>11, <2>12
<1> QED BY <1>2, <1>3, <1>4, <1>5, PollGoes

\* The new characters, cut out of what was read, come in order and without a gap.
LEMMA PieceInOrder ==
  ASSUME NEW h, GotHolds(h), Len(h.got) = Con!Needed(h), x6.total \in Nat
  PROVE  /\ Con!Piece(h) \in Seq(Chars) /\ Len(Con!Piece(h)) = h.new /\ h.new \in Nat
         /\ \A i \in 1 .. h.new : Con!Piece(h)[i] = <<x4, x6.total + i>>
<1>1. h.got \in Seq(Chars) /\ h.new \in 1 .. ConBytes /\ h.start = x6.total % ConBytes
      /\ h.total = x6.total + h.new
  BY DEF GotHolds
<1>2. h.start \in 0 .. ConBytes - 1 /\ h.new \in Nat
  <2>1. PICK x \in Int : x = x6.total
    OBVIOUS
  <2>2. x % ConBytes \in 0 .. ConBytes - 1
    BY ConMod
  <2> QED BY <1>1, <2>1, <2>2, ConSizes
<1>3. ASSUME NEW i \in 1 .. h.new
      PROVE  LET j == ((h.start + i - 1) % ConBytes) + 1
             IN  j \in 1 .. Len(h.got) /\ h.got[j] = <<x4, x6.total + i>>
  <2> DEFINE m == (h.start + i - 1) % ConBytes
  <2>1. h.start + i - 1 \in Int /\ i - 1 \in Int /\ h.start + i - 1 = h.start + (i - 1)
        /\ x6.total + (i - 1) = (x6.total + i) - 1
    BY <1>1, <1>2
  <2>2. m \in 0 .. ConBytes - 1
    BY <2>1, ConMod
  <2>3. m = ((x6.total + i) - 1) % ConBytes
    <3>1. ((x6.total % ConBytes) + (i - 1)) % ConBytes = (x6.total + (i - 1)) % ConBytes
      <4> DEFINE y == i - 1
      <4>1. y \in Int /\ x6.total \in Int /\ ConBytes \in Nat \ {0}
        BY <2>1, ConSizes
      <4> HIDE DEF y
      <4>2. ((x6.total % ConBytes) + y) % ConBytes = (x6.total + y) % ConBytes
        BY <4>1, ModOn
      <4> QED BY <4>2 DEF y
    <3> QED BY <1>1, <2>1, <3>1
  <2>4. m + 1 \in 1 .. Len(h.got)
    <3>1. CASE h.start + h.new < ConBytes
      <4>0. Len(h.got) = h.start + h.new
        BY <3>1 DEF Con!Needed
      <4>1. h.start + i - 1 \in 0 .. ConBytes - 1 /\ h.start + i - 1 < h.start + h.new
        BY ONLY <1>2, <3>1, ConSizes
      <4>2. m = h.start + i - 1
        BY <4>1, ConSizes, ModOwn
      <4>3. m + 1 \in 1 .. h.start + h.new
        <5>1. h.start \in Nat /\ h.new \in Nat /\ m \in Nat /\ m < h.start + h.new
          BY <1>2, <2>2, <4>1, <4>2
        <5> HIDE DEF m
        <5> QED BY <5>1
      <4> QED BY <4>0, <4>3
    <3>2. CASE ~(h.start + h.new < ConBytes)
      <4>1. Len(h.got) = ConBytes
        BY <3>2 DEF Con!Needed
      <4> QED BY <2>2, <4>1, ConSizes
    <3> QED BY <3>1, <3>2
  <2>5. x6.total + i \in x6.total + 1 .. h.total /\ m = (m + 1) - 1
    BY SMTT(30), <1>1, <1>2, <2>2
  <2>6. h.got[m + 1] = <<x4, x6.total + i>>
    BY <2>3, <2>4, <2>5 DEF GotHolds
  <2> QED BY <2>4, <2>6
<1>4. Con!Piece(h) = [i \in 1 .. h.new |-> h.got[((h.start + i - 1) % ConBytes) + 1]]
  BY ONLY DEF Con!Piece
<1>5. \A i \in 1 .. h.new : Con!Piece(h)[i] = <<x4, x6.total + i>> /\ Con!Piece(h)[i] \in Chars
  <2> TAKE i \in 1 .. h.new
  <2> DEFINE j == ((h.start + i - 1) % ConBytes) + 1
  <2>1. j \in 1 .. Len(h.got) /\ h.got[j] = <<x4, x6.total + i>>
    BY <1>3
  <2>2. Con!Piece(h)[i] = h.got[j]
    BY <1>4
  <2> HIDE DEF j
  <2>3. h.got[j] \in Chars
    BY ONLY <1>1, <2>1, ElementOfSeq
  <2> QED BY ONLY <2>1, <2>2, <2>3
<1>6. Con!Piece(h) \in [1 .. h.new -> Chars]
  BY <1>4, <1>5
<1> QED BY <1>2, <1>5, <1>6

\* Appending them and trimming what is too long keeps the record exact.
LEMMA AppendIsExact ==
  ASSUME RecHolds, NEW h, GotHolds(h), Len(h.got) = Con!Needed(h), UNCHANGED x4,
         DOMAIN x6 = RecFields, NEW cut \in Nat,
         cut <= Len(x6.buf \o Con!Piece(h)),
         x6' = [x6 EXCEPT !.buf = SubSeq(x6.buf \o Con!Piece(h), cut + 1, Len(x6.buf \o Con!Piece(h))),
                          !.head = @ + cut, !.total = h.total]
  PROVE  RecHolds' /\ x6'.total = h.total /\ DOMAIN x6' = RecFields
<1> DEFINE piece == Con!Piece(h)
           all == x6.buf \o piece
           rest == SubSeq(all, cut + 1, Len(all))
<1>1. /\ x6.buf \in Seq(Chars) /\ x6.total \in Nat /\ x6.lost \in Nat /\ x6.head \in Nat
      /\ \A i \in DOMAIN x6.buf : x6.buf[i] = <<x4, x6.total - Len(x6.buf) + i>>
      /\ x6.total = x6.lost + x6.head + Len(x6.buf)
  BY DEF RecHolds, Con!Exact
<1>2. /\ piece \in Seq(Chars) /\ Len(piece) = h.new /\ h.new \in Nat
      /\ \A i \in 1 .. h.new : piece[i] = <<x4, x6.total + i>>
  BY <1>1, PieceInOrder
<1>3. h.total = x6.total + h.new
  BY DEF GotHolds
<1>4. /\ all \in Seq(Chars) /\ Len(all) = Len(x6.buf) + h.new
      /\ \A i \in 1 .. Len(all) : all[i] = IF i <= Len(x6.buf) THEN x6.buf[i] ELSE piece[i - Len(x6.buf)]
  <2> HIDE DEF piece
  <2>1. x6.buf \in Seq(Chars) /\ piece \in Seq(Chars) /\ Len(piece) = h.new
    BY <1>1, <1>2
  <2> QED BY ONLY <2>1, ConcatProperties
<1>5. \A i \in 1 .. Len(all) : all[i] = <<x4, h.total - Len(all) + i>>
  <2> HIDE DEF piece, all
  <2>1. /\ Len(x6.buf) \in Nat /\ h.new \in Nat /\ x6.total \in Nat /\ h.total = x6.total + h.new
        /\ Len(all) = Len(x6.buf) + h.new
    BY <1>1, <1>2, <1>3, <1>4
  <2> TAKE i \in 1 .. Len(all)
  <2>2. i \in Nat /\ i >= 1 /\ i <= Len(x6.buf) + h.new
    BY <2>1
  <2>3. x6.total - Len(x6.buf) + i = h.total - Len(all) + i
    <3>1. h.total - Len(all) = x6.total - Len(x6.buf)
      BY ONLY <2>1
    <3> QED BY <3>1
  <2>4. CASE i <= Len(x6.buf)
    <3>1. i \in DOMAIN x6.buf
      BY <1>1, <2>2, <2>4
    <3>2. all[i] = x6.buf[i]
      BY <1>4, <2>4
    <3> QED BY <1>1, <2>3, <3>1, <3>2
  <2>5. CASE ~(i <= Len(x6.buf))
    <3>1. i - Len(x6.buf) \in 1 .. h.new
      BY ONLY <2>1, <2>2, <2>5
    <3>2. all[i] = <<x4, x6.total + (i - Len(x6.buf))>>
      BY <1>2, <1>4, <2>5, <3>1
    <3>3. x6.total + (i - Len(x6.buf)) = x6.total - Len(x6.buf) + i
      BY <2>1, <2>2
    <3> QED BY <2>3, <3>2, <3>3
  <2> QED BY <2>4, <2>5
<1>6. cut <= Len(all) /\ Len(all) \in Nat
  BY <1>1, <1>2, <1>4
<1>7. /\ rest \in Seq(Chars) /\ Len(rest) = Len(all) - cut
      /\ \A i \in 1 .. Len(rest) : rest[i] = all[cut + i]
  <2> HIDE DEF all
  <2> QED BY ONLY <1>4, <1>6
<1>8. x6'.buf = rest /\ x6'.head = x6.head + cut /\ x6'.total = h.total /\ x6'.lost = x6.lost
      /\ DOMAIN x6' = RecFields
  BY ConHas
<1> HIDE DEF rest, all, piece
<1>9. \A i \in 1 .. Len(rest) : rest[i] = <<x4, h.total - Len(rest) + i>>
  <2> TAKE i \in 1 .. Len(rest)
  <2>1. cut + i \in 1 .. Len(all) /\ h.total - Len(rest) + i = h.total - Len(all) + (cut + i)
    <3>1. h.total \in Nat /\ Len(rest) = Len(all) - cut
      BY ONLY SMTT(30), <1>1, <1>2, <1>3, <1>7
    <3> QED BY ONLY <1>6, <3>1
  <2>2. rest[i] = all[cut + i] /\ all[cut + i] = <<x4, h.total - Len(all) + (cut + i)>>
    BY <1>5, <1>7, <2>1
  <2> QED BY <2>1, <2>2
<1>10. DOMAIN rest = 1 .. Len(rest)
  BY <1>7
<1>11. h.total = x6.lost + (x6.head + cut) + Len(rest)
  <2>1. Len(x6.buf) \in Nat /\ Len(all) = Len(x6.buf) + h.new /\ Len(rest) = Len(all) - cut
    BY <1>1, <1>4, <1>7
  <2>2. x6.total = x6.lost + x6.head + Len(x6.buf) /\ x6.lost \in Nat /\ x6.head \in Nat
    BY <1>1
  <2>3. h.new \in Nat /\ h.total = x6.total + h.new
    BY <1>2, <1>3
  <2>4. Len(rest) = (Len(x6.buf) + h.new) - cut
    BY <2>1
  <2>5. Len(rest) + cut = Len(x6.buf) + h.new /\ Len(rest) \in Int
    BY <2>1, <2>3, <2>4
  <2>6. h.total = x6.lost + x6.head + (Len(x6.buf) + h.new)
    BY ONLY SMTT(30), <2>1, <2>2, <2>3
  <2> QED BY <2>2, <2>5, <2>6
<1>12. h.total \in Nat /\ x6.head + cut \in Nat
  BY ONLY SMTT(30), <1>1, <1>2, <1>3
<1>13. Con!Exact(x6)'
  BY <1>8, <1>9, <1>10, <1>11 DEF Con!Exact
<1> QED BY <1>1, <1>7, <1>8, <1>12, <1>13 DEF RecHolds

\* The record takes the new characters.
LEMMA PollAppendKeeps ==
  ASSUME ConInv, NEW p \in Pollers, Con!PollAppend(p) PROVE ConInv'
<1> DEFINE h == x9[p]
           all == x6.buf \o Con!Piece(h)
           cut == IF Len(all) > MaxBuf THEN Len(all) - MaxBuf ELSE 0
<1>1. PICK n : n = [h EXCEPT !.pc = "rptr"]
  OBVIOUS
<1>2. /\ h.pc = "append" /\ Con!Go(p, n)
      /\ x6' = [x6 EXCEPT !.buf = SubSeq(all, cut + 1, Len(all)), !.head = @ + cut, !.total = h.total]
      /\ UNCHANGED <<x1, x2, x3, x4, x5, x7, x8, x10, x11, x12>>
  BY <1>1 DEF Con!PollAppend, Con!guest
<1>3. DOMAIN h = ConFields /\ DOMAIN x6 = RecFields /\ x10' \in BOOLEAN
  BY <1>2 DEF ConInv, ConShape
<1>4. DOMAIN n = ConFields /\ n.pc = "rptr" /\ n.total = h.total /\ DOMAIN x6' = RecFields
  BY <1>1, <1>2, <1>3, ConHas
<1>5. ASSUME ~x10', x12 = 0
      PROVE  /\ Undoubted /\ ~x5 /\ Con!Polling \subseteq {p}
             /\ RecHolds' /\ x3' \in 0 .. x2 /\ x2 - x3' <= ConBytes
             /\ n.pc # "idle" /\ PollStage(n)'
  <2>1. Undoubted /\ h.pc # "idle"
    BY <1>2, <1>5 DEF ConInv
  <2>2. /\ Con!Polling \subseteq {p} /\ ~x5 /\ PollStage(h) /\ RecHolds
        /\ x3 \in 0 .. x2 /\ x2 - x3 <= ConBytes
    BY <2>1, PollAlone
  <2>3. /\ h.total \in Nat /\ h.total <= x2 /\ x3 <= h.total
        /\ GotHolds(h) /\ Len(h.got) = Con!Needed(h)
    BY <1>2, <2>2 DEF PollStage
  <2>4. Len(all) \in Nat
    <3>1. x6.buf \in Seq(Chars) /\ x6.total \in Nat
      BY <2>2 DEF RecHolds
    <3>2. Con!Piece(h) \in Seq(Chars)
      BY <2>3, <3>1, PieceInOrder
    <3> QED BY <3>1, <3>2, ConcatProperties, LenProperties
  <2>5. cut \in Nat /\ cut <= Len(all)
    <3> HIDE DEF all
    <3> QED BY <2>4, ConSizes
  <2>6. RecHolds' /\ x6'.total = h.total
    <3> HIDE DEF cut
    <3> QED BY <1>2, <1>3, <2>2, <2>3, <2>5, AppendIsExact
  <2>7. PollStage(n)'
    BY <1>2, <1>4, <2>3, <2>6 DEF PollStage
  <2> QED BY <1>2, <1>4, <2>1, <2>2, <2>6, <2>7
<1> QED BY <1>2, <1>3, <1>4, <1>5, PollGoes

\* The acknowledgement is of what is recorded.
LEMMA PollRptrKeeps ==
  ASSUME ConInv, NEW p \in Pollers, Con!PollRptr(p) PROVE ConInv'
<1> DEFINE h == x9[p]
<1>1. PICK n : n = [h EXCEPT !.pc = "check"]
  OBVIOUS
<1>2. /\ h.pc = "rptr" /\ Con!Go(p, n) /\ x3' = h.total
      /\ UNCHANGED <<x1, x2, x4, x5, x6, x7, x8, x10, x11, x12>>
  BY <1>1 DEF Con!PollRptr
<1>3. DOMAIN h = ConFields /\ DOMAIN x6' = RecFields /\ x10' \in BOOLEAN
  BY <1>2 DEF ConInv, ConShape
<1>4. DOMAIN n = ConFields /\ n.pc = "check" /\ n.total = h.total
  BY <1>1, <1>3, ConHas
<1>5. ASSUME ~x10', x12 = 0
      PROVE  /\ Undoubted /\ ~x5 /\ Con!Polling \subseteq {p}
             /\ RecHolds' /\ x3' \in 0 .. x2 /\ x2 - x3' <= ConBytes
             /\ n.pc # "idle" /\ PollStage(n)'
  <2>1. Undoubted /\ h.pc # "idle"
    BY <1>2, <1>5 DEF ConInv
  <2>2. /\ Con!Polling \subseteq {p} /\ ~x5 /\ PollStage(h) /\ RecHolds
        /\ x3 \in 0 .. x2 /\ x2 - x3 <= ConBytes /\ x2 \in Nat
    BY <2>1, PollAlone DEF ConInv, ConShape
  <2>3. /\ h.total \in Nat /\ h.total <= x2 /\ x3 <= h.total /\ x6.total = h.total
    BY <1>2, <2>2 DEF PollStage
  <2>4. x3' \in 0 .. x2 /\ x2 - x3' <= ConBytes
    BY <1>2, <2>2, <2>3, ConSizes
  <2>5. PollStage(n)'
    BY <1>2, <1>4, <2>3 DEF PollStage
  <2>6. RecHolds'
    BY <1>2, <2>2 DEF RecHolds, Con!Exact
  <2> QED BY <1>2, <1>4, <2>1, <2>2, <2>4, <2>5, <2>6
<1> QED BY <1>2, <1>3, <1>4, <1>5, PollGoes

\* The proof of the pointer changes nothing that is recorded.
LEMMA PollCheckKeeps ==
  ASSUME ConInv, NEW p \in Pollers, Con!PollCheck(p) PROVE ConInv'
<1> DEFINE h == x9[p]
<1>1. PICK n : n = Con!Rest
  OBVIOUS
<1>2. /\ h.pc = "check" /\ Con!Go(p, n)
      /\ x6' = [x6 EXCEPT !.ok = IF h.total = 0 THEN @ ELSE IF x3 = h.total THEN "yes" ELSE "no"]
      /\ UNCHANGED <<x1, x2, x3, x4, x5, x7, x8, x10, x11, x12>>
  BY <1>1 DEF Con!PollCheck, Con!guest
<1>3. DOMAIN n = ConFields /\ n.pc = "idle" /\ DOMAIN x6 = RecFields /\ x10' \in BOOLEAN
  BY <1>1, <1>2 DEF ConInv, ConShape, ConFields, Con!Rest
<1>4. /\ DOMAIN x6' = RecFields /\ x6'.buf = x6.buf /\ x6'.total = x6.total
      /\ x6'.head = x6.head /\ x6'.lost = x6.lost
  BY <1>2, <1>3, ConHas
<1>5. ASSUME ~x10', x12 = 0
      PROVE  /\ Undoubted /\ ~x5 /\ Con!Polling \subseteq {p}
             /\ RecHolds' /\ x3' \in 0 .. x2 /\ x2 - x3' <= ConBytes
             /\ n.pc = "idle" /\ x6'.total = x3'
  <2>1. Undoubted /\ h.pc # "idle"
    BY <1>2, <1>5 DEF ConInv
  <2>2. /\ Con!Polling \subseteq {p} /\ ~x5 /\ PollStage(h) /\ RecHolds
        /\ x3 \in 0 .. x2 /\ x2 - x3 <= ConBytes
    BY <2>1, PollAlone
  <2>3. x6.total = h.total /\ x3 = h.total
    BY <1>2, <2>2 DEF PollStage
  <2>4. RecHolds'
    BY <1>2, <1>4, <2>2 DEF RecHolds, Con!Exact
  <2> QED BY <1>2, <1>3, <1>4, <2>1, <2>2, <2>3, <2>4
<1> QED BY <1>2, <1>3, <1>4, <1>5, PollGoes

\* The guest prints into a place that no character the recorder still needs is in.
LEMMA PrintKeeps ==
  ASSUME ConInv, Con!GuestPrints PROVE ConInv'
<1>1. /\ ~(x2 - x3 >= ConBytes) /\ ~(x2 < x3) /\ x2' = x2 + 1
      /\ x1' = [x1 EXCEPT ![x2 % ConBytes] = <<x4, x2 + 1>>]
      /\ UNCHANGED <<x3, x4, x5, x6, x7, x8, x9, x10, x11, x12>>
  BY DEF Con!GuestPrints, Con!Full
<1>2. x1 \in [0 .. ConBytes - 1 -> Chars] /\ x2 \in Nat /\ x4 \in Nat
  BY DEF ConInv, ConShape
<1>3. x2 % ConBytes \in 0 .. ConBytes - 1
  BY <1>2, ConMod
<1>4. x1' \in [0 .. ConBytes - 1 -> Chars]
  <2>1. <<x4, x2 + 1>> \in Chars
    BY <1>2 DEF Chars
  <2> QED BY <1>1, <1>2, <2>1
<1>5. ConShape'
  BY <1>1, <1>2, <1>4 DEF ConInv, ConShape
<1>6. KeysFit'
  BY <1>1 DEF ConInv, KeysFit, Putting
<1>7. ASSUME ~x10', x12' = 0 PROVE Undoubted'
  <2>1. Undoubted
    BY <1>1, <1>7 DEF ConInv
  <2>2. RingHolds'
    <3> SUFFICES ASSUME NEW k \in 1 .. x2 + 1, k > (x2 + 1) - ConBytes
                 PROVE  x1'[(k - 1) % ConBytes] = <<x4, k>>
      BY <1>1 DEF RingHolds
    <3>1. CASE k = x2 + 1
      <4>1. k - 1 = x2
        BY <1>2, <3>1
      <4> QED BY <1>1, <1>2, <1>3, <3>1, <4>1
    <3>2. CASE k # x2 + 1
      <4> DEFINE y == k - 1
      <4>1. y \in Int /\ x2 \in Int /\ y < x2 /\ x2 - y < ConBytes /\ ConBytes \in Nat \ {0}
        BY <1>2, <3>2, ConSizes
      <4>2. k \in 1 .. x2 /\ k > x2 - ConBytes
        BY <1>2, <3>2, ConSizes
      <4> HIDE DEF y
      <4>3. y % ConBytes # x2 % ConBytes
        BY <4>1, ModApart
      <4>4. y % ConBytes \in 0 .. ConBytes - 1
        BY <4>1, ConMod
      <4>5. x1'[y % ConBytes] = x1[y % ConBytes]
        BY <1>1, <1>2, <4>3, <4>4
      <4>6. x1[y % ConBytes] = <<x4, k>>
        BY <2>1, <4>2 DEF Undoubted, RingHolds, y
      <4> QED BY <4>5, <4>6 DEF y
    <3> QED BY <3>1, <3>2
  <2>3. x3' \in 0 .. x2' /\ x2' - x3' <= ConBytes
    BY <1>1, <1>2, <2>1, ConSizes DEF Undoubted
  <2>4. Con!Polling' = Con!Polling
    BY <1>1 DEF Con!Polling
  <2>5. ASSUME NEW p \in Con!Polling PROVE PollStage(x9[p])'
    <3>1. PollStage(x9[p])
      BY <2>1 DEF Undoubted
    <3>2. x9[p].total \in Nat /\ x9[p].total <= x2
      BY <3>1 DEF PollStage
    <3>3. x9[p].total <= x2'
      BY <1>1, <1>2, <3>2
    <3> QED BY <1>1, <3>1, <3>3 DEF PollStage, GotHolds, Con!Needed
  <2>6. ~x5' => RecHolds'
    BY <1>1, <2>1 DEF Undoubted, RecHolds, Con!Exact
  <2> QED BY <1>1, <2>1, <2>2, <2>3, <2>4, <2>5, <2>6 DEF Undoubted
<1> QED BY <1>5, <1>6, <1>7 DEF ConInv

\* con_clear: the pulse begins an era in which nothing is printed, read or acknowledged.
LEMMA ClearPulseKeeps ==
  ASSUME ConInv, Con!ClearPulse PROVE ConInv'
<1>1. /\ x2' = 0 /\ x3' = 0 /\ x4' = x4 + 1 /\ x5' = TRUE
      /\ x10' = (x10 \/ Con!Polling # {})
      /\ UNCHANGED <<x1, x6, x7, x8, x9, x11, x12>>
  BY DEF Con!ClearPulse
<1>2. ConShape'
  BY <1>1 DEF ConInv, ConShape
<1>3. KeysFit'
  BY <1>1 DEF ConInv, KeysFit, Putting
<1>4. ASSUME ~x10', x12' = 0 PROVE Undoubted'
  <2>1. Con!Polling = {}
    BY <1>1, <1>4
  <2>2. Con!Polling' = {}
    BY <1>1, <2>1 DEF Con!Polling
  <2>3. RingHolds'
    BY <1>1 DEF RingHolds
  <2> QED BY <1>1, <2>2, <2>3, ConSizes DEF Undoubted
<1> QED BY <1>2, <1>3, <1>4 DEF ConInv

\* con_clear: the record follows.
LEMMA ClearRecordKeeps ==
  ASSUME ConInv, Con!ClearRecord PROVE ConInv'
<1>1. /\ x5 = TRUE /\ x5' = FALSE /\ x6' = Con!NewRec
      /\ UNCHANGED <<x1, x2, x3, x4, x7, x8, x9, x10, x11, x12>>
  BY DEF Con!ClearRecord, Con!guest, ConInv, ConShape
<1>2. ConShape'
  BY <1>1 DEF ConInv, ConShape, RecFields
<1>3. KeysFit'
  BY <1>1 DEF ConInv, KeysFit, Putting
<1>4. ASSUME ~x10', x12' = 0 PROVE Undoubted'
  <2>1. Undoubted /\ x3 = 0 /\ Con!Polling = {}
    BY <1>1, <1>4 DEF ConInv, Undoubted
  <2>2. Con!Polling' = {}
    BY <1>1, <2>1 DEF Con!Polling
  <2>3. RingHolds'
    BY <1>1, <2>1 DEF RingHolds, Undoubted
  <2>4. RecHolds' /\ x6'.total = 0
    BY <1>1 DEF RecHolds, Con!Exact, Con!NewRec
  <2> QED BY <1>1, <2>1, <2>2, <2>3, <2>4 DEF Undoubted
<1> QED BY <1>2, <1>3, <1>4 DEF ConInv

\* The guest fetches a character, and a step of another part.
LEMMA FetchKeeps ==
  ASSUME ConInv, Con!Fetch \/ UNCHANGED Con!vars PROVE ConInv'
<1>1. /\ x7' = x7 \/ (x7 > 0 /\ x7' = x7 - 1)
      /\ UNCHANGED <<x1, x2, x3, x4, x5, x6, x8, x9, x10, x11, x12>>
  BY DEF Con!Fetch, Con!guest, Con!vars
<1>2. ConShape'
  BY <1>1 DEF ConInv, ConShape
<1>3. KeysFit'
  <2>1. Putting' = Putting
    BY <1>1 DEF Putting
  <2>2. Cardinality(Putting) \in Nat
    <3>1. Putting \subseteq Typists
      BY DEF Putting
    <3> QED BY <3>1, ConSizes, FS_Subset, FS_CardinalityType
  <2> QED BY <1>1, <2>1, <2>2, ConSizes DEF ConInv, KeysFit
<1>4. ASSUME ~x10', x12' = 0 PROVE Undoubted'
  <2>1. \A p \in Pollers : x9'[p] = x9[p]
    BY <1>1
  <2> QED BY <1>1, <1>4, <2>1, ConQuiet DEF ConInv
<1> QED BY <1>2, <1>3, <1>4 DEF ConInv

\* Every step of the console keeps the invariant.
LEMMA ConNext == ASSUME ConInv, [Con!Next]_(Con!vars) PROVE ConInv'
<1>1. CASE Con!GuestPrints
  BY <1>1, PrintKeeps
<1>2. CASE Con!ClearPulse
  BY <1>2, ClearPulseKeeps
<1>3. CASE Con!ClearRecord
  BY <1>3, ClearRecordKeeps
<1>4. CASE Con!Fetch \/ UNCHANGED Con!vars
  BY <1>4, FetchKeeps
<1>5. ASSUME NEW p \in Pollers, Con!Poll(p) PROVE ConInv'
  BY <1>5, PollTotalKeeps, PollNewKeeps, PollReadKeeps, PollAppendKeeps, PollRptrKeeps, PollCheckKeeps
     DEF Con!Poll
<1>6. ASSUME NEW x \in Typists, Con!TypeBegin(x) \/ Con!TypeLevel(x) \/ Con!TypeChar(x)
      PROVE  ConInv'
  BY <1>6, TypingKeeps
<1> QED BY <1>1, <1>2, <1>3, <1>4, <1>5, <1>6 DEF Con!Next

\* What the invariant is for.
LEMMA ConHolds == ASSUME ConInv PROVE Con!Lossless /\ Con!NoKeyLost
BY DEF ConInv, KeysFit, ConShape, Undoubted, RecHolds, Con!Lossless, Con!NoKeyLost

\* ConsoleReader.poll records without a gap, a repetition or a stranger as long as
\* polls do not overlap, and POST /api/console overruns no key, for every size of
\* ring, record and receive FIFO and every number of threads: the read pointer the
\* guest is held by never passes what has been recorded, and what a read of the
\* ring meets of the characters it is to fetch is still there.
THEOREM ConsoleIsExactTheorem == SpecAll => []ConsoleIsExact
<1> DEFINE Inv == part = "console" => ConInv
<1>1. InitAll => Inv
  BY ConInit DEF InitAll
<1>2. Inv /\ [NextAll]_allVars => Inv'
  BY PartSteps, ConNext
<1>3. Inv => ConsoleIsExact
  BY ConHolds DEF ConsoleIsExact
<1> QED BY <1>1, <1>2, <1>3, PTL DEF SpecAll

=============================================================================
