------------------------- MODULE PreprocSyncProofs -------------------------
(***************************************************************************)
(* Proofs about PreprocSync, for every choice of built-in events, branch   *)
(* prediction, period and counting mode: the re-anchor comes first after a *)
(* pause, a request owns at most one message and is answered at the next   *)
(* anchor, and no more than Window anchors pass without a message.         *)
(***************************************************************************)
EXTENDS PreprocSync, TLAPS

Bits == /\ extAck \in BOOLEAN /\ te \in BOOLEAN /\ tePending \in BOOLEAN
        /\ teAck \in BOOLEAN /\ extCredit \in BOOLEAN /\ teCredit \in BOOLEAN
        /\ anchored \in BOOLEAN

\* While tracing runs unanchored, the TRACE_ENABLE one-shot is pending.
AnchorOwed == "active" \in prev /\ ~anchored => "enable" \in pend

\* Whatever can make the request arm fire stands for a request without its
\* message; the latch is armed again from the level, so that one counts too.
BusOwed   == DoExt /\ ~extAck => extCredit
LatchOwed == tePending => teCredit
LevelOwed == te /\ ~teAck => teCredit

IInv == /\ Bits /\ pend \subseteq OneShots
        /\ AnchorOwed /\ BusOwed /\ LatchOwed /\ LevelOwed

-----------------------------------------------------------------------------

\* The ladder picks one of the arms that are ready, if any is.
LEMMA LadderPicks ==
  ASSUME NEW retire, NEW on, pend \subseteq OneShots,
         Ready(retire, on) # {}
  PROVE  Arm(retire, on) \in Ready(retire, on) \ {"none"}
<1> DEFINE R == Ready(retire, on)
           L == Ladder
           First(i) == /\ L[i] \in R
                       /\ \A j \in 1 .. i - 1 : L[j] \notin R
<1>1. R # {} /\ "none" \notin R
  BY PreprocSyncAssumption DEF Ready, OneShots
<1>2. DOMAIN L = 1 .. 8
  BY DEF Ladder
<1>3. R \subseteq {L[i] : i \in 1 .. 8}
  <2>1. R \subseteq OneShots \cup {"req", "periodic"}
    BY DEF Ready
  <2>2. OneShots \subseteq {"sys_rst", "debug", "powerdown", "evti", "trig", "enable"}
    BY PreprocSyncAssumption DEF OneShots
  <2>3. {"sys_rst", "debug", "powerdown", "evti", "trig", "enable", "req", "periodic"}
          \subseteq {L[i] : i \in 1 .. 8}
    <3>1. L[1] = "sys_rst" /\ L[2] = "debug" /\ L[3] = "powerdown" /\ L[4] = "evti"
      BY DEF Ladder
    <3>2. L[5] = "trig" /\ L[6] = "enable" /\ L[7] = "req" /\ L[8] = "periodic"
      BY DEF Ladder
    <3> HIDE DEF L
    <3> QED BY <3>1, <3>2
  <2> QED BY <2>1, <2>2, <2>3
<1>4. \E i \in 1 .. 8 : First(i)
  <2> HIDE DEF R, L
  <2>1. PICK k \in 1 .. 8 : L[k] \in R
    BY <1>1, <1>3
  <2>2. L[1] \in R => First(1)
    OBVIOUS
  <2>3. CASE \E i \in 1 .. 8 : /\ L[i] \in R
                               /\ \A j \in 1 .. 8 : j < i => L[j] \notin R
    BY <2>3
  <2>4. CASE \A i \in 1 .. 8 : L[i] \in R => \E j \in 1 .. 8 : j < i /\ L[j] \in R
    <3>1. L[1] \notin R BY <2>4
    <3>2. L[2] \notin R BY <2>4, <3>1
    <3>3. L[3] \notin R BY <2>4, <3>1, <3>2
    <3>4. L[4] \notin R BY <2>4, <3>1, <3>2, <3>3
    <3>5. L[5] \notin R BY <2>4, <3>1, <3>2, <3>3, <3>4
    <3>6. L[6] \notin R BY <2>4, <3>1, <3>2, <3>3, <3>4, <3>5
    <3>7. L[7] \notin R BY <2>4, <3>1, <3>2, <3>3, <3>4, <3>5, <3>6
    <3>8. L[8] \notin R BY <2>4, <3>1, <3>2, <3>3, <3>4, <3>5, <3>6, <3>7
    <3> QED BY <2>1, <3>1, <3>2, <3>3, <3>4, <3>5, <3>6, <3>7, <3>8
  <2> QED BY <2>3, <2>4
<1>5. Arm(retire, on) = L[CHOOSE i \in DOMAIN L : First(i)]
  BY <1>1 DEF Arm
<1>6. First(CHOOSE i \in DOMAIN L : First(i))
  <2> HIDE DEF First, L
  <2> QED BY <1>2, <1>4
<1> QED BY <1>1, <1>5, <1>6

\* The request and the periodic arm need an anchored stretch of tracing.
LEMMA RequestArms ==
  ASSUME IInv, NEW retire, NEW on, Arm(retire, on) \in {"req", "periodic"}
  PROVE  /\ Active(on) /\ anchored
         /\ Arm(retire, on) = "req" => Request
<1>1. Arm(retire, on) \in Ready(retire, on)
  BY LadderPicks DEF IInv, Arm
<1>2. "req" \notin OneShots /\ "periodic" \notin OneShots
  BY PreprocSyncAssumption DEF OneShots
<1>3. /\ Active(on) /\ ~EnablePendingNow(on)
      /\ Arm(retire, on) = "req" => Request
  BY <1>1, <1>2 DEF Ready, IInv
<1> QED BY <1>3 DEF IInv, AnchorOwed, EnablePendingNow, Rise, Active

-----------------------------------------------------------------------------

LEMMA InitIInv == Init => IInv
BY DEF Init, IInv, Bits, OneShots, AnchorOwed, BusOwed, LatchOwed, LevelOwed, DoExt

LEMMA ResetIInv == Reset /\ IInv => IInv'
<1> SUFFICES ASSUME Reset, IInv PROVE IInv'
  OBVIOUS
<1>1. prev' = {} /\ pend' = {"sys_rst"} /\ extState' = "idle"
  BY DEF Reset
<1>2. ~extAck' /\ ~tePending' /\ ~teAck' /\ ~anchored' /\ ~extCredit'
  BY Zenon DEF Reset
<1>3. te' = te /\ teCredit' = te
  BY DEF Reset
<1>4. Bits'
  BY <1>3, Zenon DEF Reset, IInv, Bits
<1>5. (pend \subseteq OneShots)' /\ AnchorOwed'
  BY <1>1 DEF OneShots, AnchorOwed
<1>6. BusOwed' /\ LatchOwed' /\ LevelOwed'
  BY <1>1, <1>2, <1>3, Zenon DEF BusOwed, LatchOwed, LevelOwed, DoExt
<1> QED BY <1>4, <1>5, <1>6 DEF IInv

LEMMA EdgeIInv ==
  ASSUME IInv, NEW retire \in Retires, NEW on \in Inputs, Edge(retire, on)
  PROVE  IInv'
<1> DEFINE arm == Arm(retire, on)
<1>1. /\ OneShotEdge(arm, on) /\ ExtEdge(arm, on) /\ TeEdge(arm, on)
      /\ Observe(arm, retire, on)
  BY DEF Edge
<1> HIDE DEF arm
<1>2. Bits'
  <2>1. anchored' \in BOOLEAN /\ extCredit' \in BOOLEAN /\ teCredit' \in BOOLEAN
    BY <1>1, ZenonT(30) DEF Observe
  <2>2. extAck' \in BOOLEAN
    BY <1>1 DEF ExtEdge, IInv, Bits
  <2>3. te' \in BOOLEAN /\ tePending' \in BOOLEAN /\ teAck' \in BOOLEAN
    BY <1>1 DEF TeEdge
  <2> QED BY <2>1, <2>2, <2>3 DEF Bits
<1>3. (pend \subseteq OneShots)'
  <2>1. Latched(on) \subseteq OneShots
    BY DEF Latched, OneShots
  <2> QED BY <1>1, <2>1 DEF OneShotEdge, IInv, OneShots
<1>4. AnchorOwed'
  <2> SUFFICES ASSUME ("active" \in prev)', ~anchored' PROVE "enable" \in pend'
    BY DEF AnchorOwed
  <2>1. Active(on) /\ ~anchored /\ reason' \notin ReAnchors
    BY <1>1 DEF Observe, OneShotEdge, Active
  <2>2. arm \notin ReAnchors
    BY <1>1, <2>1 DEF OneShotEdge
  <2>3. "enable" \in pend \cup Latched(on)
    BY <2>1 DEF IInv, AnchorOwed, Latched, Rise, Active
  <2>4. "enable" \notin Subsumed(arm, on)
    BY <2>2 DEF Subsumed, ReAnchors, Levels
  <2> QED BY <1>1, <2>1, <2>3, <2>4 DEF OneShotEdge
<1>5. BusOwed'
  BY <1>1 DEF ExtEdge, Observe, IInv, Bits, BusOwed, DoExt
<1>6. LatchOwed'
  BY <1>1 DEF TeEdge, Observe, IInv, Bits, LatchOwed, LevelOwed
<1>7. LevelOwed'
  BY <1>1 DEF TeEdge, Observe, IInv, Bits, LatchOwed, LevelOwed
<1> QED BY <1>2, <1>3, <1>4, <1>5, <1>6, <1>7 DEF IInv

LEMMA StutterIInv == IInv /\ UNCHANGED vars => IInv'
BY DEF vars, reqVars, obsVars, IInv, Bits, OneShots, AnchorOwed, BusOwed, LatchOwed,
       LevelOwed, DoExt

LEMMA InvariantHolds == Spec => []IInv
<1>1. IInv /\ [Next]_vars => IInv'
  BY ResetIInv, EdgeIInv, StutterIInv DEF Next
<1> QED BY InitIInv, <1>1, PTL DEF Spec

\* Every request or periodic message has its reason from the ladder.
LEMMA StepReason ==
  ASSUME IInv, [Next]_vars, reason' \in {"req", "periodic"}, reason' # reason \/ Next
  PROVE  /\ anchored
         /\ reason' = "req" => extCredit \/ teCredit
<1>1. Next
  BY DEF vars
<1>2. PICK retire \in Retires, on \in Inputs : Edge(retire, on)
  BY <1>1 DEF Next, Reset
<1>3. reason' = Arm(retire, on)
  BY <1>2 DEF Edge, OneShotEdge
<1>4. anchored /\ (reason' = "req" => Request)
  BY <1>3, RequestArms
<1>5. Request => extCredit \/ teCredit
  BY DEF Request, IInv, BusOwed, LatchOwed
<1> QED BY <1>4, <1>5

\* After a pause the re-anchor precedes every requested or periodic message.
THEOREM ReanchorFirstTheorem == Spec => ReanchorFirst
<1>1. IInv /\ [Next]_vars => [reason' \in {"req", "periodic"} => anchored]_vars
  BY StepReason
<1> QED BY InvariantHolds, <1>1, PTL DEF Spec, ReanchorFirst

\* No request is answered twice.
THEOREM RequestAnsweredOnceTheorem == Spec => RequestAnsweredOnce
<1>1. IInv /\ [Next]_vars => [reason' = "req" => extCredit \/ teCredit]_vars
  BY StepReason
<1> QED BY InvariantHolds, <1>1, PTL DEF Spec, RequestAnsweredOnce

-----------------------------------------------------------------------------
(* Nothing that waits is passed over.  SInv stands beside IInv: a credit   *)
(* means that the request arm is armed, and the counter is never more than *)
(* two anchors behind the anchors that passed.                             *)

\* A request without its message is one the arm sees: at once for the bus,
\* from the latch cycle on for the register, which a reset alone delays.
BusArmed    == extCredit => DoExt /\ ~extAck
LatchArmed  == teCredit => tePending \/ (te /\ ~teAck /\ "active" \notin prev)
LatchPhases == tePending => te /\ ~teAck

\* The start-up message takes the first anchor there is.
StartFirst == "sys_rst" \in pend => since = 0

\* Clearing costs two anchors at most; after that each one is counted.
CountBehind == /\ clr \in BOOLEAN /\ count \in 0 .. Period /\ since \in Nat
               /\ clr /\ Overflow => since = 0
               /\ clr => since <= 1
               /\ ~clr => since <= count + 2

SInv == BusArmed /\ LatchArmed /\ LatchPhases /\ StartFirst /\ CountBehind

\* An anchor without a message finds neither a request nor the period waiting.
LEMMA PassedOver ==
  ASSUME IInv, NEW retire \in Retires, NEW on \in Inputs, Edge(retire, on),
         anchor', reason' = "none"
  PROVE  /\ ~Request /\ ~(Overflow /\ ~clr)
         /\ "sys_rst" \notin pend /\ retire # "none"
         /\ Arm(retire, on) = "none" /\ "active" \in prev
<1>1. AnchorOk(retire) /\ Active(on) /\ ~Rise(on)
  BY Zenon DEF Edge, Observe
<1>2. Arm(retire, on) = "none"
  BY <1>1 DEF Edge, OneShotEdge
<1>3. Ready(retire, on) = {}
  BY <1>2, LadderPicks DEF IInv
<1>4. "enable" \notin pend /\ "sys_rst" \notin pend
  BY <1>1, <1>3 DEF Ready
<1>5. ~Request /\ ~(Overflow /\ ~clr)
  BY <1>1, <1>3, <1>4 DEF Ready, EnablePendingNow
<1> QED BY <1>1, <1>2, <1>4, <1>5 DEF AnchorOk, Rise, Active

LEMMA InitSInv == Init => SInv
BY PreprocSyncAssumption DEF Init, SInv, BusArmed, LatchArmed, LatchPhases,
   StartFirst, CountBehind, Overflow

LEMMA ResetSInv == Reset => SInv'
BY PreprocSyncAssumption DEF Reset, SInv, BusArmed, LatchArmed, LatchPhases,
   StartFirst, CountBehind, Overflow

LEMMA EdgeSInv ==
  ASSUME IInv, SInv, NEW retire \in Retires, NEW on \in Inputs, Edge(retire, on)
  PROVE  SInv'
<1> DEFINE arm == Arm(retire, on)
<1>1. /\ FourPhase(on) /\ OneShotEdge(arm, on) /\ ExtEdge(arm, on)
      /\ TeEdge(arm, on) /\ CounterEdge(arm, retire) /\ Observe(arm, retire, on)
  BY DEF Edge
<1>2. anchor' /\ reason' = "none" =>
        /\ ~(Overflow /\ ~clr) /\ "sys_rst" \notin pend
        /\ retire # "none" /\ arm = "none"
  BY PassedOver
<1>3. arm = "sys_rst" => "sys_rst" \in pend
  <2>1. arm = "sys_rst" => "sys_rst" \in Ready(retire, on)
    BY LadderPicks DEF IInv, Arm
  <2> QED BY <2>1 DEF Ready
<1> HIDE DEF arm
<1>4. BusArmed'
  BY <1>1 DEF ExtEdge, Observe, SInv, BusArmed, DoExt, IInv, Bits
<1>5. LatchArmed' /\ LatchPhases'
  BY <1>1 DEF FourPhase, TeEdge, Observe, SInv, LatchArmed, LatchPhases, IInv, Bits
<1>6. \/ since' = 0 /\ (arm # "none" \/ since = 0)
      \/ since' = since /\ arm = "none"
      \/ since' = since + 1 /\ anchor' /\ reason' = "none"
  <2>1. since \in Nat /\ (arm = "sys_rst" => since = 0)
    BY <1>3 DEF SInv, CountBehind, StartFirst
  <2>2. CASE reason' # "none"
    BY <1>1, <2>2 DEF Observe, OneShotEdge
  <2>3. CASE reason' = "none" /\ anchor'
    BY <1>1, <2>3 DEF Observe, OneShotEdge
  <2>4. CASE reason' = "none" /\ ~anchor'
    <3>1. since' = since
      BY <1>1, <2>4 DEF Observe
    <3>2. arm = "none" \/ arm = "sys_rst"
      BY <1>1, <2>4 DEF OneShotEdge
    <3> QED BY <2>1, <3>1, <3>2
  <2> QED BY <2>2, <2>3, <2>4
<1>7. StartFirst'
  <2> SUFFICES ASSUME "sys_rst" \in pend' PROVE since' = 0
    BY DEF StartFirst
  <2>1. "sys_rst" \in pend
    BY <1>1, PreprocSyncAssumption DEF OneShotEdge, Latched
  <2> QED BY <1>2, <1>6, <2>1 DEF SInv, StartFirst
<1>8. CountBehind'
  <2>1. /\ clr \in BOOLEAN /\ count \in 0 .. Period /\ since \in Nat
        /\ Period \in Nat \ {0}
    BY PreprocSyncAssumption DEF SInv, CountBehind
  <2>2. CASE clr
    <3>1. count' = 0 /\ (clr' <=> arm # "none" \/ Overflow)
      BY <1>1, <2>2 DEF CounterEdge
    <3>2. arm # "none" => since' = 0
      BY <1>2, <1>6, <2>1
    <3>3. since <= 1 /\ (Overflow => since = 0)
      BY <2>2 DEF SInv, CountBehind
    <3>4. clr' \in BOOLEAN
      BY <1>1 DEF CounterEdge
    <3> QED BY <1>6, <2>1, <3>1, <3>2, <3>3, <3>4 DEF CountBehind, Overflow
  <2>3. CASE ~clr
    <3>1. clr' <=> arm # "none"
      BY <1>1, <2>3 DEF CounterEdge
    <3>2. /\ Overflow => count' = count
          /\ ~Overflow /\ retire # "none" => count' = count + 1
          /\ count' = count \/ (~Overflow /\ count' = count + 1)
      BY <1>1, <2>3 DEF CounterEdge
    <3>3. since <= count + 2
      BY <2>3 DEF SInv, CountBehind
    <3>4. clr' \in BOOLEAN
      BY <1>1 DEF CounterEdge
    <3> QED BY <1>2, <1>6, <2>1, <2>3, <3>1, <3>2, <3>3, <3>4 DEF CountBehind, Overflow
  <2> QED BY <2>2, <2>3
<1> QED BY <1>4, <1>5, <1>7, <1>8 DEF SInv

LEMMA StutterSInv == SInv /\ UNCHANGED vars => SInv'
BY DEF vars, reqVars, obsVars, SInv, BusArmed, LatchArmed, LatchPhases, StartFirst,
       CountBehind, Overflow, DoExt

LEMMA ServedHolds == Spec => []SInv
<1>1. IInv /\ SInv /\ [Next]_vars => SInv'
  BY ResetSInv, EdgeSInv, StutterSInv DEF Next
<1> QED BY InitSInv, InvariantHolds, <1>1, PTL DEF Spec

\* An anchor after the first cycle of tracing answers whatever request waits.
LEMMA StepServes ==
  ASSUME IInv, SInv, [Next]_vars, extCredit \/ teCredit, anchor',
         ~UNCHANGED vars
  PROVE  reason' # "none"
<1>1. PICK retire \in Retires, on \in Inputs : Edge(retire, on)
  BY DEF Next, Reset
<1>2. "active" \in prev => Request
  BY DEF SInv, BusArmed, LatchArmed, Request
<1> QED BY <1>1, <1>2, PassedOver

\* A decoder that waits meets a message: no more than Window anchors pass
\* without one, and a request is answered at the next anchor.
THEOREM LadderServesTheorem == Spec => LadderServes
<1>1. SInv => WindowBounded
  BY PreprocSyncAssumption DEF SInv, CountBehind, WindowBounded, Window
<1>2. IInv /\ SInv /\ [Next]_vars =>
        [(extCredit \/ teCredit) /\ anchor' => reason' # "none"]_vars
  BY StepServes
<1> QED BY InvariantHolds, ServedHolds, <1>1, <1>2, PTL
        DEF Spec, LadderServes, RequestNotPassedOver
=============================================================================
