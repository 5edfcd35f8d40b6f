--------------------------- MODULE ComposerProofs ---------------------------
(* Two guarantees of the composer, for every program, every depth and every *)
(* delay of the qualifier.                                                  *)
EXTENDS ComposerMC, TLAPS

-----------------------------------------------------------------------------
(* The markers of an overflow *)

\* The injector works only inside an episode, and an episode accepts nothing.
MarkInv == Busy => skid = <<>> /\ ovfPending

\* A cycle that ends at work began with nothing queued and within an episode.
LEMMA WorkEntered ==
  ASSUME NEW b, InjectorNext(b) # "Forwarding"
  PROVE  ~InjectDone(b) /\ (ForceInject \/ Busy)
<1>1. CASE injector = "Forwarding"
  BY <1>1, Zenon DEF InjectorNext, InjectDone
<1>2. CASE injector # "Forwarding" /\ EtipFull
  BY <1>2, Zenon DEF InjectDone, Busy
<1>3. CASE injector = "Injecting" /\ ~EtipFull
  BY <1>3, Zenon DEF InjectDone, Busy
<1>4. CASE injector # "Forwarding" /\ injector # "Injecting" /\ ~EtipFull
  <2>1. InjectHold(b)
    BY <1>4, Zenon DEF InjectorNext
  <2>2. QED  BY <1>4, <2>1, Zenon DEF InjectDone, Busy
<1>5. QED  BY <1>1, <1>2, <1>3, <1>4, Zenon

LEMMA EdgeKeepsMarkInv ==
  ASSUME MarkInv, NEW b, NEW on, NEW req, Edge(b, on, req)
  PROVE  MarkInv'
<1>1. SUFFICES ASSUME Busy'
               PROVE  skid' = <<>> /\ ovfPending'
  BY Zenon DEF MarkInv
<1>2. ~InjectDone(b) /\ (ForceInject \/ Busy)
  BY <1>1, WorkEntered, Zenon DEF Edge, Busy
<1>3. skid = <<>> /\ ovfPending
  BY <1>2, Zenon DEF MarkInv, ForceInject
<1>4. ovfPending'
  BY <1>2, <1>3, Zenon DEF Edge
<1>5. skid' = <<>> \o <<>>
  BY <1>3, Zenon DEF Edge, SkidNext, Dequeues, Lost, InEpisode
<1>6. QED  BY <1>4, <1>5, SMT

\* The markers of an overflow follow every accepted message: MarkersBehindAccepted
\* for all constants, pauses, flushes and traps of any timing included.
THEOREM MarkersBehindAcceptedTheorem == Spec => []MarkersBehindAccepted
<1>1. Init => MarkInv
  BY Zenon DEF Init, MarkInv, Busy
<1>2. MarkInv /\ [Next]_vars => MarkInv'
  <2>1. SUFFICES ASSUME MarkInv, [Next]_vars PROVE MarkInv'
    OBVIOUS
  <2>2. CASE Clock
    BY <2>1, <2>2, EdgeKeepsMarkInv, Zenon DEF Clock
  <2>3. CASE Pop
    BY <2>1, <2>3, Zenon DEF Pop, MarkInv, Busy
  <2>4. CASE UNCHANGED vars
    BY <2>1, <2>4, Zenon DEF vars, outVars, MarkInv, Busy
  <2>5. QED  BY <2>1, <2>2, <2>3, <2>4, Zenon DEF Next
<1>3. MarkInv => MarkersBehindAccepted
  BY Zenon DEF MarkInv, MarkersBehindAccepted
<1>4. QED  BY <1>1, <1>2, <1>3, PTL DEF Spec

-----------------------------------------------------------------------------
(* The correlation of a pause *)

\* No change of the level is on its way through ItaPipe.
Quiet == \A k \in 1 .. Lag + 1 : ita[k] = prevActive

\* While a change is on its way nothing is requested or acknowledged; a
\* correlation is requested on its own, and answered by its message.
PauseInv ==
  /\ ita \in [1 .. Lag + 1 -> BOOLEAN] /\ prevActive \in BOOLEAN
  /\ \A j, k \in 1 .. Lag + 1 : j < k /\ ita[k] # prevActive => ita[j] # prevActive
  /\ ~enableFall
  /\ ~Quiet => ~doCorr /\ ~flushReq /\ ~flushAck
  /\ doCorr => ~prevActive /\ ~flushReq
  /\ CorrClearsRetstack

LEMMA InitPauseInv == Init => PauseInv
<1>1. SUFFICES ASSUME Init PROVE PauseInv
  OBVIOUS
<1>2. ita = [k \in 1 .. Lag + 1 |-> FALSE] /\ prevActive = FALSE
  BY <1>1 DEF Init
<1>3. /\ ita \in [1 .. Lag + 1 -> BOOLEAN]
      /\ \A k \in 1 .. Lag + 1 : ita[k] = prevActive
  BY <1>2, Zenon
<1>4. ~enableFall /\ ~doCorr /\ ~flushReq /\ ~flushAck
  BY <1>1, Zenon DEF Init
<1>5. QED
  BY <1>2, <1>3, <1>4, Zenon DEF PauseInv, Quiet, CorrClearsRetstack

\* The level at the beats is one the pipe holds.
LEMMA LagIndex == /\ 1 \in 1 .. Lag + 1 /\ Lag + 1 \in 1 .. Lag + 1
                  /\ \A k \in 1 .. Lag + 1 : k # 1 => k - 1 \in 1 .. Lag + 1 /\ k - 1 < k
                  /\ \A k \in 1 .. Lag + 1 : k < Lag + 1 \/ k = Lag + 1
                  /\ \A k \in 1 .. Lag + 1 : 1 < k \/ k = 1
  BY ComposerAssumption, SMT DEF ComposerAssumption

\* One clock edge, with the pauses the runs without a finding have.
LEMMA EdgeKeepsPauseInv ==
  ASSUME PauseInv, Flush # "racing", PauseBy # "Enable",
         NEW b, NEW on \in BOOLEAN, NEW req \in BOOLEAN, Edge(b, on, req)
  PROVE  PauseInv'
<1>1. ita' = ItaPipe(on) /\ prevActive' = active
  BY Zenon DEF Edge
<1>2. ita' \in [1 .. Lag + 1 -> BOOLEAN] /\ prevActive' \in BOOLEAN
  BY <1>1, LagIndex, Zenon DEF ItaPipe, PauseInv, active
<1>3. ~enableFall'
  BY Zenon DEF Edge, PauseInv, EnableFalls
<1>4. Inputs(on, req)
  BY Zenon DEF Edge
<1>5. /\ ita'[1] = on
      /\ \A k \in 1 .. Lag + 1 : k # 1 => ita'[k] = ita[k - 1]
  BY <1>1, LagIndex, Zenon DEF ItaPipe
<1>6. CASE ~Quiet
  <2>1. ~doCorr /\ ~flushReq /\ ~flushAck /\ on = ita[1] /\ req = FALSE
    BY <1>4, <1>6, LagIndex, Zenon
       DEF PauseInv, Inputs, MayToggle, MayFlush, Steady, Quiet
  <2>2. flushReq' = FALSE /\ flushAck' = FALSE
    BY <2>1, Zenon DEF Edge, AckNext, Answers, DoFlush, PauseInv
  <2>3. doCorr' => prevActive /\ ~active
    BY <2>1, Zenon DEF Edge
  <2>4. ita[1] # prevActive
    BY <1>6, LagIndex, Zenon DEF Quiet, PauseInv
  <2>5. CASE active = prevActive
    <3>1. ASSUME NEW j \in 1 .. Lag + 1, NEW k \in 1 .. Lag + 1, j < k,
                 ita'[k] # prevActive
          PROVE  ita'[j] # prevActive
      <4>1. k - 1 \in 1 .. Lag + 1 /\ ita[k - 1] # prevActive
        <5>1. k # 1
          BY <3>1, SMT
        <5>2. QED  BY <1>5, <3>1, <5>1, LagIndex, Zenon
      <4>2. CASE j = 1
        BY <1>5, <2>1, <2>4, <4>2, Zenon
      <4>3. CASE j # 1
        <5>1. j - 1 \in 1 .. Lag + 1 /\ ita'[j] = ita[j - 1]
          BY <1>5, <4>3, LagIndex, Zenon
        <5>2. j - 1 < k - 1
          BY <3>1, ComposerAssumption, SMT DEF ComposerAssumption
        <5>3. QED  BY <4>1, <5>1, <5>2, Zenon DEF PauseInv
      <4>4. QED  BY <4>2, <4>3, Zenon
    <3>2. ~doCorr'
      BY <2>3, <2>5, Zenon
    <3>3. QED
      BY <1>1, <1>2, <1>3, <2>2, <2>5, <3>1, <3>2, Zenon DEF PauseInv, CorrClearsRetstack
  <2>6. CASE active # prevActive
    <3>1. \A k \in 1 .. Lag + 1 : ita[k] # prevActive
      BY <2>6, LagIndex, Zenon DEF PauseInv, active
    <3>2. \A k \in 1 .. Lag + 1 : ita[k] = active
      BY <2>6, <3>1, LagIndex, SMT DEF PauseInv, active
    <3>3. \A k \in 1 .. Lag + 1 : ita'[k] = prevActive'
      BY <1>1, <1>5, <2>1, <3>2, LagIndex, Zenon
    <3>4. Quiet'
      BY <3>3, Zenon DEF Quiet
    <3>5. doCorr' => ~prevActive'
      BY <1>1, <2>3, Zenon
    <3>6. QED
      BY <1>2, <1>3, <2>2, <3>3, <3>4, <3>5, Zenon DEF PauseInv, CorrClearsRetstack
  <2>7. QED  BY <2>5, <2>6, Zenon
<1>7. CASE Quiet
  <2>1. active = prevActive /\ ita[1] = prevActive
    BY <1>7, LagIndex, Zenon DEF Quiet, active
  <2>2. doCorr' => doCorr /\ ~flushAck
    BY <2>1, Zenon DEF Edge
  <2>3. \A k \in 1 .. Lag + 1 : k # 1 => ita'[k] = prevActive'
    BY <1>1, <1>5, <1>7, <2>1, LagIndex, Zenon DEF Quiet
  <2>4. CASE on # ita[1]
    <3>1. ~doCorr /\ ~flushReq /\ ~flushAck /\ req = FALSE
      BY <1>4, <2>4, Zenon DEF PauseInv, Inputs, MayToggle, Steady
    <3>2. flushReq' = FALSE /\ flushAck' = FALSE /\ ~doCorr'
      BY <2>2, <3>1, Zenon DEF Edge, AckNext, Answers, DoFlush, PauseInv
    <3>3. ASSUME NEW j \in 1 .. Lag + 1, NEW k \in 1 .. Lag + 1, j < k
          PROVE  ita'[k] = prevActive'
      <4>1. k # 1
        BY <3>3, SMT
      <4>2. QED  BY <2>3, <4>1, Zenon
    <3>4. QED
      BY <1>2, <1>3, <3>2, <3>3, Zenon DEF PauseInv, CorrClearsRetstack
  <2>5. CASE on = ita[1]
    <3>1. \A k \in 1 .. Lag + 1 : ita'[k] = prevActive'
      BY <1>1, <1>5, <2>1, <2>3, <2>5, Zenon
    <3>2. doCorr' => ~prevActive'
      BY <1>1, <2>1, <2>2, Zenon DEF PauseInv
    <3>3. doCorr' => ~flushReq'
      <4>1. doCorr => req = FALSE
        BY <1>4, Zenon DEF PauseInv, Inputs, MayFlush, Steady
      <4>2. QED  BY <2>2, <4>1, Zenon DEF Edge
    <3>4. CorrClearsRetstack'
      <4>1. SUFFICES ASSUME doCorr' PROVE retStack' = <<>> /\ icnt' = 0
        BY Zenon DEF CorrClearsRetstack
      <4>2. doCorr /\ ~flushAck /\ ~active
        BY <2>1, <2>2, <4>1, Zenon DEF PauseInv
      <4>3. Correlates
        BY <4>2, Zenon DEF Correlates, Answers, AckNext, DoFlush
      <4>4. retStack' = <<>>
        BY <4>3, Zenon DEF Edge, StackNext
      <4>5. icnt' = 0
        BY <4>2, <4>3, Zenon DEF Edge, IcntNext
      <4>6. QED  BY <4>4, <4>5, Zenon
    <3>5. Quiet'
      BY <3>1, Zenon DEF Quiet
    <3>6. QED
      BY <1>2, <1>3, <3>1, <3>2, <3>3, <3>4, <3>5, Zenon DEF PauseInv
  <2>6. QED  BY <2>4, <2>5, Zenon
<1>8. QED  BY <1>6, <1>7, Zenon

\* A pause through InstTracing, no sink flush asked for around it, always sends
\* its correlation: CorrClearsRetstack for every program, depth and delay.
THEOREM CorrClearsRetstackTheorem ==
  ASSUME Flush # "racing", PauseBy # "Enable"
  PROVE  Spec => []CorrClearsRetstack
<1>1. PauseInv /\ [Next]_vars => PauseInv'
  <2>1. SUFFICES ASSUME PauseInv, [Next]_vars PROVE PauseInv'
    OBVIOUS
  <2>2. CASE Clock
    BY <2>1, <2>2, EdgeKeepsPauseInv, Zenon DEF Clock
  <2>3. CASE UNCHANGED <<ita, ctlVars, icnt, retStack>>
    BY <2>1, <2>3 DEF ctlVars, PauseInv, Quiet, CorrClearsRetstack
  <2>4. CASE Pop
    BY <2>3, <2>4 DEF Pop, envVars, cfVars
  <2>5. CASE UNCHANGED vars
    BY <2>3, <2>5 DEF vars, envVars, cfVars
  <2>6. QED  BY <2>1, <2>2, <2>4, <2>5, Zenon DEF Next
<1>2. PauseInv => CorrClearsRetstack
  BY Zenon DEF PauseInv
<1>3. QED  BY <1>1, <1>2, InitPauseInv, PTL DEF Spec

=============================================================================
