---------------------------- MODULE FunnelProofs ----------------------------
(***************************************************************************)
(* What the funnel promises, for any number of channels and any mix of     *)
(* framings: a packet is never interleaved with another channel's beats,   *)
(* the parser follows every source, a length-prefixed packet is tagged,    *)
(* a waiting channel is passed by one lower packet at most, and a global   *)
(* flush that is announced complete has drained its participants.          *)
(***************************************************************************)
EXTENDS FunnelMC, WellFoundedInduction, TLAPS

\* Every set of naturals has a least element, every bounded one a greatest.
LEMMA Least ==
  ASSUME NEW S \in SUBSET Nat, S # {}
  PROVE  \E m \in S : \A j \in S : m <= j
<1>1. IsWellFoundedOn(OpToRel(<, Nat), Nat)
  BY NatLessThanWellFounded
<1>2. PICK m \in S : \A y \in S : ~(<<y, m>> \in OpToRel(<, Nat))
  BY <1>1, WFMin
<1>3. \A y \in S : ~(y < m)
  BY <1>2 DEF OpToRel
<1> QED BY <1>3

LEMMA Greatest ==
  ASSUME NEW M \in Nat, NEW S \in SUBSET (0 .. M), S # {}
  PROVE  \E m \in S : \A j \in S : m >= j
<1> DEFINE D == {M - j : j \in S}
<1>1. D \in SUBSET Nat /\ D # {}
  <2>1. \A j \in S : M - j \in Nat
    OBVIOUS
  <2>2. PICK j \in S : TRUE
    OBVIOUS
  <2> QED BY <2>1, <2>2
<1> HIDE DEF D
<1>2. PICK d \in D : \A e \in D : d <= e
  BY <1>1, Least
<1> USE DEF D
<1>3. PICK m \in S : d = M - m
  BY <1>2
<1>4. \A j \in S : M - m <= M - j
  BY <1>2, <1>3
<1> QED BY <1>4

IInv == inPacket \in [Chan -> BOOLEAN] /\ NeverSwitchesInPacket

\* What a beat leaves open is a truth value.
LEMMA OpenAfterType ==
  ASSUME inPacket \in [Chan -> BOOLEAN], NEW c \in Chan
  PROVE  OpenAfter(c) \in BOOLEAN
  BY DEF OpenAfter, OpenAfterMseo, PacketDone

\* One clock edge keeps the packet and the lock together.
LEMMA EdgeStep ==
  ASSUME IInv, NEW ready \in BOOLEAN, NEW resync \in BOOLEAN, Edge(ready, resync)
  PROVE  IInv'
<1> DEFINE xfer == XferCurr(ready)
           open == OpenAfter(selIdx)
<1>1. inPacket' = IF xfer THEN [inPacket EXCEPT ![selIdx] = open] ELSE inPacket
  BY Zenon DEF Edge, FrameEdge
<1>2. owner' = IF xfer THEN IF open THEN selIdx ELSE NoChan ELSE owner
  BY Zenon DEF Edge, WireEdge
<1>3. Locked(ready) => selValid' = selValid /\ selIdx' = selIdx
  BY DEF Edge, SelectEdge
<1>4. /\ xfer /\ open => Locked(ready)
      /\ ~xfer /\ selValid /\ inPacket[selIdx] => Locked(ready)
  BY Zenon DEF Locked, XferCurr
<1>5. xfer => selValid
  BY DEF XferCurr
<1>6. inPacket' \in [Chan -> BOOLEAN]
  <2>1. CASE xfer /\ selIdx \in Chan
    BY <1>1, <2>1, OpenAfterType DEF IInv
  <2>2. CASE ~(xfer /\ selIdx \in Chan)
    BY <1>1, <2>2 DEF IInv
  <2> QED BY <2>1, <2>2
<1>7. ASSUME NEW c \in Chan, inPacket'[c] \/ owner' = c
      PROVE  inPacket'[c] /\ owner' = c /\ selValid' /\ selIdx' = c
  <2>1. CASE xfer
    <3>0. selIdx = c => open \in BOOLEAN
      BY OpenAfterType DEF IInv
    <3> HIDE DEF xfer, open
    <3>1. selIdx = c
      BY <1>1, <1>2, <1>7, <2>1, FunnelAssumption DEF IInv, NeverSwitchesInPacket
    <3>2. open = TRUE
      <4>1. inPacket'[c] = open
        BY <1>1, <2>1, <3>1 DEF IInv
      <4>2. owner' = c => open
        BY <1>2, <2>1, FunnelAssumption
      <4>3. inPacket'[c] \in BOOLEAN
        BY <1>6
      <4>4. open \in BOOLEAN
        BY <3>0, <3>1
      <4>5. inPacket'[c] = TRUE \/ owner' = c
        BY <1>7, <4>3
      <4> QED
        BY <4>1, <4>2, <4>4, <4>5, Zenon
    <3>3. selValid' /\ selIdx' = c
      <4>1. Locked(ready)
        BY <1>4, <2>1, <3>2, Zenon
      <4>2. selValid' = selValid /\ selIdx' = selIdx
        BY <1>3, <4>1
      <4> QED
        BY <1>5, <2>1, <3>1, <4>2
    <3>4. inPacket'[c] = TRUE /\ owner' = c
      BY <1>1, <1>2, <2>1, <3>1, <3>2 DEF IInv
    <3> QED
      BY <3>3, <3>4
  <2>2. CASE ~xfer
    <3> HIDE DEF xfer, open
    <3>1. inPacket[c] /\ owner = c /\ selValid /\ selIdx = c
      BY <1>1, <1>2, <1>7, <2>2 DEF IInv, NeverSwitchesInPacket
    <3> QED
      BY <1>1, <1>2, <1>3, <1>4, <2>2, <3>1
  <2> QED BY <2>1, <2>2
<1> QED
  BY <1>6, <1>7 DEF IInv, NeverSwitchesInPacket

\* Nothing but a clock edge touches the packet, the lock or the wire.
LEMMA OtherStep ==
  ASSUME IInv,
         \/ \E c \in Chan : Produce(c) \/ Offer(c) \/ SetLocal(c)
         \/ SetGlobal \/ SetPrio \/ UNCHANGED vars
  PROVE  IInv'
<1>1. UNCHANGED <<inPacket, owner, selValid, selIdx>>
  BY DEF Produce, Offer, SetLocal, SetGlobal, SetPrio, vars, selVars, frameVars, wireVars
<1> QED
  BY <1>1 DEF IInv, NeverSwitchesInPacket

\* Packets are never interleaved on the merged stream.
THEOREM FunnelPacketTheorem == Spec => []NeverSwitchesInPacket
<1>1. Init => IInv
  BY FunnelAssumption DEF Init, Registers, IInv, NeverSwitchesInPacket
<1>2. IInv /\ [Next]_vars => IInv'
  <2> SUFFICES ASSUME IInv, [Next]_vars PROVE IInv'
    OBVIOUS
  <2>1. CASE \E ready, resync \in BOOLEAN : Edge(ready, resync)
    BY <2>1, EdgeStep
  <2>2. CASE ~\E ready, resync \in BOOLEAN : Edge(ready, resync)
    BY <2>2, OtherStep DEF Next
  <2> QED BY <2>1, <2>2
<1>3. IInv => NeverSwitchesInPacket
  BY DEF IInv
<1> QED BY <1>1, <1>2, <1>3, PTL DEF Spec

-----------------------------------------------------------------------------
(* The stream can be attributed.  SInv says what the funnel's parser, the  *)
(* source behind a channel and the tag on the wire have to do with each    *)
(* other between two edges.                                                *)

Types ==
  /\ prio \in PrioChoices /\ chanReq \in [Chan -> BOOLEAN] /\ globalReq \in BOOLEAN
  /\ selValid \in BOOLEAN /\ selIdx \in Chan
  /\ rrHead \in [1 .. MaxPrio -> Chan] /\ flushRrHead \in Chan
  /\ inPacket \in [Chan -> BOOLEAN] /\ teLeft \in [Chan -> 0 .. MaxLen]
  /\ lastSrc \in Chan /\ lastSrcValid \in BOOLEAN /\ tagSent \in BOOLEAN
  /\ localAck \in [Chan -> BOOLEAN] /\ globalAck \in [Chan -> BOOLEAN]
  /\ globalActive \in BOOLEAN
  /\ held \in [Chan -> 0 .. MaxHeld]
  /\ owner \in Chan \cup {NoChan} /\ demux \in Chan \cup {NoChan}
  /\ DOMAIN beat = Chan /\ srcOpen \in [Chan -> BOOLEAN] /\ srcLeft \in [Chan -> 0 .. MaxLen]

\* A beat on offer is one the source can send there, and the source holds it.
BeatOf(c) ==
  beat[c] # <<>> =>
     /\ held[c] > 0
     /\ beat[c] \in IF c \in TeRaw THEN TeBeats(inPacket[c]) ELSE MseoBeats(inPacket[c])

\* What the length counter will be once the offered beat is taken.
LeftAfter(c) == IF inPacket[c] THEN teLeft[c] - 1 ELSE beat[c][1]

\* The parser is where the source was before the beat on offer.
Framing(c) ==
  /\ srcOpen[c] = IF Valid(c) THEN OpenAfter(c) ELSE inPacket[c]
  /\ c \in TeRaw /\ srcOpen[c] => srcLeft[c] = IF Valid(c) THEN LeftAfter(c) ELSE teLeft[c]
  /\ c \in TeRaw /\ inPacket[c] => teLeft[c] # 0
  /\ c \in TeRaw /\ srcOpen[c] => srcLeft[c] # 0
  /\ c \notin TeRaw => teLeft[c] = 0 /\ srcLeft[c] = 0

SInv == Types /\ \A c \in Chan : BeatOf(c) /\ Framing(c)

\* The end of a packet closes it: behind an end a source sends ends only.
LEMMA DoneCloses ==
  ASSUME NEW c \in Chan, inPacket[c] \in BOOLEAN, BeatOf(c), Valid(c), PacketDone(c)
  PROVE  ~OpenAfter(c)
<1>1. CASE c \in TeRaw
  BY <1>1 DEF OpenAfter
<1>2. CASE c \notin TeRaw
  <2>1. beat[c] \in MseoBeats(inPacket[c])
    BY <1>2 DEF BeatOf, Valid
  <2>2. /\ DOMAIN beat[c] = 1 .. Chunks /\ Len(beat[c]) = Chunks /\ Chunks \in Nat
        /\ \A i \in 1 .. Chunks - 1 : beat[c][i] = End => beat[c][i + 1] = End
    BY <2>1, FunnelAssumption DEF MseoBeats
  <2>3. PICK k \in 1 .. Chunks : beat[c][k] = End
    BY <1>2, <2>2 DEF PacketDone, DoneMseo, Has
  <2>5. \A j \in k .. Chunks : beat[c][j] = End
    <3> DEFINE S == {j \in k .. Chunks : beat[c][j] # End}
    <3> SUFFICES ASSUME S # {} PROVE FALSE
      OBVIOUS
    <3>1. S \in SUBSET Nat
      BY <2>2
    <3> HIDE DEF S
    <3>2. PICK m \in S : \A j \in S : m <= j
      BY <3>1, Least
    <3> USE DEF S
    <3>3. m # k /\ m - 1 \in k .. Chunks /\ m - 1 \in 1 .. Chunks - 1
      BY <2>2, <2>3
    <3>4. m - 1 \notin S
      BY <3>2, <3>3
    <3> QED BY <2>2, <3>3, <3>4
  <2>6. beat[c][Chunks] = End
    BY <2>2, <2>5
  <2>7. ~(\E i \in 1 .. Len(beat[c]) : beat[c][i] = Start /\ \A j \in i + 1 .. Len(beat[c]) : beat[c][j] = Var)
    <3> SUFFICES ASSUME NEW i \in 1 .. Chunks, beat[c][i] = Start,
                        \A j \in i + 1 .. Chunks : beat[c][j] = Var
                 PROVE  FALSE
      BY <2>2
    <3> QED BY <2>2, <2>6 DEF Start, Var, End
  <2> QED BY <1>2, <2>2, <2>3, <2>7 DEF OpenAfter, OpenAfterMseo, Has
<1> QED BY <1>1, <1>2

-----------------------------------------------------------------------------
(* Arbitration: whoever is chosen outranks everyone who waits.             *)

\* The rotating pick is a member of the set.
LEMMA PickRrMember ==
  ASSUME NEW S \in SUBSET Chan, S # {}, NEW from \in Chan
  PROVE  PickRr(S, from) \in S
<1>0. N \in Nat
  BY FunnelAssumption
<1> DEFINE D == {Ahead(from, c) : c \in S}
<1>1. \A c \in S : Ahead(from, c) \in Nat
  BY <1>0 DEF Ahead, Chan
<1>2. PICK c0 \in S : TRUE
  OBVIOUS
<1>3. D \in SUBSET Nat /\ D # {}
  BY <1>1, <1>2
<1> HIDE DEF D
<1>4. PICK m \in D : \A e \in D : m <= e
  BY <1>3, Least
<1> USE DEF D
<1>5. PICK c \in S : m = Ahead(from, c)
  BY <1>4
<1>6. \A d \in S : Ahead(from, c) <= Ahead(from, d)
  BY <1>4, <1>5
<1> QED BY <1>5, <1>6 DEF PickRr

\* The arbiter chooses nobody only if nobody waits, and else an eligible
\* channel of the highest priority.
LEMMA ArbTop ==
  ASSUME prio \in [Chan -> Prio], rrHead \in [1 .. MaxPrio -> Chan],
         NEW ready \in BOOLEAN
  PROVE  /\ Arb(ready) \in Chan \cup {NoChan}
         /\ \A c \in Chan : NormalEligible(c, ready) =>
              Arb(ready) \in Chan /\ prio[Arb(ready)] >= prio[c]
<1> DEFINE busy == {p \in 1 .. MaxPrio : Contenders(p, ready) # {}}
           top == CHOOSE x \in busy : \A y \in busy : x >= y
<1>0. MaxPrio \in Nat /\ busy \in SUBSET (0 .. MaxPrio)
  BY FunnelAssumption
<1>1. Arb(ready) = IF busy = {} THEN NoChan ELSE PickRr(Contenders(top, ready), rrHead[top])
  BY DEF Arb
<1>2. \A c \in Chan : NormalEligible(c, ready) => prio[c] \in busy
  <2> TAKE c \in Chan
  <2> HAVE NormalEligible(c, ready)
  <2>1. prio[c] \in Prio /\ prio[c] # 0
    BY DEF NormalEligible, Active
  <2>2. prio[c] \in 1 .. MaxPrio
    BY <2>1, FunnelAssumption DEF Prio
  <2>3. c \in Contenders(prio[c], ready)
    BY DEF Contenders
  <2> QED BY <2>2, <2>3
<1>3. ASSUME busy # {}
      PROVE  /\ top \in busy /\ \A y \in busy : top >= y
             /\ Arb(ready) \in Contenders(top, ready)
  <2> HIDE DEF busy
  <2>1. \E x \in busy : \A y \in busy : x >= y
    BY <1>0, <1>3, Greatest
  <2>2. top \in busy /\ \A y \in busy : top >= y
    BY <2>1
  <2> HIDE DEF top
  <2>3. top \in 1 .. MaxPrio /\ Contenders(top, ready) # {}
    BY <2>2 DEF busy
  <2>4. Contenders(top, ready) \in SUBSET Chan /\ rrHead[top] \in Chan
    BY <2>3 DEF Contenders
  <2>5. PickRr(Contenders(top, ready), rrHead[top]) \in Contenders(top, ready)
    BY <2>3, <2>4, PickRrMember
  <2> QED BY <1>1, <1>3, <2>2, <2>5
<1> HIDE DEF busy, top
<1>4. busy # {} => Arb(ready) \in Chan /\ prio[Arb(ready)] = top
  BY <1>3 DEF Contenders
<1>5. Arb(ready) \in Chan \cup {NoChan}
  BY <1>1, <1>4
<1>6. ASSUME NEW c \in Chan, NormalEligible(c, ready)
      PROVE  Arb(ready) \in Chan /\ prio[Arb(ready)] >= prio[c]
  BY <1>2, <1>3, <1>4, <1>6
<1> QED BY <1>5, <1>6

-----------------------------------------------------------------------------
(* A clock edge keeps SInv, one lemma per part.                            *)

\* A beat that leaves was on offer, and one that is dropped is not the
\* selected channel's data.
LEMMA ConsumedFacts ==
  ASSUME SInv, NEW ready \in BOOLEAN, NEW c \in Chan
  PROVE  /\ Consumed(c, ready) => Valid(c) /\ held[c] > 0
         /\ XferCurr(ready) => selValid /\ Valid(selIdx) /\ ~IdleDrop(selIdx)
         /\ IdleDrop(c) => Valid(c) /\ c \notin TeRaw /\ ~inPacket[c] /\ ~Has(beat[c], Start)
<1>1. XferCurr(ready) => selValid /\ Valid(selIdx) /\ ~IdleDrop(selIdx)
  BY Zenon DEF XferCurr, IdleDrop
<1>2. IdleDrop(c) => Valid(c) /\ c \notin TeRaw /\ ~inPacket[c] /\ ~Has(beat[c], Start)
  BY Zenon DEF IdleDrop, HasData, DataMseo
<1>3. Consumed(c, ready) => Valid(c)
  BY <1>1, <1>2, Zenon DEF Consumed
<1>4. Valid(c) => held[c] > 0
  BY DEF SInv, BeatOf, Valid
<1> QED BY <1>1, <1>2, <1>3, <1>4

\* What the edge does to the parser and the beat of one channel.
LEMMA EdgeParser ==
  ASSUME SInv, NEW ready \in BOOLEAN, NEW resync \in BOOLEAN, Edge(ready, resync), NEW c \in Chan
  PROVE  /\ srcOpen'[c] = srcOpen[c] /\ srcLeft'[c] = srcLeft[c]
         /\ beat'[c] = IF Consumed(c, ready) THEN <<>> ELSE beat[c]
         /\ inPacket'[c] = IF XferCurr(ready) /\ selIdx = c THEN OpenAfter(c) ELSE inPacket[c]
         /\ teLeft'[c] = IF XferCurr(ready) /\ selIdx = c /\ c \in TeRaw THEN LeftAfter(c) ELSE teLeft[c]
<1>1. srcOpen'[c] = srcOpen[c] /\ srcLeft'[c] = srcLeft[c]
  BY DEF Edge
<1>2. beat'[c] = IF Consumed(c, ready) THEN <<>> ELSE beat[c]
  BY DEF Edge, SourceEdge
<1> DEFINE xfer == XferCurr(ready)
           open == OpenAfter(selIdx)
<1>3. /\ inPacket' = IF xfer THEN [inPacket EXCEPT ![selIdx] = open] ELSE inPacket
      /\ selIdx \in Chan /\ inPacket \in [Chan -> BOOLEAN] /\ teLeft \in [Chan -> 0 .. MaxLen]
  BY Zenon DEF Edge, FrameEdge, SInv, Types
<1>4. inPacket'[c] = IF xfer /\ selIdx = c THEN OpenAfter(c) ELSE inPacket[c]
  <2> HIDE DEF xfer, open
  <2>1. inPacket'[c] = IF xfer /\ selIdx = c THEN open ELSE inPacket[c]
    BY <1>3
  <2>2. selIdx = c => open = OpenAfter(c)
    BY DEF open
  <2> QED BY <2>1, <2>2
<1>5. teLeft' = IF xfer /\ selIdx \in TeRaw
                 THEN [teLeft EXCEPT ![selIdx] = LeftAfter(selIdx)] ELSE teLeft
  BY DEF Edge, FrameEdge, LeftAfter
<1>6. teLeft'[c] = IF xfer /\ selIdx = c /\ c \in TeRaw THEN LeftAfter(c) ELSE teLeft[c]
  <2> HIDE DEF xfer
  <2>1. CASE selIdx = c
    BY <1>3, <1>5, <2>1
  <2>2. CASE selIdx # c
    BY <1>3, <1>5, <2>2
  <2> QED BY <2>1, <2>2
<1> QED BY <1>1, <1>2, <1>4, <1>6

\* A beat of a length-prefixed channel leaves a count within the bounds.
LEMMA LeftAfterType ==
  ASSUME SInv, NEW c \in TeRaw, Valid(c)
  PROVE  LeftAfter(c) \in 0 .. MaxLen
<1>0. c \in Chan /\ MaxLen \in Nat
  BY FunnelAssumption
<1>1. CASE inPacket[c]
  <2>1. teLeft[c] \in 0 .. MaxLen /\ teLeft[c] # 0
    BY <1>0, <1>1 DEF SInv, Types, Framing
  <2> QED BY <1>0, <1>1, <2>1 DEF LeftAfter
<1>2. CASE ~inPacket[c]
  <2>1. beat[c] \in TeBeats(inPacket[c])
    BY <1>0 DEF SInv, BeatOf, Valid
  <2>2. beat[c][1] \in 0 .. MaxLen
    BY <1>2, <2>1 DEF TeBeats
  <2> QED BY <1>2, <2>2 DEF LeftAfter
<1> QED BY <1>1, <1>2

LEMMA EdgeFraming ==
  ASSUME SInv, NEW ready \in BOOLEAN, NEW resync \in BOOLEAN, Edge(ready, resync), NEW c \in Chan
  PROVE  Framing(c)'
<1>0. Framing(c) /\ inPacket[c] \in BOOLEAN /\ srcOpen[c] \in BOOLEAN /\ selIdx \in Chan
  BY DEF SInv, Types
<1>1. CASE XferCurr(ready) /\ selIdx = c
  <2>1. Valid(c) /\ Consumed(c, ready)
    BY <1>1, ConsumedFacts DEF Consumed
  <2>2. /\ ~Valid(c)' /\ inPacket'[c] = OpenAfter(c)
        /\ teLeft'[c] = IF c \in TeRaw THEN LeftAfter(c) ELSE teLeft[c]
    BY <1>1, <2>1, EdgeParser DEF Valid
  <2> QED BY <1>0, <2>1, <2>2, EdgeParser DEF Framing
<1>2. CASE IdleDrop(c)
  <2>1. /\ Valid(c) /\ c \notin TeRaw /\ ~inPacket[c] /\ ~Has(beat[c], Start)
        /\ ~(XferCurr(ready) /\ selIdx = c) /\ Consumed(c, ready)
    BY <1>2, ConsumedFacts DEF Consumed
  <2>2. ~Valid(c)' /\ inPacket'[c] = inPacket[c] /\ teLeft'[c] = teLeft[c]
    BY <2>1, EdgeParser DEF Valid
  <2>3. ~OpenAfter(c)
    BY <1>0, <2>1 DEF OpenAfter, OpenAfterMseo, Has
  <2> QED BY <1>0, <2>1, <2>2, <2>3, EdgeParser DEF Framing
<1>3. CASE ~Consumed(c, ready)
  <2>1. /\ beat'[c] = beat[c] /\ inPacket'[c] = inPacket[c] /\ teLeft'[c] = teLeft[c]
        /\ srcOpen'[c] = srcOpen[c] /\ srcLeft'[c] = srcLeft[c]
    BY <1>3, EdgeParser DEF Consumed
  <2>2. OpenAfter(c)' = OpenAfter(c) /\ Valid(c)' = Valid(c) /\ LeftAfter(c)' = LeftAfter(c)
    BY <2>1 DEF OpenAfter, PacketDone, Valid, LeftAfter
  <2> QED BY <1>0, <2>1, <2>2 DEF Framing
<1> QED BY <1>1, <1>2, <1>3 DEF Consumed

LEMMA EdgeBeat ==
  ASSUME SInv, NEW ready \in BOOLEAN, NEW resync \in BOOLEAN, Edge(ready, resync), NEW c \in Chan
  PROVE  BeatOf(c)'
<1>1. CASE Consumed(c, ready)
  BY <1>1, EdgeParser DEF BeatOf
<1>2. CASE ~Consumed(c, ready)
  <2>1. beat'[c] = beat[c] /\ inPacket'[c] = inPacket[c]
    BY <1>2, EdgeParser DEF Consumed
  <2>2. held'[c] = held[c] - (IF Consumed(c, ready) THEN 1 ELSE 0)
    BY DEF Edge, SourceEdge
  <2>3. held'[c] = held[c]
    BY <1>2, <2>2 DEF SInv, Types
  <2> QED BY <2>1, <2>3 DEF SInv, BeatOf, TeBeats, MseoBeats
<1> QED BY <1>1, <1>2

LEMMA EdgeTypes ==
  ASSUME SInv, NEW ready \in BOOLEAN, NEW resync \in BOOLEAN, Edge(ready, resync)
  PROVE  Types'
<1>0. Types
  BY DEF SInv
<1>1. prio' \in PrioChoices /\ chanReq' \in [Chan -> BOOLEAN] /\ globalReq' \in BOOLEAN
  BY <1>0 DEF Types, Edge, inputVars
<1>2. selValid' \in BOOLEAN /\ selIdx' \in Chan
  <2>1. prio \in [Chan -> Prio] /\ 0 \in Chan
    BY <1>0, FunnelAssumption DEF Types, Chan
  <2>2. Arb(ready) \in Chan \cup {NoChan}
    BY <1>0, <2>1, ArbTop DEF Types
  <2> QED BY <1>0, <2>1, <2>2 DEF Types, Edge, SelectEdge
<1>3. rrHead' \in [1 .. MaxPrio -> Chan] /\ flushRrHead' \in Chan
  <2>1. Next1(selIdx) \in Chan
    BY <1>0, FunnelAssumption DEF Next1, Types, Chan
  <2>2. \/ rrHead' = rrHead
        \/ prio[selIdx] # 0 /\ rrHead' = [rrHead EXCEPT ![prio[selIdx]] = Next1(selIdx)]
    BY DEF Edge, SelectEdge
  <2>3. flushRrHead' = Next1(selIdx) \/ flushRrHead' = flushRrHead
    BY DEF Edge, SelectEdge
  <2> QED BY <1>0, <2>1, <2>2, <2>3 DEF Types
<1>4. inPacket' \in [Chan -> BOOLEAN]
  BY <1>0, OpenAfterType DEF Types, Edge, FrameEdge
<1>5. teLeft' \in [Chan -> 0 .. MaxLen]
  <2>1. XferCurr(ready) => Valid(selIdx)
    BY DEF XferCurr
  <2>2. teLeft' = IF XferCurr(ready) /\ selIdx \in TeRaw
                    THEN [teLeft EXCEPT ![selIdx] = LeftAfter(selIdx)] ELSE teLeft
    BY DEF Edge, FrameEdge, LeftAfter
  <2> QED BY <1>0, <2>1, <2>2, LeftAfterType DEF Types
<1>6. /\ lastSrc' \in Chan /\ lastSrcValid' \in BOOLEAN /\ tagSent' \in BOOLEAN
  <2>1. lastSrc' = selIdx \/ lastSrc' = lastSrc
    BY DEF Edge, FrameEdge
  <2>2. lastSrcValid' \in BOOLEAN
    BY DEF Edge, FrameEdge
  <2>3. tagSent' \in BOOLEAN
    BY <1>0 DEF Types, Edge, FrameEdge, TagSentNext
  <2> QED BY <1>0, <2>1, <2>2, <2>3 DEF Types
<1>7. /\ localAck' \in [Chan -> BOOLEAN] /\ globalAck' \in [Chan -> BOOLEAN]
      /\ globalActive' \in BOOLEAN
  <2>1. \A c \in Chan : (chanReq[c] /\ (AfReady(c) \/ localAck[c])) \in BOOLEAN
    OBVIOUS
  <2>2. \A c \in Chan : GlobalAckNext(c) \in BOOLEAN
    BY DEF GlobalAckNext
  <2> QED BY <1>0, <2>1, <2>2 DEF Types, Edge, FlushEdge, GlobalFlush
<1>8. held' \in [Chan -> 0 .. MaxHeld]
  <2>1. held' = [c \in Chan |-> held[c] - (IF Consumed(c, ready) THEN 1 ELSE 0)]
    BY DEF Edge, SourceEdge
  <2>2. \A c \in Chan : Consumed(c, ready) => held[c] > 0
    BY ConsumedFacts
  <2>3. \A c \in Chan : held[c] \in 0 .. MaxHeld
    BY <1>0 DEF Types
  <2> QED BY <2>1, <2>2, <2>3, FunnelAssumption
<1>9. owner' \in Chan \cup {NoChan} /\ demux' \in Chan \cup {NoChan}
  BY <1>0 DEF Types, Edge, WireEdge
<1>10. /\ DOMAIN beat' = Chan /\ srcOpen' \in [Chan -> BOOLEAN]
       /\ srcLeft' \in [Chan -> 0 .. MaxLen]
  BY <1>0 DEF Types, Edge, SourceEdge
<1> QED BY <1>1, <1>2, <1>3, <1>4, <1>5, <1>6, <1>7, <1>8, <1>9, <1>10 DEF Types

LEMMA EdgeSInv ==
  ASSUME SInv, NEW ready \in BOOLEAN, NEW resync \in BOOLEAN, Edge(ready, resync)
  PROVE  SInv'
<1>1. Types'
  BY EdgeTypes
<1>2. \A c \in Chan : BeatOf(c)' /\ Framing(c)'
  BY EdgeBeat, EdgeFraming
<1> QED BY <1>1, <1>2 DEF SInv

-----------------------------------------------------------------------------
(* The sources and software keep SInv.                                     *)

\* A beat put on offer continues the packet the parser is in.
LEMMA OfferSInv ==
  ASSUME SInv, NEW k \in Chan, Offer(k)
  PROVE  SInv'
<1>0. Types /\ BeatOf(k) /\ Framing(k) /\ beat[k] = <<>> /\ held[k] > 0
  BY DEF SInv, Offer
<1>1. PICK b \in IF k \in TeRaw THEN TeBeats(srcOpen[k]) ELSE MseoBeats(srcOpen[k]) :
        /\ beat' = [beat EXCEPT ![k] = b]
        /\ srcOpen' = [srcOpen EXCEPT ![k] =
             IF k \in TeRaw THEN ~DoneTe(b, srcOpen[k], srcLeft[k]) ELSE OpenAfterMseo(b, srcOpen[k])]
        /\ srcLeft' = [srcLeft EXCEPT ![k] =
             IF k \notin TeRaw THEN 0 ELSE IF srcOpen[k] THEN srcLeft[k] - 1 ELSE b[1]]
  BY DEF Offer
<1>2. UNCHANGED <<inputVars, flushVars, selVars, frameVars, wireVars, held>>
  BY DEF Offer
<1>3. /\ inPacket[k] = srcOpen[k] /\ srcOpen[k] \in BOOLEAN
      /\ k \in TeRaw /\ srcOpen[k] => srcLeft[k] = teLeft[k] /\ teLeft[k] # 0
      /\ k \notin TeRaw => teLeft[k] = 0
      /\ teLeft[k] \in 0 .. MaxLen /\ srcLeft[k] \in 0 .. MaxLen /\ MaxLen \in Nat
  BY <1>0, FunnelAssumption DEF Types, Framing, Valid
<1>4. /\ beat'[k] = b /\ srcOpen' \in [Chan -> BOOLEAN] /\ DOMAIN beat' = Chan
      /\ inPacket' = inPacket /\ teLeft' = teLeft /\ held' = held
      /\ srcOpen'[k] = IF k \in TeRaw THEN ~DoneTe(b, srcOpen[k], srcLeft[k])
                                      ELSE OpenAfterMseo(b, srcOpen[k])
      /\ srcLeft'[k] = IF k \notin TeRaw THEN 0 ELSE IF srcOpen[k] THEN srcLeft[k] - 1 ELSE b[1]
  <2>1. (IF k \in TeRaw THEN ~DoneTe(b, srcOpen[k], srcLeft[k])
                        ELSE OpenAfterMseo(b, srcOpen[k])) \in BOOLEAN
    BY <1>3 DEF OpenAfterMseo
  <2> HIDE DEF DoneTe, OpenAfterMseo
  <2> QED BY <1>0, <1>1, <1>2, <2>1 DEF Types, frameVars
<1>5. k \in TeRaw /\ ~srcOpen[k] => b[1] \in 0 .. MaxLen
  BY <1>1 DEF TeBeats
<1>6. srcLeft' \in [Chan -> 0 .. MaxLen]
  <2>1. srcLeft'[k] \in 0 .. MaxLen
    BY <1>3, <1>4, <1>5
  <2> QED BY <1>0, <1>1, <1>4, <2>1 DEF Types
<1>7. Types'
  BY <1>0, <1>2, <1>4, <1>6 DEF Types, inputVars, flushVars, selVars, frameVars, wireVars
<1>8. Valid(k)'
  <2>1. b # <<>>
    <3>1. CASE k \in TeRaw
      BY <1>1, <3>1 DEF TeBeats
    <3>2. CASE k \notin TeRaw
      <4>1. b \in [1 .. Chunks -> {Start, Var, End}]
        BY <1>1, <3>2 DEF MseoBeats
      <4> QED BY <4>1, FunnelAssumption
    <3> QED BY <3>1, <3>2
  <2> QED BY <1>4, <2>1 DEF Valid
<1>9. BeatOf(k)'
  BY <1>0, <1>1, <1>3, <1>4 DEF BeatOf, TeBeats, MseoBeats
<1>10. Framing(k)'
  <2>1. OpenAfter(k)' = srcOpen'[k]
    <3>1. CASE k \in TeRaw
      BY <1>3, <1>4, <3>1 DEF OpenAfter, PacketDone, DoneTe
    <3>2. CASE k \notin TeRaw
      BY <1>3, <1>4, <3>2 DEF OpenAfter
    <3> QED BY <3>1, <3>2
  <2>2. k \in TeRaw => LeftAfter(k)' = srcLeft'[k]
    BY <1>3, <1>4 DEF LeftAfter
  <2>3. k \in TeRaw /\ srcOpen'[k] => srcLeft'[k] # 0
    BY <1>3, <1>4, <1>5 DEF DoneTe
  <2> QED BY <1>3, <1>4, <1>8, <2>1, <2>2, <2>3 DEF Framing
<1>11. ASSUME NEW c \in Chan, c # k PROVE BeatOf(c)' /\ Framing(c)'
  <2>1. /\ beat'[c] = beat[c] /\ srcOpen'[c] = srcOpen[c] /\ srcLeft'[c] = srcLeft[c]
        /\ inPacket'[c] = inPacket[c] /\ teLeft'[c] = teLeft[c] /\ held'[c] = held[c]
    BY <1>0, <1>1, <1>4, <1>11 DEF Types
  <2>2. OpenAfter(c)' = OpenAfter(c) /\ Valid(c)' = Valid(c) /\ LeftAfter(c)' = LeftAfter(c)
    BY <2>1 DEF OpenAfter, PacketDone, Valid, LeftAfter
  <2>3. BeatOf(c) /\ Framing(c)
    BY DEF SInv
  <2>4. BeatOf(c)'
    BY <2>1, <2>3 DEF BeatOf, TeBeats, MseoBeats
  <2> QED BY <2>1, <2>2, <2>3, <2>4 DEF Framing
<1> QED BY <1>7, <1>9, <1>10, <1>11 DEF SInv

\* More beats held, and other requests or settings, change no frame.
LEMMA QuietSInv ==
  ASSUME SInv,
         \/ \E c \in Chan : Produce(c) \/ SetLocal(c)
         \/ SetGlobal \/ SetPrio \/ UNCHANGED vars
  PROVE  SInv'
<1>1. UNCHANGED <<beat, srcOpen, srcLeft, inPacket, teLeft, selVars, frameVars, flushVars, wireVars>>
  BY DEF Produce, SetLocal, SetGlobal, SetPrio, vars, frameVars, sourceVars
<1>2. held' \in [Chan -> 0 .. MaxHeld] /\ \A c \in Chan : held'[c] >= held[c]
  <2>0. held \in [Chan -> 0 .. MaxHeld] /\ MaxHeld \in Nat
    BY FunnelAssumption DEF SInv, Types
  <2>1. ASSUME NEW k \in Chan, Produce(k)
        PROVE  held' \in [Chan -> 0 .. MaxHeld] /\ \A c \in Chan : held'[c] >= held[c]
    <3>1. held' = [held EXCEPT ![k] = held[k] + 1] /\ held[k] < MaxHeld
      BY <2>1 DEF Produce
    <3>2. held[k] + 1 \in 0 .. MaxHeld
      BY <2>0, <3>1
    <3>3. held' \in [Chan -> 0 .. MaxHeld]
      BY <2>0, <3>1, <3>2
    <3>4. \A c \in Chan : held'[c] = IF c = k THEN held[k] + 1 ELSE held[c]
      BY <2>0, <3>1
    <3> QED BY <2>0, <3>3, <3>4
  <2>2. CASE ~\E c \in Chan : Produce(c)
    <3>1. held' = held
      BY <2>2 DEF SetLocal, SetGlobal, SetPrio, vars, sourceVars
    <3>2. \A c \in Chan : held[c] \in Int
      BY <2>0
    <3> QED BY <2>0, <3>1, <3>2
  <2> QED BY <2>1, <2>2
<1>3. prio' \in PrioChoices /\ chanReq' \in [Chan -> BOOLEAN] /\ globalReq' \in BOOLEAN
  BY DEF SInv, Types, Produce, SetLocal, SetGlobal, SetPrio, vars, inputVars
<1>4. Types'
  BY <1>1, <1>2, <1>3 DEF SInv, Types, selVars, frameVars, flushVars, wireVars
<1>5. ASSUME NEW c \in Chan PROVE BeatOf(c)' /\ Framing(c)'
  <2>1. OpenAfter(c)' = OpenAfter(c) /\ Valid(c)' = Valid(c) /\ LeftAfter(c)' = LeftAfter(c)
    BY <1>1 DEF OpenAfter, PacketDone, Valid, LeftAfter
  <2>2. BeatOf(c) /\ Framing(c) /\ held[c] \in 0 .. MaxHeld /\ held'[c] \in 0 .. MaxHeld
    BY <1>2 DEF SInv, Types
  <2>3. held[c] > 0 => held'[c] > 0
    BY <1>2, <2>2, FunnelAssumption
  <2>4. BeatOf(c)'
    BY <1>1, <2>2, <2>3 DEF BeatOf, TeBeats, MseoBeats
  <2> QED BY <1>1, <2>1, <2>2, <2>4 DEF Framing
<1> QED BY <1>4, <1>5 DEF SInv

LEMMA SInvInit == Init => SInv
<1> SUFFICES ASSUME Init PROVE SInv
  OBVIOUS
<1>1. Types
  <2>1. 0 \in Chan /\ 0 \in 0 .. MaxLen /\ 0 \in 0 .. MaxHeld
    BY FunnelAssumption DEF Chan
  <2>2. /\ prio \in PrioChoices /\ chanReq = [c \in Chan |-> FALSE] /\ globalReq = FALSE
        /\ owner = NoChan /\ demux = NoChan
        /\ beat = [c \in Chan |-> <<>>] /\ held = [c \in Chan |-> 0]
        /\ srcOpen = [c \in Chan |-> FALSE] /\ srcLeft = [c \in Chan |-> 0]
    BY DEF Init
  <2> QED BY <2>1, <2>2 DEF Init, Registers, Types
<1>2. \A c \in Chan : BeatOf(c) /\ Framing(c)
  BY FunnelAssumption DEF Init, Registers, BeatOf, Framing, Valid
<1> QED BY <1>1, <1>2 DEF SInv

LEMMA SInvStep == SInv /\ [Next]_vars => SInv'
<1> SUFFICES ASSUME SInv, [Next]_vars PROVE SInv'
  OBVIOUS
<1>1. CASE \E ready, resync \in BOOLEAN : Edge(ready, resync)
  BY <1>1, EdgeSInv
<1>2. CASE \E c \in Chan : Offer(c)
  BY <1>2, OfferSInv
<1>3. CASE ~(\E ready, resync \in BOOLEAN : Edge(ready, resync)) /\ ~(\E c \in Chan : Offer(c))
  BY <1>3, QuietSInv DEF Next
<1> QED BY <1>1, <1>2, <1>3

LEMMA SInvGives == SInv => TypeOK /\ FramingAgrees
<1> SUFFICES ASSUME SInv PROVE TypeOK /\ FramingAgrees
  OBVIOUS
<1>1. TypeOK
  BY DEF SInv, Types, BeatOf, TypeOK
<1>2. ASSUME NEW c \in Chan
      PROVE  IF Valid(c) THEN OpenAfter(c) = srcOpen[c]
             ELSE inPacket[c] = srcOpen[c] /\ (srcOpen[c] => teLeft[c] = srcLeft[c])
  BY DEF SInv, Framing
<1> QED BY <1>1, <1>2 DEF FramingAgrees

\* The parser of the funnel follows every source through idle beats, beats
\* with several chunks and length-prefixed payloads, whatever is reprogrammed
\* and whenever a capture restarts.
THEOREM FunnelFramingTheorem == Spec => [](TypeOK /\ FramingAgrees)
  BY SInvInit, SInvStep, SInvGives, PTL DEF Spec

-----------------------------------------------------------------------------
(* Source tags.  A tag that was sent stays with the packet it announces,   *)
(* and the last source tagged is the one the demultiplexer assigns to.     *)
(* Two conditions are needed: no capture restart (it may fall between the  *)
(* tag and its header), and, when tags are sent on a change of source      *)
(* only, no MSEO channel whose chunks make the demultiplexer forget it.    *)

TagHeld ==
  /\ tagSent => /\ selValid /\ selIdx \in TeRaw /\ demux = selIdx
                /\ inPacket[selIdx] \/ Valid(selIdx)
  /\ ~TagAlways /\ lastSrcValid => demux = lastSrc

LEMMA TagEdge ==
  ASSUME TagAlways \/ TeRaw = Chan, SInv, TagHeld,
         NEW ready \in BOOLEAN, Edge(ready, FALSE)
  PROVE  TagHeld'
<1> DEFINE xfer == XferCurr(ready)
           tag  == TagXfer(ready)
<1>0. Types /\ selIdx \in Chan
  BY DEF SInv, Types
<1>1. /\ lastSrcValid' = (tag \/ lastSrcValid)
      /\ lastSrc' = IF tag THEN selIdx ELSE lastSrc
      /\ tagSent' = TagSentNext(ready, FALSE)
      /\ demux' = IF tag THEN selIdx ELSE IF xfer /\ selIdx \notin TeRaw THEN NoChan ELSE demux
  BY Zenon DEF Edge, FrameEdge, WireEdge
<1>2. tag => /\ selValid /\ selIdx \in TeRaw /\ Valid(selIdx) /\ ~inPacket[selIdx] /\ ~xfer
  BY Zenon DEF TagXfer, NeedTag, XferCurr
<1>3. tagSent' => (tag \/ tagSent) /\ ~(xfer /\ PacketDone(selIdx))
  BY <1>1, Zenon DEF TagSentNext
<1>4. /\ beat'[selIdx] = IF Consumed(selIdx, ready) THEN <<>> ELSE beat[selIdx]
      /\ inPacket'[selIdx] = IF xfer THEN OpenAfter(selIdx) ELSE inPacket[selIdx]
  BY <1>0, EdgeParser
<1>5. selIdx \in TeRaw => (Consumed(selIdx, ready) <=> xfer)
  BY Zenon DEF Consumed, IdleDrop, HasData
<1>6. Locked(ready) => selValid' = selValid /\ selIdx' = selIdx
  BY DEF Edge, SelectEdge
<1>7. ASSUME tagSent'
      PROVE  /\ selValid' /\ selIdx' \in TeRaw /\ demux' = selIdx'
             /\ inPacket'[selIdx'] \/ Valid(selIdx)'
  <2>1. selValid /\ selIdx \in TeRaw /\ (inPacket[selIdx] \/ Valid(selIdx))
    BY <1>2, <1>3, <1>7 DEF TagHeld
  <2>2. demux' = selIdx
    BY <1>1, <1>3, <1>7, <2>1 DEF TagHeld
  <2>3. xfer => OpenAfter(selIdx)
    BY <1>3, <1>7, <2>1 DEF OpenAfter
  <2>4. Locked(ready)
    BY <2>1, <2>3, Zenon DEF Locked, StartSeen
  <2>5. selValid' /\ selIdx' = selIdx
    BY <1>6, <2>1, <2>4
  <2>6. inPacket'[selIdx] \/ beat'[selIdx] # <<>>
    <3>1. CASE xfer
      BY <1>4, <2>3, <3>1
    <3>2. CASE ~xfer
      BY <1>4, <1>5, <2>1, <3>2 DEF Valid
    <3> QED BY <3>1, <3>2
  <2> QED BY <2>1, <2>2, <2>5, <2>6 DEF Valid
<1>8. ASSUME ~TagAlways, lastSrcValid' PROVE demux' = lastSrc'
  BY <1>0, <1>1, <1>8 DEF TagHeld
<1> QED BY <1>7, <1>8 DEF TagHeld

\* Between the edges only the beat on offer changes what TagHeld speaks of.
LEMMA TagQuiet ==
  ASSUME SInv, TagHeld,
         \/ \E c \in Chan : Produce(c) \/ Offer(c) \/ SetLocal(c)
         \/ SetGlobal \/ SetPrio \/ UNCHANGED vars
  PROVE  TagHeld'
<1>1. UNCHANGED <<selVars, frameVars, demux>>
  BY DEF Produce, Offer, SetLocal, SetGlobal, SetPrio, vars, wireVars
<1>2. selIdx \in Chan /\ (Valid(selIdx) => beat'[selIdx] # <<>>)
  <2>1. selIdx \in Chan /\ DOMAIN beat = Chan
    BY DEF SInv, Types
  <2>2. CASE \E k \in Chan : Offer(k)
    <3> PICK k \in Chan : Offer(k)
      BY <2>2
    <3>1. beat[k] = <<>> /\ \E b : beat' = [beat EXCEPT ![k] = b]
      BY DEF Offer
    <3> QED BY <2>1, <3>1 DEF Valid
  <2>3. CASE ~\E k \in Chan : Offer(k)
    <3>1. beat' = beat
      BY <2>3 DEF Produce, SetLocal, SetGlobal, SetPrio, vars, sourceVars
    <3> QED BY <2>1, <3>1 DEF Valid
  <2> QED BY <2>2, <2>3
<1> QED BY <1>1, <1>2 DEF TagHeld, Valid, selVars, frameVars

\* Every beat on the merged stream can be given to its source.
THEOREM FunnelAttributionTheorem ==
  ASSUME "resync" \notin Requests, TagAlways \/ TeRaw = Chan
  PROVE  Spec => []StreamAttributable
<1>1. Init => TagHeld
  BY DEF Init, Registers, TagHeld
<1>2. SInv /\ TagHeld /\ [Next]_vars => TagHeld'
  <2> SUFFICES ASSUME SInv, TagHeld, [Next]_vars PROVE TagHeld'
    OBVIOUS
  <2>1. CASE \E ready, resync \in BOOLEAN : Edge(ready, resync)
    <3> PICK ready \in BOOLEAN, resync \in BOOLEAN : Edge(ready, resync)
      BY <2>1
    <3>1. resync = FALSE
      BY DEF Edge
    <3> QED BY <3>1, TagEdge
  <2>2. CASE ~\E ready, resync \in BOOLEAN : Edge(ready, resync)
    BY <2>2, TagQuiet DEF Next
  <2> QED BY <2>1, <2>2
<1>3. SInv /\ TagHeld => DemuxKnowsSource
  BY DEF SInv, Types, TagHeld, DemuxKnowsSource, NeedTag
<1>4. SInv /\ TagHeld /\ NeverSwitchesInPacket => StreamAttributable
  BY <1>3, SInvGives DEF StreamAttributable
<1> QED
  BY <1>1, <1>2, <1>4, SInvInit, SInvStep, FunnelPacketTheorem, PTL DEF Spec

-----------------------------------------------------------------------------
(* Arbitration and the global flush.  The priorities may change, but not   *)
(* their order nor who is switched off: a channel promoted while another   *)
(* moves may be passed twice, and one switched on during a flush has never *)
(* been asked to drain.  Nor do local requests occur: a source that is     *)
(* already draining for one acknowledges the global flush with it.         *)

SameRanks ==
  \A P, Q \in PrioChoices : \A c, d \in Chan :
     (P[c] <= P[d] <=> Q[c] <= Q[d]) /\ (P[c] = 0 <=> Q[c] = 0)

\* A waiter that was passed sees its equal or better selected.
Passed ==
  \A c \in Chan : /\ overtaken[c] \in {0, 1}
                  /\ overtaken[c] = 1 => selValid /\ prio[selIdx] >= prio[c]

\* What a flush has still to drain is what the source still counts down.
Drained ==
  /\ chanReq = [c \in Chan |-> FALSE]
  /\ \A c \in Chan : before[c] \in Nat /\ mark[c] \in Nat
  /\ ~globalActive => \A c \in Chan : ~globalAck[c] /\ flushing[c] = "no"
  /\ globalActive => \A c \in Chan : Participates(c) =>
       IF globalAck[c] THEN before[c] = 0
       ELSE \/ flushing[c] = "done" /\ before[c] = 0
            \/ flushing[c] = "draining" /\ mark[c] = before[c]

\* Once a lower packet has passed, the arbiter turns to the waiter's level.
LEMMA PassedEdge ==
  ASSUME SInv, Passed, NEW ready \in BOOLEAN, NEW resync \in BOOLEAN, Edge(ready, resync)
  PROVE  Passed'
<1> DEFINE xfer == XferCurr(ready)
           done == xfer /\ PacketDone(selIdx)
<1>0. /\ selIdx \in Chan /\ prio \in [Chan -> Prio] /\ rrHead \in [1 .. MaxPrio -> Chan]
      /\ inPacket \in [Chan -> BOOLEAN] /\ prio' = prio
  BY FunnelAssumption DEF SInv, Types, Edge, inputVars
<1>1. SUFFICES ASSUME NEW c \in Chan
               PROVE  /\ overtaken'[c] \in {0, 1}
                      /\ overtaken'[c] = 1 => selValid' /\ prio[selIdx'] >= prio[c]
  BY <1>0 DEF Passed
<1> DEFINE waits == Active(c) /\ Valid(c) /\ HasData(c) /\ ~Consumed(c, ready)
<1>2. /\ ~waits => overtaken'[c] = 0
      /\ waits => overtaken'[c] = IF done /\ prio[selIdx] < prio[c] /\ overtaken[c] < 2
                                   THEN overtaken[c] + 1 ELSE overtaken[c]
  BY DEF Edge, WireEdge
<1>3. CASE ~waits
  BY <1>2, <1>3
<1>4. CASE waits
  <2>1. NormalEligible(c, ready)
    BY <1>4, Zenon DEF NormalEligible, Consumed
  <2>2. Arb(ready) \in Chan /\ prio[Arb(ready)] >= prio[c]
    BY <1>0, <2>1, ArbTop
  <2>3. ~Locked(ready) => selValid' /\ prio[selIdx'] >= prio[c]
    <3>1. ~Locked(ready) => /\ selValid' = (Arb(ready) # NoChan)
                            /\ selIdx' = IF Arb(ready) # NoChan THEN Arb(ready) ELSE 0
      BY DEF Edge, SelectEdge
    <3> QED BY <2>2, <3>1, FunnelAssumption
  <2>4. Locked(ready) => selValid' = selValid /\ selIdx' = selIdx
    BY DEF Edge, SelectEdge
  <2>5. done => ~Locked(ready)
    <3>1. BeatOf(selIdx) /\ inPacket[selIdx] \in BOOLEAN
      BY <1>0 DEF SInv
    <3>2. xfer => Valid(selIdx)
      BY DEF XferCurr
    <3>3. done => ~OpenAfter(selIdx)
      BY <1>0, <3>1, <3>2, DoneCloses
    <3> QED BY <3>3, Zenon DEF Locked
  <2>6. overtaken[c] \in {0, 1} /\ (overtaken[c] = 1 => selValid /\ prio[selIdx] >= prio[c])
    BY DEF Passed
  <2>7. prio[selIdx] \in Int /\ prio[c] \in Int
    BY <1>0 DEF Prio
  <2> HIDE DEF xfer, done, waits
  <2> QED BY <1>2, <1>4, <2>3, <2>4, <2>5, <2>6, <2>7
<1> QED BY <1>3, <1>4

\* An acknowledgement is counted only for a source that has drained.
LEMMA DrainedEdge ==
  ASSUME SInv, Drained, NEW ready \in BOOLEAN, NEW resync \in BOOLEAN, Edge(ready, resync)
  PROVE  Drained'
<1> DEFINE gone(c) == IF Consumed(c, ready) THEN 1 ELSE 0
           minus(m, c) == IF m > gone(c) THEN m - gone(c) ELSE 0
           left(c) == held[c] - gone(c)
<1>1. /\ chanReq' = chanReq /\ globalReq' = globalReq /\ prio' = prio
      /\ globalActive' = globalReq /\ globalReq \in BOOLEAN
  BY DEF Edge, FlushEdge, GlobalFlush, inputVars, SInv, Types
<1>2. ASSUME NEW c \in Chan
      PROVE  /\ globalAck'[c] = GlobalAckNext(c)
             /\ flushing'[c] = IF ~AfValid(c) THEN "no"
                               ELSE IF flushing[c] = "no" THEN "draining"
                               ELSE IF minus(mark[c], c) = 0 THEN "done" ELSE "draining"
             /\ mark'[c] = IF ~AfValid(c) THEN 0
                           ELSE IF flushing[c] = "no" THEN left(c) ELSE minus(mark[c], c)
             /\ before'[c] = IF GlobalFlushRise THEN left(c)
                             ELSE IF GlobalFlush THEN minus(before[c], c) ELSE 0
  BY DEF Edge, FlushEdge, SourceEdge
<1>3. ASSUME NEW c \in Chan PROVE AfValid(c) <=> globalReq /\ Participates(c) /\ ~globalAck[c]
  BY DEF AfValid, LocalPending, GlobalPending, GlobalFlush, Drained
<1>4. ASSUME NEW c \in Chan
      PROVE  /\ left(c) \in Nat /\ \A m \in Nat : minus(m, c) \in Nat /\ minus(0, c) = 0
             /\ before[c] \in Nat /\ mark[c] \in Nat
  <2>1. Consumed(c, ready) => held[c] > 0
    BY ConsumedFacts
  <2>2. held[c] \in Nat
    BY DEF SInv, Types
  <2> QED BY <2>1, <2>2 DEF Drained
<1> HIDE DEF minus, left
<1>5. ASSUME NEW c \in Chan PROVE before'[c] \in Nat /\ mark'[c] \in Nat
  BY <1>2, <1>4
<1>6. ASSUME ~globalReq, NEW c \in Chan PROVE ~globalAck'[c] /\ flushing'[c] = "no"
  BY <1>2, <1>3, <1>6 DEF GlobalAckNext, GlobalFlush
<1>7. ASSUME globalReq, NEW c \in Chan, Participates(c)
      PROVE  IF globalAck'[c] THEN before'[c] = 0
             ELSE \/ flushing'[c] = "done" /\ before'[c] = 0
                  \/ flushing'[c] = "draining" /\ mark'[c] = before'[c]
  <2>1. CASE ~globalActive
    <3>1. ~globalAck[c] /\ flushing[c] = "no" /\ GlobalFlushRise /\ AfValid(c)
      BY <1>3, <1>7, <2>1 DEF Drained, GlobalFlushRise, GlobalFlush
    <3>2. ~globalAck'[c]
      BY <1>2, <1>7, <3>1 DEF GlobalAckNext
    <3> QED BY <1>2, <3>1, <3>2
  <2>2. CASE globalActive /\ globalAck[c]
    <3>1. ~GlobalFlushRise /\ GlobalFlush /\ before[c] = 0
      BY <1>7, <2>2 DEF Drained, GlobalFlushRise, GlobalFlush
    <3>2. before'[c] = 0
      BY <1>2, <1>4, <3>1
    <3>3. globalAck'[c]
      BY <1>2, <1>7, <2>2, <3>1 DEF GlobalAckNext
    <3> QED BY <3>2, <3>3
  <2>3. CASE globalActive /\ ~globalAck[c]
    <3>1. /\ ~GlobalFlushRise /\ GlobalFlush /\ AfValid(c)
          /\ \/ flushing[c] = "done" /\ before[c] = 0
             \/ flushing[c] = "draining" /\ mark[c] = before[c]
      BY <1>3, <1>7, <2>3 DEF Drained, GlobalFlushRise, GlobalFlush
    <3>2. globalAck'[c] <=> flushing[c] = "done"
      BY <1>2, <1>7, <2>3, <3>1 DEF GlobalAckNext, AfReady
    <3>3. before'[c] = minus(before[c], c)
      BY <1>2, <3>1
    <3>4. CASE flushing[c] = "done"
      BY <1>4, <3>1, <3>2, <3>3, <3>4
    <3>5. CASE flushing[c] # "done"
      BY <1>2, <3>1, <3>2, <3>3, <3>5
    <3> QED BY <3>4, <3>5
  <2> QED BY <2>1, <2>2, <2>3
<1>8. \A c \in Chan : Participates(c)' = Participates(c)
  BY <1>1 DEF Participates, Active
<1> QED BY <1>1, <1>5, <1>6, <1>7, <1>8 DEF Drained

\* Requests and settings that keep the order of the channels disturb neither.
LEMMA ServiceQuiet ==
  ASSUME SameRanks, "local" \notin Requests, SInv, Passed, Drained,
         \/ \E c \in Chan : Produce(c) \/ Offer(c) \/ SetLocal(c)
         \/ SetGlobal \/ SetPrio \/ UNCHANGED vars
  PROVE  Passed' /\ Drained'
<1>1. /\ UNCHANGED <<chanReq, overtaken, before, selValid, selIdx, globalAck, globalActive,
                     flushing, mark>>
  BY DEF Produce, Offer, SetLocal, SetGlobal, SetPrio, vars, inputVars, selVars, flushVars,
         sourceVars, wireVars
<1>2. prio \in PrioChoices /\ prio' \in PrioChoices /\ selIdx \in Chan
  BY DEF SInv, Types, Produce, Offer, SetLocal, SetGlobal, SetPrio, vars, inputVars
<1>3. \A c \in Chan : /\ (prio'[selIdx] >= prio'[c]) <=> (prio[selIdx] >= prio[c])
                      /\ (prio'[c] = 0) <=> (prio[c] = 0)
  <2>1. prio \in [Chan -> Prio] /\ prio' \in [Chan -> Prio]
    BY <1>2, FunnelAssumption
  <2>2. \A c \in Chan : /\ prio[c] \in Int /\ prio'[c] \in Int
                        /\ (prio[c] <= prio[selIdx]) <=> (prio'[c] <= prio'[selIdx])
                        /\ (prio[c] = 0) <=> (prio'[c] = 0)
    BY <1>2, <2>1 DEF SameRanks, Prio
  <2> QED BY <1>2, <2>2
<1>4. \A c \in Chan : Participates(c)' = Participates(c)
  BY <1>3 DEF Participates, Active
<1>5. Passed'
  BY <1>1, <1>3 DEF Passed
<1>6. Drained'
  BY <1>1, <1>4 DEF Drained
<1> QED BY <1>5, <1>6

\* A waiting channel is passed by at most one packet of a lower priority, and
\* a global flush that is announced complete has drained every participant.
THEOREM FunnelServiceTheorem ==
  ASSUME SameRanks, "local" \notin Requests
  PROVE  Spec => []NobodyOvertakes
<1>1. Init => Passed /\ Drained
  BY DEF Init, Registers, Passed, Drained
<1>2. SInv /\ Passed /\ Drained /\ [Next]_vars => Passed' /\ Drained'
  <2> SUFFICES ASSUME SInv, Passed, Drained, [Next]_vars PROVE Passed' /\ Drained'
    OBVIOUS
  <2>1. CASE \E ready, resync \in BOOLEAN : Edge(ready, resync)
    BY <2>1, PassedEdge, DrainedEdge
  <2>2. CASE ~\E ready, resync \in BOOLEAN : Edge(ready, resync)
    BY <2>2, ServiceQuiet DEF Next
  <2> QED BY <2>1, <2>2
<1>3. SInv /\ Passed /\ Drained => NobodyOvertakes
  <2> SUFFICES ASSUME SInv, Passed, Drained PROVE NobodyOvertakes
    OBVIOUS
  <2>1. PriorityInversionBounded
    BY DEF Passed, PriorityInversionBounded
  <2>2. FlushIsComplete
    BY DEF Drained, FlushIsComplete, GlobalFlushDone
  <2> QED BY <2>1, <2>2 DEF NobodyOvertakes
<1> QED
  BY <1>1, <1>2, <1>3, SInvInit, SInvStep, PTL DEF Spec
=============================================================================
