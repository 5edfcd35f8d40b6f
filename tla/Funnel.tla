------------------------------- MODULE Funnel -------------------------------
(***************************************************************************)
(* ct_L1_funnel: merges the ATB streams of several encoders into one.      *)
(*                                                                         *)
(* A channel carries packets made of beats.  An MSEO channel marks packet  *)
(* ends in its chunks; a te_raw channel sends one byte per beat and states *)
(* the payload length in its header byte, and the funnel puts a source tag *)
(* in front of its packets.  One step of the funnel is one edge of atclk:  *)
(* Edge models the whole always_ff block and the sources' reaction to      *)
(* atready and afvalid.  The sources (encoders) are external.              *)
(***************************************************************************)
EXTENDS Integers, Sequences, FiniteSets

CONSTANTS N,            \* N_STREAMS
          MaxPrio,      \* MAX_PRIO; priority 0 switches a channel off
          PrioChoices,  \* the settings of chan_prio software may program
          TeRaw,        \* channels with chan_te_raw (EN_TE_RAW = 1)
          Participants, \* channels with chan_flush_participate
          TagAlways,    \* te_tag_always
          Chunks,       \* CHUNKS_PER_BEAT
          MaxLen,       \* bound: longest te_raw payload
          MaxHeld,      \* bound: beats a source holds
          Requests,     \* which of "local", "global", "resync", "none" occur
          NoChan        \* not a channel

Chan == 0 .. N - 1
Prio == 0 .. MaxPrio
Start == "start" Var == "var" End == "end"   \* MSEO codes 00, 01, 11

ASSUME FunnelAssumption ==
  /\ N \in Nat \ {0} /\ MaxPrio \in Nat \ {0} /\ Chunks \in Nat \ {0}
  /\ MaxLen \in Nat /\ MaxHeld \in Nat \ {0}
  /\ PrioChoices \subseteq [Chan -> Prio]
  /\ TeRaw \subseteq Chan /\ Participants \subseteq Chan
  /\ TagAlways \in BOOLEAN /\ NoChan \notin Chan

VARIABLES
  prio,                      \* chan_prio
  chanReq, globalReq,        \* chan_flush_req and the global flush request
  selValid, selIdx,          \* SelectedValidQ, SelectedIdxQ
  rrHead, flushRrHead,       \* RrHeadQ, FlushRrHeadQ
  inPacket, teLeft,          \* InPacketQ, TeLeftQ
  lastSrc, lastSrcValid, tagSent,        \* LastSrcQ, LastSrcValidQ, TagSentQ
  localAck, globalAck, globalActive,     \* LocalAckSeenQ, GlobalAckSeenQ,
                                         \* GlobalFlushActiveQ
  \* the sources
  beat,                      \* the beat a source offers, <<>> when none
  held,                      \* beats a source holds, the offered one included
  srcOpen, srcLeft,          \* inside a packet; payload bytes still to come
  flushing, mark,            \* the source's own flush and what it must drain
  \* what the consumer of the merged stream sees
  owner,                     \* the channel whose packet is open on the wire
  demux,                     \* the source a demultiplexer assigns bytes to
  before,                    \* beats held when the global flush was requested
  overtaken                  \* packets of lower priority that passed a waiter

flushVars  == <<localAck, globalAck, globalActive>>
selVars    == <<selValid, selIdx, rrHead, flushRrHead>>
frameVars  == <<inPacket, teLeft, lastSrc, lastSrcValid, tagSent>>
sourceVars == <<beat, held, srcOpen, srcLeft, flushing, mark>>
wireVars   == <<owner, demux, before, overtaken>>
inputVars  == <<prio, chanReq, globalReq>>
vars == <<inputVars, flushVars, selVars, frameVars, sourceVars, wireVars>>

TypeOK ==
  /\ prio \in PrioChoices /\ chanReq \in [Chan -> BOOLEAN] /\ globalReq \in BOOLEAN
  /\ selValid \in BOOLEAN /\ selIdx \in Chan
  /\ rrHead \in [1 .. MaxPrio -> Chan] /\ flushRrHead \in Chan
  /\ inPacket \in [Chan -> BOOLEAN] /\ teLeft \in [Chan -> 0 .. MaxLen]
  /\ lastSrc \in Chan /\ lastSrcValid \in BOOLEAN /\ tagSent \in BOOLEAN
  /\ localAck \in [Chan -> BOOLEAN] /\ globalAck \in [Chan -> BOOLEAN]
  /\ globalActive \in BOOLEAN
  /\ \A c \in Chan : beat[c] # <<>> => held[c] > 0
  /\ held \in [Chan -> 0 .. MaxHeld]
  /\ owner \in Chan \cup {NoChan} /\ demux \in Chan \cup {NoChan}

\* Values of the registers after atresetn.
Registers ==
  /\ selValid = FALSE /\ selIdx = 0 /\ flushRrHead = 0
  /\ rrHead = [p \in 1 .. MaxPrio |-> 0]
  /\ inPacket = [c \in Chan |-> FALSE] /\ teLeft = [c \in Chan |-> 0]
  /\ lastSrc = 0 /\ lastSrcValid = FALSE /\ tagSent = FALSE
  /\ localAck = [c \in Chan |-> FALSE] /\ globalAck = [c \in Chan |-> FALSE]
  /\ globalActive = FALSE

Init ==
  /\ prio \in PrioChoices /\ chanReq = [c \in Chan |-> FALSE] /\ globalReq = FALSE
  /\ Registers
  /\ beat = [c \in Chan |-> <<>>] /\ held = [c \in Chan |-> 0]
  /\ srcOpen = [c \in Chan |-> FALSE] /\ srcLeft = [c \in Chan |-> 0]
  /\ flushing = [c \in Chan |-> "no"] /\ mark = [c \in Chan |-> 0]
  /\ owner = NoChan /\ demux = NoChan
  /\ before = [c \in Chan |-> 0] /\ overtaken = [c \in Chan |-> 0]

-----------------------------------------------------------------------------
(* Beats.  parse_beat folds the MSEO code of the chunks; parse_beat_te     *)
(* counts payload bytes.                                                   *)

Has(b, code) == \E i \in 1 .. Len(b) : b[i] = code

\* After the beat the channel is inside a packet: the last start or end
\* chunk decides, a beat with neither changes nothing.
OpenAfterMseo(b, open) ==
  IF Has(b, Start) \/ Has(b, End)
    THEN \E i \in 1 .. Len(b) :
           /\ b[i] = Start
           /\ \A j \in i + 1 .. Len(b) : b[j] = Var
    ELSE open

\* A packet ends in the beat: an end chunk is met inside a packet.
DoneMseo(b, open) == \/ open /\ Has(b, End)
                     \/ \E i, j \in 1 .. Len(b) : i < j /\ b[i] = Start /\ b[j] = End

DataMseoStartOnly(b, open) == Has(b, Start)  \* seeded fault
DataMseo(b, open) == open \/ Has(b, Start)

DoneTe(b, open, left) == IF open THEN left <= 1 ELSE b[1] = 0

HasData(c)    == c \in TeRaw \/ DataMseo(beat[c], inPacket[c])
StartSeen(c)  == IF c \in TeRaw THEN ~inPacket[c] ELSE Has(beat[c], Start)
PacketDone(c) == IF c \in TeRaw THEN DoneTe(beat[c], inPacket[c], teLeft[c])
                                ELSE DoneMseo(beat[c], inPacket[c])
OpenAfter(c)  == IF c \in TeRaw THEN ~PacketDone(c)
                                ELSE OpenAfterMseo(beat[c], inPacket[c])

Valid(c)  == beat[c] # <<>>
Active(c) == prio[c] # 0

-----------------------------------------------------------------------------
(* Source tags *)

\* The header of a te_raw packet waits for its tag.
NeedTag ==
  /\ selValid /\ selIdx \in TeRaw /\ Valid(selIdx) /\ ~inPacket[selIdx] /\ ~tagSent
  /\ TagAlways \/ ~lastSrcValid \/ lastSrc # selIdx

TagXfer(ready) == NeedTag /\ ready

\* A data beat of the selected channel moves.
XferCurr(ready) == selValid /\ Valid(selIdx) /\ ~NeedTag /\ HasData(selIdx) /\ ready

\* Pure idle beats are taken from every active channel and dropped.
IdleDrop(c) == Active(c) /\ Valid(c) /\ ~HasData(c)

Consumed(c, ready) == IdleDrop(c) \/ (c = selIdx /\ XferCurr(ready))

-----------------------------------------------------------------------------
(* Flush *)

GlobalFlush     == globalReq
GlobalFlushRise == GlobalFlush /\ ~globalActive

LocalPending(c)  == chanReq[c] /\ ~localAck[c]
Participates(c)  == Active(c) /\ c \in Participants
GlobalPending(c) == GlobalFlush /\ Participates(c) /\ ~globalAck[c]

\* afvalid towards the source, afready towards the sink.
AfValid(c) == LocalPending(c) \/ GlobalPending(c)
AfReady(c) == flushing[c] = "done"

GlobalFlushDoneAny == GlobalFlush /\ \E c \in Chan : Participates(c) /\ globalAck[c]
GlobalFlushDone == GlobalFlush /\ \A c \in Chan : Participates(c) => globalAck[c]

\* An acknowledgement is remembered until the request ends.
GlobalAckNextNotHeld(c) ==
  GlobalFlush /\ (~Participates(c) \/ (~GlobalFlushRise /\ AfReady(c)))
GlobalAckNext(c) ==
  /\ GlobalFlush
  /\ \/ ~Participates(c)
     \/ ~GlobalFlushRise /\ (AfReady(c) \/ globalAck[c])

FlushEdge ==
  /\ globalActive' = GlobalFlush
  /\ localAck' = [c \in Chan |-> chanReq[c] /\ (AfReady(c) \/ localAck[c])]
  /\ globalAck' = [c \in Chan |-> GlobalAckNext(c)]

-----------------------------------------------------------------------------
(* Arbitration *)

\* The channel that moves a beat on this edge is left out: its next beat is
\* not visible yet.
NormalEligible(c, ready) ==
  /\ Active(c) /\ Valid(c) /\ HasData(c)
  /\ ~(selIdx = c /\ XferCurr(ready))
FlushEligible(c, ready) ==
  NormalEligible(c, ready) /\ (LocalPending(c) \/ GlobalPending(c))

Contenders(p, ready) == {c \in Chan : prio[c] = p /\ NormalEligible(c, ready)}

\* pick_rr: the first candidate at or after the head, cyclically.
Ahead(from, c) == IF c >= from THEN c - from ELSE c - from + N
PickRr(S, from) == CHOOSE c \in S : \A d \in S : Ahead(from, c) <= Ahead(from, d)

\* The arbiter serves the highest priority that has a contender.
\* Seeded faults: the lowest priority first; no rotation within a level.
ArbLowest(ready) ==
  LET busy == {p \in 1 .. MaxPrio : Contenders(p, ready) # {}}
      p == CHOOSE x \in busy : \A y \in busy : x <= y
  IN IF busy = {} THEN NoChan ELSE PickRr(Contenders(p, ready), rrHead[p])
ArbFixedOrder(ready) ==
  LET busy == {p \in 1 .. MaxPrio : Contenders(p, ready) # {}}
      p == CHOOSE x \in busy : \A y \in busy : x >= y
  IN IF busy = {} THEN NoChan ELSE PickRr(Contenders(p, ready), 0)
Arb(ready) ==
  LET busy == {p \in 1 .. MaxPrio : Contenders(p, ready) # {}}
      p == CHOOSE x \in busy : \A y \in busy : x >= y
  IN IF busy = {} THEN NoChan ELSE PickRr(Contenders(p, ready), rrHead[p])

\* current_locked: the selection stays while a packet is open or its first
\* beat waits.  Seeded fault: the lock looks at the beat that just moved only.
LockedNoPacket(ready) ==
  selValid /\ IF XferCurr(ready) THEN OpenAfter(selIdx)
              ELSE Valid(selIdx) /\ StartSeen(selIdx)
Locked(ready) ==
  selValid /\ IF XferCurr(ready) THEN OpenAfter(selIdx)
              ELSE inPacket[selIdx] \/ (Valid(selIdx) /\ StartSeen(selIdx))

Next1NoWrap(c) == c + 1  \* seeded fault
Next1(c) == IF c = N - 1 THEN 0 ELSE c + 1

SelectEdge(ready) ==
  LET done == XferCurr(ready) /\ PacketDone(selIdx) IN
  /\ IF Locked(ready)
       THEN UNCHANGED <<selValid, selIdx>>
       ELSE LET a == Arb(ready) IN
            /\ selValid' = (a # NoChan)
            /\ selIdx' = IF a # NoChan THEN a ELSE 0
  /\ rrHead' = IF done /\ prio[selIdx] # 0
                 THEN [rrHead EXCEPT ![prio[selIdx]] = Next1(selIdx)]
                 ELSE rrHead
  /\ flushRrHead' = IF done /\ FlushEligible(selIdx, ready)
                      THEN Next1(selIdx) ELSE flushRrHead

-----------------------------------------------------------------------------
(* Framing *)

TagSentNextSticky(ready, resync) == (TagXfer(ready) /\ ~resync) \/ tagSent
TagSentNext(ready, resync) ==
  IF XferCurr(ready) /\ PacketDone(selIdx) THEN FALSE
  ELSE (TagXfer(ready) /\ ~resync) \/ tagSent

FrameEdge(ready, resync) ==
  LET xfer == XferCurr(ready)
      tag  == TagXfer(ready) /\ ~resync IN
  /\ lastSrcValid' = (~resync /\ (tag \/ lastSrcValid))
  /\ lastSrc' = IF tag THEN selIdx ELSE lastSrc
  /\ tagSent' = TagSentNext(ready, resync)
  /\ inPacket' = IF xfer THEN [inPacket EXCEPT ![selIdx] = OpenAfter(selIdx)]
                         ELSE inPacket
  /\ teLeft' = IF xfer /\ selIdx \in TeRaw
                 THEN [teLeft EXCEPT ![selIdx] =
                         IF inPacket[selIdx] THEN @ - 1 ELSE beat[selIdx][1]]
                 ELSE teLeft

-----------------------------------------------------------------------------
(* The sources react to the edge: a consumed beat leaves, and a flush      *)
(* drains what was held when afvalid was seen, then holds afready until    *)
(* afvalid falls.  External: the contract of atb_if.                       *)

SourceEdge(ready) ==
  LET gone(c)  == IF Consumed(c, ready) THEN 1 ELSE 0
      left(c)  == held[c] - gone(c)
      minus(m, c) == IF m > gone(c) THEN m - gone(c) ELSE 0 IN
  /\ held' = [c \in Chan |-> left(c)]
  /\ beat' = [c \in Chan |-> IF Consumed(c, ready) THEN <<>> ELSE beat[c]]
  /\ flushing' = [c \in Chan |->
       IF ~AfValid(c) THEN "no"
       ELSE IF flushing[c] = "no" THEN "draining"
       ELSE IF minus(mark[c], c) = 0 THEN "done" ELSE "draining"]
  /\ mark' = [c \in Chan |->
       IF ~AfValid(c) THEN 0
       ELSE IF flushing[c] = "no" THEN left(c) ELSE minus(mark[c], c)]
  /\ before' = [c \in Chan |->
       IF GlobalFlushRise THEN left(c)
       ELSE IF GlobalFlush THEN minus(before[c], c) ELSE 0]

\* What the edge puts on the merged stream, as its consumer reads it.
WireEdge(ready, resync) ==
  LET xfer == XferCurr(ready)
      done == xfer /\ PacketDone(selIdx) IN
  /\ owner' = IF xfer THEN IF OpenAfter(selIdx) THEN selIdx ELSE NoChan ELSE owner
  /\ demux' = IF resync THEN NoChan
              ELSE IF TagXfer(ready) THEN selIdx
              ELSE IF xfer /\ selIdx \notin TeRaw THEN NoChan ELSE demux
  /\ overtaken' = [c \in Chan |->
       IF ~(Active(c) /\ Valid(c) /\ HasData(c)) \/ Consumed(c, ready) THEN 0
       ELSE IF done /\ prio[selIdx] < prio[c] /\ overtaken[c] < 2
            THEN overtaken[c] + 1 ELSE overtaken[c]]

Edge(ready, resync) ==
  /\ resync => "resync" \in Requests
  /\ FlushEdge /\ SelectEdge(ready) /\ FrameEdge(ready, resync)
  /\ SourceEdge(ready) /\ WireEdge(ready, resync)
  /\ UNCHANGED <<inputVars, srcOpen, srcLeft>>

-----------------------------------------------------------------------------
(* Environment: software and the encoders behind the channels *)

\* Beats the formatter or the packetizer may send next: an MSEO beat starts
\* at most one message and pads after its end.
MseoBeats(open) ==
  {b \in [1 .. Chunks -> {Start, Var, End}] :
     /\ open \/ b[1] # Var
     /\ \A i \in 1 .. Chunks - 1 : b[i] = End => b[i + 1] = End}
TeBeats(open) == IF open THEN {<<0>>} ELSE {<<n>> : n \in 0 .. MaxLen}

Produce(c) == /\ held[c] < MaxHeld
              /\ held' = [held EXCEPT ![c] = @ + 1]
              /\ UNCHANGED <<inputVars, flushVars, selVars, frameVars, wireVars,
                             beat, srcOpen, srcLeft, flushing, mark>>

Offer(c) ==
  /\ beat[c] = <<>> /\ held[c] > 0
  /\ \E b \in IF c \in TeRaw THEN TeBeats(srcOpen[c]) ELSE MseoBeats(srcOpen[c]) :
       /\ beat' = [beat EXCEPT ![c] = b]
       /\ srcOpen' = [srcOpen EXCEPT ![c] =
            IF c \in TeRaw THEN ~DoneTe(b, srcOpen[c], srcLeft[c])
                           ELSE OpenAfterMseo(b, srcOpen[c])]
       /\ srcLeft' = [srcLeft EXCEPT ![c] =
            IF c \notin TeRaw THEN 0 ELSE IF srcOpen[c] THEN @ - 1 ELSE b[1]]
  /\ UNCHANGED <<inputVars, flushVars, selVars, frameVars, wireVars,
                 held, flushing, mark>>

SetLocal(c) == /\ "local" \in Requests
               /\ chanReq' = [chanReq EXCEPT ![c] = ~@]
               /\ chanReq[c] => localAck[c]
               /\ UNCHANGED <<prio, globalReq, flushVars, selVars, frameVars,
                              sourceVars, wireVars>>

SetGlobal == /\ "global" \in Requests
             /\ globalReq' = ~globalReq
             /\ globalReq => GlobalFlushDone
             /\ ~globalReq => ~globalActive
             /\ UNCHANGED <<prio, chanReq, flushVars, selVars, frameVars,
                            sourceVars, wireVars>>

SetPrio == /\ prio' \in PrioChoices \ {prio}
           /\ UNCHANGED <<chanReq, globalReq, flushVars, selVars, frameVars,
                          sourceVars, wireVars>>

Next == \/ \E ready, resync \in BOOLEAN : Edge(ready, resync)
        \/ \E c \in Chan : Produce(c) \/ Offer(c) \/ SetLocal(c)
        \/ SetGlobal
        \/ SetPrio

Spec == Init /\ [][Next]_vars

\* The clock runs and the sink is ready again and again, a source that holds
\* a beat offers it, an open packet is continued and a message has an end.
Fairness == /\ WF_vars(Edge(TRUE, FALSE))
            /\ \A c \in Chan : /\ WF_vars(Offer(c))
                               /\ WF_vars((srcOpen[c] \/ inPacket[c]) /\ Produce(c))
                               /\ SF_vars(Offer(c) /\ srcOpen[c] /\ ~srcOpen'[c])
FairSpec == Spec /\ Fairness

-----------------------------------------------------------------------------
\* The merged stream continues a packet only with beats of its own channel,
\* although software may reprogram the priorities (even to 0, off) and the
\* sink may stall in the middle of it: lock, parser state and the packet the
\* consumer has open are one and the same.
NeverSwitchesInPacket ==
  \A c \in Chan : (inPacket[c] \/ owner = c) =>
     inPacket[c] /\ owner = c /\ selValid /\ selIdx = c
=============================================================================
