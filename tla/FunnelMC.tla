------------------------------ MODULE FunnelMC ------------------------------
(***************************************************************************)
(* Properties of the funnel and the instances TLC checks.                  *)
(***************************************************************************)
EXTENDS Funnel

\* Priority settings of the instances.
Equal      == {[c \in Chan |-> 1]}
Ranked     == Equal \cup {[c \in Chan |-> IF c = 0 THEN 1 ELSE 2]}
Switchable == {[c \in Chan |-> 1], [c \in Chan |-> IF c = 0 THEN 0 ELSE 1]}

\* The funnel's parser and the source agree on where they are in a packet,
\* idle beats, multi-chunk beats and length bytes included.
FramingAgrees ==
  \A c \in Chan :
     IF Valid(c) THEN OpenAfter(c) = srcOpen[c]
                 ELSE inPacket[c] = srcOpen[c] /\ (srcOpen[c] => teLeft[c] = srcLeft[c])

\* No te_raw header leaves before the demultiplexer knows whose it is: the
\* last tag on the wire names the channel, and neither a restart of the
\* capture nor a chunk of an MSEO channel came between the tag and the packet.
DemuxKnowsSource ==
  (selValid /\ selIdx \in TeRaw /\ Valid(selIdx) /\ ~inPacket[selIdx] /\ ~NeedTag)
     => demux = selIdx

\* Strict priority with a one-packet arbitration latency: a waiting channel
\* is passed by at most one packet of a lower priority.
PriorityInversionBounded == \A c \in Chan : overtaken[c] <= 1

\* Global completion is not announced while a participating source still has
\* a beat it held when the flush was requested.
FlushIsComplete ==
  GlobalFlushDone /\ globalActive => \A c \in Chan : Participates(c) => before[c] = 0

\* Nobody outranks the channel.
TopRank(c) == \A d \in Chan : prio[d] <= prio[c]

\* A requested global flush ends, unless strict priority starves a channel
\* that has to drain: with several priorities in use this may happen.
FlushEnds == [](\A c \in Chan : TopRank(c)) => (globalReq ~> GlobalFlushDone)

\* A channel that nobody outranks gets its turn.
TopPriorityServed ==
  \A c \in Chan : []TopRank(c) => ((Valid(c) /\ Active(c)) ~> ~Valid(c))

\* Every beat on the output can be given to its source: packets are not cut,
\* their ends are seen where the source puts them, and the last tag on the
\* wire names the source of a te_raw header.
StreamAttributable == TypeOK /\ NeverSwitchesInPacket /\ FramingAgrees /\ DemuxKnowsSource

\* Arbitration and the global flush together: nobody of a lower priority goes
\* first for longer than a packet, and a finished flush has left nothing behind.
NobodyOvertakes == PriorityInversionBounded /\ FlushIsComplete

\* Everyone nobody outranks gets a turn, and with it the global flush ends.
EveryoneServed == TopPriorityServed /\ FlushEnds
=============================================================================
