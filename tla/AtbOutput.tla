----------------------------- MODULE AtbOutput -----------------------------
(***************************************************************************)
(* The output stage of the Nexus encoder: message buffer, bit slicer, MSEO *)
(* controller and chunk packer on proc_clk, the dual-clock FIFO, the flush *)
(* detector and the Empty chain on atb_atclk.  An edge of a clock is one   *)
(* step.  A message is the sequence of the cycles its slices take to       *)
(* assemble; of a chunk only its MSEO code and "is it a pad" are kept.     *)
(***************************************************************************)
EXTENDS Integers, Sequences, SequencesExt

CONSTANTS Shapes,      \* the messages
          None, Flush, \* no message; the flush pseudo-message
          Lanes,       \* NUM_CHUNKS_PER_ATB_BEAT
          FlushBeats,  \* FLUSH_BEAT_COUNT
          Depth,       \* ATB_CDC_FIFO_DEPTH
          Visible,     \* atb_atclk edges until a written beat is valid
          Quiet,       \* idle cycles before Empty rises
          Ratio,       \* bound: edges of one clock between two of the other
          Flushes      \* bound: flush requests

ASSUME AtbOutputAssumption ==
  /\ {Lanes, FlushBeats, Depth, Visible, Quiet, Ratio} \subseteq Nat \ {0}
  /\ Flushes \in Nat
  /\ Shapes \subseteq Seq(Nat \ {0}) \ {<<>>} /\ {None, Flush} \cap Shapes = {}

VARIABLES
  traceMsg, nexusMsg,     \* output registers of msg_gen and nexus_formatter
  owed, requests,         \* FlushRequest of msg_gen; requests so far
  buf,                    \* the message buffer
  active, cycles, som,    \* slicer: Active, slices to build, StartOfMessage
  sliceValid, sliceEnd,   \* PipeValid, PipeEndOfMessage
  inMsg,                  \* MSEO controller in S_IN_MSG
  payload,                \* chunks of the unfinished beat (ChunkIdx of them)
  padRem, flushRem,       \* PadRem and FlushBeatsRem, 0 = not active
  procEmpty,              \* ProcEmptyQ
  fifo,                   \* [beat, age] in the dual-clock FIFO
  afvalid, flushState, prevEnd,           \* flush detector
  emptySync, quietCnt, chainEmpty,        \* Empty chain
  sent, pos, agrees,      \* a decoder on the ATB: messages it is owed, chunks
                          \* of the one it is in, has it been right so far?
  drift, stay             \* clocks; edges since Substance changed

genVars    == <<traceMsg, nexusMsg, owed>>
slicerVars == <<buf, active, cycles, som, sliceValid, sliceEnd, inMsg>>
packerVars == <<payload, padRem, flushRem, procEmpty>>
atbVars    == <<flushState, prevEnd, emptySync, quietCnt, chainEmpty, pos, agrees>>
vars == <<genVars, slicerVars, packerVars, atbVars, fifo, afvalid, requests,
          sent, drift, stay>>

Msgs   == Shapes \cup {None, Flush}
Chunks == {"data", "end", "pad"}
Late   == Ratio + 2              \* edges a change needs to reach ChainEmptyQ

TypeOK ==
  /\ traceMsg \in Msgs /\ nexusMsg \in Msgs /\ buf \in Msgs
  /\ {owed, active, som, sliceValid, sliceEnd, inMsg, procEmpty, afvalid,
      prevEnd, chainEmpty, agrees} \subseteq BOOLEAN
  /\ payload \in UNION {[1 .. k -> Chunks] : k \in 0 .. Lanes - 1}
  /\ padRem \in 0 .. Lanes - 1 /\ flushRem \in 0 .. FlushBeats
  /\ Len(fifo) <= Depth
  /\ \A i \in DOMAIN fifo : /\ fifo[i].beat \in [1 .. Lanes -> Chunks]
                            /\ fifo[i].age \in 0 .. Visible
  /\ flushState \in {"idle", "wait_is_flushed", "wait_afvalid_low"}
  /\ emptySync \in [1 .. 2 -> BOOLEAN] /\ quietCnt \in 0 .. Quiet - 1
  /\ requests \in 0 .. Flushes
  /\ drift \in -Ratio .. Ratio /\ stay \in 0 .. Late + Quiet

Init ==
  /\ traceMsg = None /\ nexusMsg = None /\ owed = FALSE /\ requests = 0
  /\ buf = None /\ active = FALSE /\ cycles = <<>> /\ som = FALSE
  /\ sliceValid = FALSE /\ sliceEnd = FALSE /\ inMsg = FALSE
  /\ payload = <<>> /\ padRem = 0 /\ flushRem = 0 /\ procEmpty = FALSE
  /\ fifo = <<>> /\ afvalid = FALSE /\ flushState = "idle" /\ prevEnd = TRUE
  /\ emptySync = <<FALSE, FALSE>> /\ quietCnt = 0 /\ chainEmpty = FALSE
  /\ sent = <<>> /\ pos = 0 /\ agrees = TRUE /\ drift = 0 /\ stay = 0

-----------------------------------------------------------------------------
(* proc_clk: the combinational signals *)

Full       == Len(fifo) = Depth
PackerIdle == padRem = 0 /\ flushRem = 0 /\ payload = <<>>
SliceReady == ~Full /\ padRem = 0 /\ flushRem = 0
SliceFire  == sliceValid /\ SliceReady
EomFire    == SliceFire /\ sliceEnd
FlushStartSooner == buf = Flush /\ PackerIdle /\ ~Full  \* seeded fault
FlushStart == buf = Flush /\ PackerIdle /\ ~sliceValid /\ ~Full
Load       == buf \in Shapes /\ ~active
BufReady   == FlushStart \/ Load
MsgReady   == buf = None \/ BufReady

\* The MSEO controller codes the last chunk, and any chunk outside a
\* message, as end of message.
Chunk == IF inMsg /\ ~sliceEnd THEN "data" ELSE "end"

Pads(n) == [i \in 1 .. n |-> "pad"]

BeatIgnoresFull ==  \* seeded fault
        CASE flushRem > 0            -> Pads(Lanes)
          [] padRem = 1              -> Append(payload, "pad")
          [] SliceFire /\ Len(payload) = Lanes - 1 -> Append(payload, Chunk)
          [] OTHER                   -> <<>>
\* The packer's beat of this cycle, <<>> if it writes none.
Beat == CASE Full                    -> <<>>
          [] flushRem > 0            -> Pads(Lanes)
          [] padRem = 1              -> Append(payload, "pad")
          [] SliceFire /\ Len(payload) = Lanes - 1 -> Append(payload, Chunk)
          [] OTHER                   -> <<>>

-----------------------------------------------------------------------------
(* proc_clk: the registers *)

\* msg_gen composes a message, or pays the flush it owes into a free slot.
MsgGen(m) ==
  IF MsgReady
    THEN /\ nexusMsg' = traceMsg /\ traceMsg' = m
         /\ m = Flush => owed
         /\ owed' = (owed /\ m # Flush)
    ELSE m = None /\ UNCHANGED genVars

MsgBuffer ==
  /\ buf' = IF MsgReady THEN nexusMsg ELSE buf
  /\ sent' = IF MsgReady /\ nexusMsg \in Shapes
               THEN Append(sent, Len(nexusMsg)) ELSE sent

\* A slice is built when the output register is free or being freed.
Build == active /\ (~sliceValid \/ (SliceFire /\ ~sliceEnd))

Slicer ==
  /\ som' = Load
  /\ IF Load
       THEN /\ active' = TRUE /\ cycles' = buf /\ sliceValid' = FALSE
            /\ UNCHANGED sliceEnd
       ELSE /\ active' = (active /\ ~EomFire)
            /\ IF Build
                 THEN LET done == Head(cycles) = 1 IN
                      /\ cycles' = IF done THEN Tail(cycles)
                                   ELSE <<Head(cycles) - 1>> \o Tail(cycles)
                      /\ sliceValid' = done
                      /\ sliceEnd' = IF done THEN Len(cycles) = 1 ELSE sliceEnd
                 ELSE /\ sliceValid' = (sliceValid /\ ~SliceFire)
                      /\ UNCHANGED <<cycles, sliceEnd>>

MseoController == inMsg' = IF inMsg THEN ~EomFire ELSE som

ChunkPacker ==
  /\ flushRem' = CASE FlushStart              -> FlushBeats
                   [] flushRem > 0 /\ ~Full   -> flushRem - 1
                   [] OTHER                   -> flushRem
  /\ CASE padRem > 0 /\ ~Full ->
            /\ padRem' = padRem - 1
            /\ payload' = IF padRem = 1 THEN <<>> ELSE Append(payload, "pad")
       [] SliceFire ->
            LET n == (Len(payload) + 1) % Lanes IN
            /\ payload' = IF n = 0 THEN <<>> ELSE Append(payload, Chunk)
            /\ padRem' = IF sliceEnd /\ n # 0 THEN Lanes - n ELSE 0
       [] OTHER -> UNCHANGED <<payload, padRem>>

ProcEmpty == traceMsg = None /\ nexusMsg = None /\ buf = None
             /\ ~sliceValid /\ PackerIdle

Write == fifo' = IF Beat = <<>> THEN fifo
                 ELSE Append(fifo, [beat |-> Beat, age |-> 0])

-----------------------------------------------------------------------------
(* atb_atclk *)

AtbValid == fifo # <<>> /\ Head(fifo).age = Visible
Fire(ready) == AtbValid /\ ready

\* The flush marker: a pad behind an end of message (or another pad).
MarkerSeen(beat) ==
  \E i \in 1 .. Lanes : /\ beat[i] = "pad"
                        /\ IF i = 1 THEN prevEnd ELSE beat[i - 1] # "data"

FlushDetect(ready) ==
  /\ prevEnd' = IF Fire(ready) THEN Head(fifo).beat[Lanes] # "data" ELSE prevEnd
  /\ flushState' =
       CASE flushState = "idle" /\ afvalid -> "wait_is_flushed"
         [] flushState = "wait_is_flushed" /\ Fire(ready)
              /\ MarkerSeen(Head(fifo).beat)        -> "wait_afvalid_low"
         [] flushState = "wait_afvalid_low" /\ ~afvalid -> "idle"
         [] OTHER -> flushState

Afready == flushState = "wait_afvalid_low"

EmptyFilterBlind ==  \* seeded fault: the output is not looked at
  /\ emptySync' = <<procEmpty, emptySync[1]>>
  /\ IF emptySync[2]
       THEN IF quietCnt = Quiet - 1
              THEN chainEmpty' = TRUE /\ UNCHANGED quietCnt
              ELSE quietCnt' = quietCnt + 1 /\ UNCHANGED chainEmpty
       ELSE quietCnt' = 0 /\ chainEmpty' = FALSE
EmptyFilterHasty ==  \* seeded fault: no quiet time
  /\ emptySync' = <<procEmpty, emptySync[1]>>
  /\ chainEmpty' = (emptySync[2] /\ ~AtbValid) /\ UNCHANGED quietCnt
EmptyFilterLate ==  \* seeded fault: one idle cycle too many
  /\ emptySync' = <<procEmpty, emptySync[1]>>
  /\ IF emptySync[2] /\ ~AtbValid
       THEN IF quietCnt = Quiet
              THEN chainEmpty' = TRUE /\ UNCHANGED quietCnt
              ELSE quietCnt' = quietCnt + 1 /\ UNCHANGED chainEmpty
       ELSE quietCnt' = 0 /\ chainEmpty' = FALSE
EmptyFilter ==
  /\ emptySync' = <<procEmpty, emptySync[1]>>
  /\ IF emptySync[2] /\ ~AtbValid
       THEN IF quietCnt = Quiet - 1
              THEN chainEmpty' = TRUE /\ UNCHANGED quietCnt
              ELSE quietCnt' = quietCnt + 1 /\ UNCHANGED chainEmpty
       ELSE quietCnt' = 0 /\ chainEmpty' = FALSE

\* One chunk through a decoder in state d: pads between messages are skipped,
\* an end code closes the message.
Decode(d, chunk) ==
  CASE chunk = "pad" /\ d.pos = 0 -> d
    [] chunk = "data"             -> [d EXCEPT !.pos = @ + 1]
    [] OTHER -> [pos  |-> 0, sent |-> IF d.sent = <<>> THEN <<>> ELSE Tail(d.sent),
                 agrees |-> /\ d.agrees /\ chunk = "end" /\ d.sent # <<>>
                            /\ d.pos + 1 = Head(d.sent)]

Decoder(ready) ==
  LET d == FoldLeft(Decode, [pos |-> pos, sent |-> sent, agrees |-> agrees],
                    IF Fire(ready) THEN Head(fifo).beat ELSE <<>>)
  IN pos' = d.pos /\ sent' = d.sent /\ agrees' = d.agrees

-----------------------------------------------------------------------------
(* The clocks *)

\* A message, or a part of one, anywhere between msg_gen and the ATB.
Substance == \/ traceMsg # None \/ nexusMsg # None \/ buf # None \/ active
             \/ sliceValid \/ ~PackerIdle \/ fifo # <<>>

Longest    == IF Substance THEN Late + 1 ELSE Late + Quiet
Tick(edge) == stay' = IF Substance' # Substance THEN 0
                      ELSE IF stay = Longest THEN stay ELSE stay + edge

ProcEdge(m) ==
  /\ drift > -Ratio /\ drift' = IF drift > 0 THEN -1 ELSE drift - 1
  /\ MsgGen(m) /\ MsgBuffer /\ Slicer /\ MseoController /\ ChunkPacker
  /\ procEmpty' = ProcEmpty /\ Write
  /\ UNCHANGED <<atbVars, afvalid, requests>>
  /\ Tick(0)

AtbEdge(ready) ==
  /\ drift < Ratio /\ drift' = IF drift < 0 THEN 1 ELSE drift + 1
  /\ FlushDetect(ready) /\ EmptyFilter /\ Decoder(ready)
  /\ fifo' = LET rest == IF Fire(ready) THEN Tail(fifo) ELSE fifo
             IN [i \in DOMAIN rest |-> [rest[i] EXCEPT !.age =
                                          IF @ < Visible THEN @ + 1 ELSE @]]
  /\ UNCHANGED <<genVars, slicerVars, packerVars, afvalid, requests>>
  /\ Tick(1)

\* The ATB sink asks for a flush, and releases the request once acknowledged.
RequestFlush == /\ ~afvalid /\ ~Afready /\ requests < Flushes
                /\ afvalid' = TRUE /\ owed' = TRUE /\ requests' = requests + 1
                /\ UNCHANGED <<traceMsg, nexusMsg, slicerVars, packerVars, atbVars,
                               fifo, sent, drift, stay>>
ReleaseFlush == /\ afvalid /\ Afready /\ afvalid' = FALSE
                /\ UNCHANGED <<genVars, slicerVars, packerVars, atbVars, fifo,
                               requests, sent, drift, stay>>
\* Tracing is switched off: a flush nobody waits for.
EnableFall == /\ ~owed /\ requests < Flushes
              /\ owed' = TRUE /\ requests' = requests + 1
              /\ UNCHANGED <<traceMsg, nexusMsg, slicerVars, packerVars, atbVars,
                             fifo, afvalid, sent, drift, stay>>

Next == \/ \E m \in Msgs : ProcEdge(m)
        \/ \E ready \in BOOLEAN : AtbEdge(ready)
        \/ RequestFlush \/ ReleaseFlush \/ EnableFall

Spec == Init /\ [][Next]_vars

-----------------------------------------------------------------------------
(* Properties *)

\* Whatever the sink stalls and wherever flush beats are put, the MSEO codes
\* on the ATB delimit exactly the messages accepted, in order and whole.
DecoderAgrees == agrees

\* ct_L2_mseo_mdo_formatter.sv:353: Empty implies an idle ATB output.
EmptyShowsNoData == chainEmpty => ~AtbValid

\* "falls immediately on any visible substance": Empty is never up while
\* something has been in the chain for longer than the synchronizer takes,
\* between two slices and inside the CDC FIFO included.
EmptyFallsInTime == chainEmpty /\ Substance => stay <= Late

\* An empty chain reports Empty after the synchronizer and the quiet time.
EmptyRisesInTime == ~Substance /\ stay >= Late + Quiet => chainEmpty

\* ct_L2_msg_gen.sv:967: "the marker only has to sit BEHIND everything
\* already emitted": no message waits in the slicer when the marker starts.
MarkerBehind == FlushStart => ~active

\* Empty (rdl: all buffered trace has been delivered) is shown when and only when
\* the chain is empty, up to the delay of the crossing.
EmptyIsTimely == EmptyShowsNoData /\ EmptyFallsInTime /\ EmptyRisesInTime
=============================================================================
