------------------------------ MODULE Composer ------------------------------
(***************************************************************************)
(* ct_L23_preproc_composer_etip with ovf_injector: the beats of the trace  *)
(* ingress port become eTIP messages, one per control-flow event, and the  *)
(* address that follows each change of control flow travels beside them in *)
(* a FIFO of its own.  When a beat does not fit it is dropped whole, and   *)
(* an ERROR with a FIFO_OVERRUN anchor stands for what was lost.           *)
(*                                                                         *)
(* The serialized arrangement (CT_ETIP_SERIALIZE), one instruction per     *)
(* beat, no filter, data trace or debug events.  An instruction is one     *)
(* address long, so I-CNT counts instructions.  A hart runs Program; a     *)
(* reader of both FIFOs walks the same program along the messages.         *)
(***************************************************************************)
EXTENDS Integers, Sequences

CONSTANTS Program,     \* address -> [op, to], the code the hart runs
          Start,       \* the instruction retired last before the first step
          Handler,     \* address of the interrupt handler
          Skid,        \* SKID, entries of the presentation queue
          EtipDepth,   \* entries of the eTIP FIFO
          SideDepth,   \* entries of the next_iaddr FIFO
          RetDepth,    \* RET_STACK_DEPTH
          IcntCap,     \* 2**NEXUS_MSG_I_CNT_WIDTH
          Flush,       \* sink flush requests: "never", "apart" from pause
                       \* edges, or "racing" with them
          PauseBy,     \* the bit software pauses with: InstTracing or Enable
          Lag,         \* stages of ItaPipe between that bit and the beats
          PauseTraps   \* may the hart trap while tracing is paused?

ASSUME ComposerAssumption ==
  /\ Skid \in Nat \ {0, 1} /\ EtipDepth \in Nat \ {0}
  /\ SideDepth \in Nat \ {0, 1} /\ RetDepth \in Nat \ {0}
  /\ IcntCap \in Nat \ {0, 1}
  /\ Flush \in {"never", "apart", "racing"} /\ PauseTraps \in BOOLEAN
  /\ PauseBy \in {"InstTracing", "Enable"} /\ Lag \in Nat
  /\ PauseBy = "Enable" => Lag > 0
  /\ {Start, Start + 1, Handler} \subseteq DOMAIN Program
  /\ Program[Start].op = "OTHER"

VARIABLES
  hart,                  \* the hart: pc, epc, return addresses
  ita, owed,             \* ItaPipe, the live level first; the sync generator
                         \* owes TRACE_ENABLE
  prevActive, resumeHold,
  flushReq, enableFall,            \* do_flush_atb, DoFlushEnableFall
  doCorr, flushAck,                \* DoCorrDisable, DoFlushAck
  icnt, retStack,                  \* ICntCum, RetStack
  pendingCf, pendingRet,           \* PendingCfNextIaddr, PendingRetTarget
  prevIaddr, prevCf, prevTrap,     \* PrevIAddr, PrevRetireWasCf, PrevEventWasTrap
  nextIaddr,                       \* NextIaddr with NextIaddrWr
  skid, ovfPending, injector,      \* SkidQ, OvfPending, ovf_injector State
  etip, side,                      \* the eTIP and the next_iaddr FIFO
  walker                           \* the reader: position, frames, first error

envVars == <<hart, ita, owed>>
ctlVars == <<prevActive, resumeHold, flushReq, enableFall, doCorr, flushAck>>
cfVars  == <<icnt, retStack, pendingCf, pendingRet, prevIaddr, prevCf, prevTrap>>
outVars == <<nextIaddr, skid, ovfPending, injector, etip, side>>
vars    == <<envVars, ctlVars, cfVars, outVars, walker>>

None == -1

\* The qualifier travels with the beats it qualifies.
active == ita[Lag + 1]

Addr == DOMAIN Program
Unchanging == {"OTHER", "NOT_TAKEN_BRANCH"}
Changing   == {"TAKEN_BRANCH", "JUMP", "CALL", "RETURN", "EXCEPTION_IR", "TRAP"}
Itypes     == Unchanging \cup Changing
Reasons    == {"none", "enable", "periodic", "overrun"}

HasChangedControlFlow(itype)    == itype \in Changing
IsControlFlowInstruction(itype) == itype # "OTHER"

Cf(sync, itype, iaddr, n, rcode) ==
  [sub |-> "CF", sync |-> sync, itype |-> itype, iaddr |-> iaddr,
   icnt |-> n, rcode |-> rcode]
FlushSlot  == [Cf("none", "OTHER", 0, 0, "none") EXCEPT !.sub = "NONE"]
ErrorSlot  == [Cf("none", "OTHER", 0, 0, "none") EXCEPT !.sub = "ERROR"]

Messages == [sub : {"CF", "NONE", "ERROR"}, sync : Reasons, itype : Itypes,
             iaddr : Addr \cup {1 + a : a \in Addr}, icnt : 0 .. IcntCap,
             rcode : {"none", "overflow", "disabled"}]

\* An address awaits the change of control flow it belongs to.
Owes(m) == m.sub = "CF" /\ HasChangedControlFlow(m.itype)

SizeOk(q, n) == Len(q) <= n

\* Types; every queue within its capacity, the count within its field.
TypeOK == /\ hart.pc \in Addr /\ hart.epc \in Addr \cup {None}
          /\ ita \in [1 .. Lag + 1 -> BOOLEAN]
          /\ {owed, prevActive, resumeHold, flushReq, enableFall, doCorr, flushAck,
              pendingCf, prevCf, prevTrap, ovfPending} \subseteq BOOLEAN
          /\ icnt \in 0 .. IcntCap - 1
          /\ retStack \in Seq(Addr) /\ SizeOk(retStack, RetDepth)
          /\ prevIaddr \in Addr /\ pendingRet \in Addr \cup {None}
          /\ nextIaddr = <<>> \/ nextIaddr[1].addr \in Addr
          /\ skid \in Seq(Messages) /\ SizeOk(skid, Skid)
          /\ injector \in {"Forwarding", "Injecting", "Injecting2"}
          /\ etip \in Seq(Messages) /\ SizeOk(etip, EtipDepth)
          /\ SizeOk(side, SideDepth)
          /\ walker.at \in Addr \cup {None}

\* The hart has retired an instruction before tracing is first enabled.
Init ==
  /\ hart = [pc |-> Start + 1, epc |-> None, frames |-> <<>>]
  /\ ita = [k \in 1 .. Lag + 1 |-> FALSE]
  /\ owed = FALSE /\ prevActive = FALSE /\ resumeHold = FALSE
  /\ flushReq = FALSE /\ enableFall = FALSE /\ doCorr = FALSE /\ flushAck = FALSE
  /\ icnt = 0 /\ retStack = <<>> /\ pendingCf = FALSE /\ pendingRet = None
  /\ prevIaddr = Start /\ prevCf = FALSE /\ prevTrap = FALSE
  /\ nextIaddr = <<>> /\ skid = <<>> /\ ovfPending = FALSE
  /\ injector = "Forwarding" /\ etip = <<>> /\ side = <<>>
  /\ walker = [at |-> None, frames |-> <<>>, seeded |-> FALSE, fault |-> "none"]

-----------------------------------------------------------------------------
(* The hart: a cycle without an event, a retirement, an interrupt *)

Idle == [retires |-> FALSE, itype |-> "OTHER", iaddr |-> 0, sync |-> "none",
         hart |-> hart]

\* Where the hart goes after retiring with that itype.
Successor(itype) ==
  CASE itype \in Unchanging     -> hart.pc + 1
    [] itype = "RETURN"         -> Head(hart.frames)
    [] itype = "EXCEPTION_IR"   -> hart.epc
    [] OTHER                    -> Program[hart.pc].to

Outcomes(op) == IF op = "BRANCH" THEN {"TAKEN_BRANCH", "NOT_TAKEN_BRANCH"} ELSE {op}

Retire(itype, sync) ==
  [retires |-> TRUE, itype |-> itype, iaddr |-> hart.pc, sync |-> sync,
   hart |-> [pc     |-> Successor(itype),
             epc    |-> IF itype = "EXCEPTION_IR" THEN None ELSE hart.epc,
             frames |-> CASE itype = "CALL"   -> <<hart.pc + 1>> \o hart.frames
                          [] itype = "RETURN" -> Tail(hart.frames)
                          [] OTHER            -> hart.frames]]

\* The instruction at pc does not retire; iaddr names it all the same.
Trap == [retires |-> FALSE, itype |-> "TRAP", iaddr |-> hart.pc, sync |-> "none",
         hart |-> [hart EXCEPT !.pc = Handler, !.epc = hart.pc]]

\* The sync generator anchors on retirements only, and after a pause it
\* sends TRACE_ENABLE before anything else (PreprocSync!ReanchorFirst).
Offered == IF ~active THEN {"none"}
           ELSE IF owed THEN {"none", "enable"}
           ELSE {"none", "periodic"}

Beats == {Idle}
         \cup {Retire(i, s) : i \in Outcomes(Program[hart.pc].op), s \in Offered}
         \cup {b \in {Trap} : /\ hart.epc = None
                              /\ PauseTraps \/ ~pendingCf
                                   \/ (active /\ prevActive /\ ~resumeHold)}

-----------------------------------------------------------------------------
(* One beat: the slots it fills and the registers it leaves *)

ResumeSuppress(b) == (resumeHold \/ (active /\ ~prevActive)) /\ b.sync = "none"
ProcessNow(b)     == active /\ ~ResumeSuppress(b) /\ (b.retires \/ b.itype = "TRAP")
CountHalfwords(b) == active /\ ~ResumeSuppress(b) /\ b.retires

\* The address the waiting control-flow event led to; in the pause and
\* resume window a retirement supplies it although it is not traced.
Captures(b) == /\ pendingCf
               /\ \/ ProcessNow(b)
                  \/ b.retires /\ (~active \/ ResumeSuppress(b))
Captured(b) == IF Captures(b)
               THEN <<[addr |-> b.iaddr, pred |-> pendingRet = b.iaddr]>> ELSE <<>>

\* The pre-drain of a count that would not fit the field.
Drains(b)  == CountHalfwords(b) /\ icnt + 1 >= IcntCap
Counted(b) == IF ~CountHalfwords(b) THEN icnt ELSE IF Drains(b) THEN 1 ELSE icnt + 1
DrainSlot(b) ==
  IF Drains(b) THEN <<Cf("none", "OTHER", b.iaddr, icnt, "overflow")>> ELSE <<>>

EmitsCf(b) == ProcessNow(b) /\ (b.sync # "none" \/ IsControlFlowInstruction(b.itype))

\* A pure synchronization leaves its own instruction to the next count.
Exclusive(b) == b.sync # "none" /\ ~HasChangedControlFlow(b.itype)
CfSlot(b) ==
  IF EmitsCf(b)
  THEN <<Cf(b.sync, b.itype, b.iaddr,
            IF Exclusive(b) THEN Counted(b) - 1 ELSE Counted(b), "none")>>
  ELSE <<>>
CountAfterCf(b) ==
  IF ~EmitsCf(b) THEN Counted(b) ELSE IF Exclusive(b) THEN 1 ELSE 0

\* The return-address stack; the anchor after a gap does not touch it.
GapReanchor(b) == b.sync = "enable"
Pushes(b) == EmitsCf(b) /\ ~GapReanchor(b) /\ b.itype = "CALL" /\ Len(retStack) < RetDepth
Pops(b)   == EmitsCf(b) /\ ~GapReanchor(b) /\ b.itype = "RETURN" /\ retStack # <<>>
StackAfterCf(b) == IF Pushes(b) THEN <<b.iaddr + 1>> \o retStack
                   ELSE IF Pops(b) THEN Tail(retStack) ELSE retStack
RetAfterCf(b) == IF Pops(b) THEN Head(retStack)
                 ELSE IF EmitsCf(b) \/ Captures(b) THEN None ELSE pendingRet
PendingAfterCf(b) == IF EmitsCf(b) THEN HasChangedControlFlow(b.itype)
                     ELSE pendingCf /\ ~Captures(b)

\* Flush requests, the pause correlation first; one answer per handshake.
DoFlush    == flushReq \/ enableFall \/ doCorr
AckNext    == flushAck /\ DoFlush
Answers    == DoFlush /\ ~AckNext
Correlates == Answers /\ doCorr
FlushSlots(b) ==
  IF Correlates THEN <<Cf("none", "OTHER", 0, CountAfterCf(b), "disabled")>>
  ELSE IF Answers /\ DrainSlot(b) \o CfSlot(b) = <<>> THEN <<FlushSlot>> ELSE <<>>

Slots(b) == DrainSlot(b) \o CfSlot(b) \o FlushSlots(b)

-----------------------------------------------------------------------------
(* Overflow: the skid queue, the marker injector, the next_iaddr FIFO *)

EtipFull == Len(etip) = EtipDepth
Busy     == injector # "Forwarding"

Dequeues == skid # <<>> /\ ~EtipFull /\ ~Busy

\* Seeded fault: the markers do not wait for the accepted messages.
ForceAtOnce == ovfPending

ForceInject == ovfPending /\ skid = <<>>

\* Seeded fault: the anchor may fall on a redirected path after a trap.
HoldNoTrap(b) == \/ prevCf
                 \/ b.retires /\ (HasChangedControlFlow(b.itype) \/ b.itype = "NOT_TAKEN_BRANCH")

\* prevIaddr + 1 is not the address of the next retirement.
InjectHold(b) == \/ prevCf \/ prevTrap \/ b.itype = "TRAP"
                 \/ b.retires /\ (HasChangedControlFlow(b.itype) \/ b.itype = "NOT_TAKEN_BRANCH")

InjectDone(b) == injector = "Injecting2" /\ ~EtipFull /\ ~InjectHold(b)
Dropping == Busy \/ ForceInject

SkidFree    == Skid - Len(skid) + (IF Dequeues THEN 1 ELSE 0)
SinkOverflow(b)  == Slots(b) # <<>> /\ SkidFree < Len(Slots(b))
SidebandDrop     == SideDepth - Len(side) < 2

\* Seeded fault: the beat that does not fit is still queued.
DropsNext(b) == Dropping \/ ovfPending

InEpisode(b)     == SinkOverflow(b) \/ Dropping \/ ovfPending
Lost(b)          == InEpisode(b) \/ SidebandDrop

\* Seeded fault: the pending capture is forgotten on idle cycles as well.
ForgetsAlways(b) == Lost(b)

\* The event of a lost beat waits for no address.
Forgets(b) == Lost(b) /\ (b.retires \/ b.itype = "TRAP")

\* What the injector hands to the eTIP FIFO in this cycle.
Injected(b) ==
  CASE injector = "Forwarding" -> IF Dequeues /\ ~ForceInject THEN <<Head(skid)>> ELSE <<>>
    [] EtipFull                -> <<>>
    [] injector = "Injecting"  -> <<ErrorSlot>>
    [] OTHER -> IF InjectHold(b) THEN <<>>
                ELSE <<Cf("overrun", "OTHER", prevIaddr + 1, 0, "none")>>

InjectorNext(b) ==
  CASE injector = "Forwarding" -> IF ForceInject THEN "Injecting" ELSE "Forwarding"
    [] EtipFull                -> injector
    [] injector = "Injecting"  -> "Injecting2"
    [] OTHER -> IF InjectHold(b) THEN "Injecting2" ELSE "Forwarding"

SkidNext(b) == (IF Dequeues THEN Tail(skid) ELSE skid) \o (IF Lost(b) THEN <<>> ELSE Slots(b))

\* Seeded fault: the count goes on across the discarded window.
IcntAcrossGap(b) == IF Correlates THEN 0 ELSE CountAfterCf(b)

\* The count restarts at the anchor of the marker, a retirement included.
IcntNext(b) == IF InjectDone(b) THEN (IF active /\ b.retires THEN 1 ELSE 0)
               ELSE IF Correlates THEN 0 ELSE CountAfterCf(b)

\* Seeded fault: the frames survive a pause.
StackKept(b) == IF InjectDone(b) THEN <<>> ELSE StackAfterCf(b)

StackNext(b) == IF InjectDone(b) \/ Correlates THEN <<>> ELSE StackAfterCf(b)

RetNext(b) == IF InjectDone(b) \/ Correlates \/ Forgets(b) THEN None ELSE RetAfterCf(b)

-----------------------------------------------------------------------------
(* The clock edge *)

\* The level crosses a handshake (VectorCdc) and so is held for longer than
\* a correlation needs.
Steady == /\ \A k \in 1 .. Lag + 1 : ita[k] = prevActive
          /\ ~doCorr /\ ~enableFall
MayToggle == Steady /\ (Flush = "racing" \/ ~(flushReq \/ flushAck))
MayFlush  == ~flushReq /\ ~flushAck /\ (Flush = "racing" \/ (Flush = "apart" /\ Steady))

Inputs(on, req) == /\ on # ita[1] => MayToggle
                   /\ IF flushReq THEN req = ~flushAck ELSE req => MayFlush
                   /\ req /\ ~flushReq /\ on # ita[1] => Flush = "racing"

ItaPipe(on)  == [k \in 1 .. Lag + 1 |-> IF k = 1 THEN on ELSE ita[k - 1]]
EnableFalls  == PauseBy = "Enable" /\ ita[2] /\ ~ita[1]

Edge(b, on, req) ==
  /\ Inputs(on, req)
  /\ hart' = b.hart /\ ita' = ItaPipe(on) /\ flushReq' = req
  /\ owed' = ((owed /\ b.sync # "enable") \/ (active' /\ ~active))
  /\ prevActive' = active
  /\ resumeHold' = (b.sync = "none" /\ (resumeHold \/ (active /\ ~prevActive)))
  /\ enableFall' = (EnableFalls \/ (enableFall /\ ~flushAck))
  /\ doCorr' = ((prevActive /\ ~active) \/ (doCorr /\ ~flushAck))
  /\ flushAck' = (AckNext \/ Answers)
  /\ icnt' = IcntNext(b)
  /\ retStack' = StackNext(b)
  /\ pendingCf' = (PendingAfterCf(b) /\ ~Forgets(b))
  /\ pendingRet' = RetNext(b)
  /\ prevIaddr' = (IF b.retires THEN b.iaddr ELSE prevIaddr)
  /\ prevCf' = (IF b.retires THEN HasChangedControlFlow(b.itype) ELSE prevCf)
  /\ prevTrap' = (b.itype = "TRAP" \/ (prevTrap /\ ~b.retires))
  /\ nextIaddr' = Captured(b)
  /\ skid' = SkidNext(b)
  /\ ovfPending' = ((ovfPending /\ ~InjectDone(b)) \/ SinkOverflow(b) \/ SidebandDrop)
  /\ injector' = InjectorNext(b)
  /\ etip' = etip \o Injected(b)
  /\ side' = (IF Len(side) < SideDepth THEN side \o nextIaddr ELSE side)
  /\ UNCHANGED walker

-----------------------------------------------------------------------------
(* The reader: msg_gen takes a message with its address, a decoder walks *)

\* n instructions from an address, none of them a control-flow event; the
\* branch of a pure synchronization was announced with the anchor.
Straight(from, n) ==
  \A k \in 0 .. n - 1 :
     /\ from + k \in Addr
     /\ Program[from + k].op = "OTHER" \/ (k = 0 /\ walker.seeded)

Moved(to, ok, seeded) ==
  [walker EXCEPT !.at = to, !.seeded = seeded,
                 !.fault = IF ok \/ @ # "none" THEN @ ELSE "walk"]
Unlocked == [walker EXCEPT !.at = None, !.frames = <<>>, !.seeded = FALSE]

Frames(m) == CASE m.itype = "CALL" -> <<m.iaddr + 1>> \o walker.frames
               [] m.itype = "RETURN" /\ walker.frames # <<>> -> Tail(walker.frames)
               [] OTHER -> walker.frames

\* Target of a change of control flow as the program gives it, if it does.
Agrees(m, target) ==
  CASE m.itype \in {"TAKEN_BRANCH", "JUMP", "CALL"} -> target.addr = Program[m.iaddr].to
    [] m.itype = "TRAP" -> target.addr = Handler
    [] m.itype = "RETURN" /\ m.sync = "none" /\ target.pred ->
         walker.frames # <<>> /\ Head(walker.frames) = target.addr
    [] OTHER -> TRUE

\* A control-flow event or a periodic synchronization on one: the walk ends
\* at its source, then follows it.
Followed(m, target) ==
  LET own == IF m.itype = "TRAP" THEN 0 ELSE 1
      ok  == /\ walker.at # None
             /\ walker.at + m.icnt = m.iaddr + own
             /\ Straight(walker.at, m.icnt - own)
      w   == IF HasChangedControlFlow(m.itype)
             THEN Moved(target.addr, ok /\ Agrees(m, target), FALSE)
             ELSE Moved(m.iaddr + 1, ok, FALSE)
  IN  [w EXCEPT !.frames = Frames(m)]

\* The reader's position after a message and, where one is owed, its address.
Decoded(m, target) ==
  CASE m.sub = "NONE"  -> walker
    [] m.sub = "ERROR" -> Unlocked
    [] m.rcode = "disabled" ->
         [Unlocked EXCEPT !.fault =
            IF walker.at = None \/ Straight(walker.at, m.icnt) \/ @ # "none" THEN @ ELSE "walk"]
    [] m.rcode = "overflow" ->
         Moved(walker.at + m.icnt, walker.at # None /\ Straight(walker.at, m.icnt),
               walker.seeded /\ m.icnt = 0)
    [] m.sync = "overrun" -> Moved(m.iaddr, TRUE, FALSE)
    [] m.sync = "enable"  ->
         IF Owes(m) THEN Moved(target.addr, TRUE, FALSE)
         ELSE Moved(m.iaddr, TRUE, m.itype = "NOT_TAKEN_BRANCH")
    [] m.sync = "periodic" /\ ~Owes(m) ->
         Moved(m.iaddr,
               walker.at # None /\ walker.at + m.icnt = m.iaddr /\ Straight(walker.at, m.icnt),
               m.itype = "NOT_TAKEN_BRANCH")
    [] OTHER -> Followed(m, target)

Pop ==
  /\ etip # <<>>
  /\ Owes(Head(etip)) => side # <<>>
  /\ etip' = Tail(etip)
  /\ side' = (IF Owes(Head(etip)) THEN Tail(side) ELSE side)
  /\ walker' = Decoded(Head(etip), IF Owes(Head(etip)) THEN Head(side)
                                   ELSE [addr |-> None, pred |-> FALSE])
  /\ UNCHANGED <<envVars, ctlVars, cfVars, nextIaddr, skid, ovfPending, injector>>

Clock == \E b \in Beats, on \in BOOLEAN, req \in BOOLEAN : Edge(b, on, req)
Next  == Clock \/ Pop

Spec == Init /\ [][Next]_vars

=============================================================================
