----------------------------- MODULE RunControl -----------------------------
(***************************************************************************)
(* The request handlers of the dashboard server that write the CONTROL     *)
(* register, the sink control and the encoders of one bitstream            *)
(* (examples/dashboard/server.py).  The server is a ThreadingHTTPServer:   *)
(* every request runs in a thread of its own, the bus lock covers ONE      *)
(* register access, and every handler is a read-modify-write over several  *)
(* accesses.  One step of a thread is one access; a sleep is the place     *)
(* between two of them.  CONTROL is the set of its bits that are 1.        *)
(***************************************************************************)
EXTENDS Naturals, Sequences, FiniteSets

CONSTANTS
  Threads,      \* handler threads
  Cores,        \* cores of the scenario, 0 .. n-1
  RunBits,      \* [Cores -> SUBSET Bits]: scenario.core_run_bits
  OwnBit,       \* [Cores -> SUBSET Bits]: the bit only this core has, or {}
  Declared,     \* what core_protocol may say: a set of functions on Cores
  Windows,      \* cores whose RAM window the scenario gates (gate_core)
  Images,       \* the windows the scenario has an image for, in order ("preload")
  Cva6Bits,     \* {"cva6_run"} if the scenario has that bit, else {}
  Pulses,       \* pulse bits the scenario has: "trace_clear", "trace_flush", ...
  EncSeq,       \* the encoder regions of the scenario, in order
  EncOf,        \* [Cores -> encoder region]
  Found,        \* CONTROL values a server that starts can find
  FoundEnc,     \* encoder words a server that starts can find
  Kinds,        \* requests of this instance
  Budget        \* bound: requests served in one behaviour

Encs == {EncSeq[i] : i \in DOMAIN EncSeq}
Bits == UNION {RunBits[c] : c \in Cores} \cup Cva6Bits \cup Pulses \cup {"core_run", "irq"}

\* The trTeControl bits of an encoder that matter, its locked fields as one, and
\* whether the source field has been written.
Words == [act : BOOLEAN, en : BOOLEAN, it : BOOLEAN, fields : BOOLEAN, src : BOOLEAN, ovf : BOOLEAN]

ASSUME ScenarioAssumption ==
  /\ \A c \in Cores : OwnBit[c] \subseteq RunBits[c]
  /\ Windows \subseteq Cores /\ Images \in Seq(Windows)
  /\ FoundEnc \subseteq [Encs -> Words] /\ Budget \in Nat

\* How scenario.py wires the cores: what starts or stops one of them.
ASSUME WiringAssumption ==
  /\ IsFiniteSet(Cores)
  /\ EncSeq \in Seq(Encs) /\ EncSeq # <<>> /\ \A i, j \in DOMAIN EncSeq : i # j => EncSeq[i] # EncSeq[j]
  /\ ("core_run" \notin Pulses) /\ ("irq" \notin Pulses) /\ Cva6Bits \cap Pulses = {}
  /\ \A c \in Cores : RunBits[c] \cap (Pulses \cup {"trace_clear", "irq"}) = {}
  \* Where cores are switched one by one, the bit of one releases no other.
  /\ (\E c \in Cores : OwnBit[c] # {} \/ c \in Windows) =>
       \A c, d \in Cores : c # d => RunBits[d] \cap (IF OwnBit[c] # {} THEN OwnBit[c] ELSE RunBits[c]) = {}
  \* Own bits beside the collective one come in numbers.
  /\ \A c \in Cores : OwnBit[c] # {} /\ "core_run" \in RunBits[c] =>
       /\ RunBits[c] = OwnBit[c] \cup {"core_run"}
       /\ \E d \in Cores \ {c} : OwnBit[d] # {} /\ "core_run" \in RunBits[d]

VARIABLES
  control,      \* the CONTROL register
  protocol,     \* the trace protocol of every core in this scenario
  build,        \* what the bus is: "hw", "old" (no per-core bits), "demo"
  mirror,       \* cores whose bit the STATUS register shows
  enc,          \* trTeControl of every encoder, and its source field
  sink,         \* SINK_CTRL
  th,           \* the handler each thread is in
  left          \* requests still allowed

scenario == <<build, protocol>>
vars == <<control, scenario, mirror, enc, sink, th, left>>

-----------------------------------------------------------------------------
(* The hardware behind the bus.                                            *)

\* Bits an old bitstream lacks: the own bits of the cores that also hang off
\* the collective bit came later.
NewBits == UNION {OwnBit[c] : c \in {k \in Cores : "core_run" \in RunBits[k]}}

\* scenario.core_running: the release bits of a core are ORed.
CoreRunning(ctl, c) == RunBits[c] \cap ctl # {}

\* Cores that the bitstream lets run under this CONTROL value.
Effective(ctl) ==
  {c \in Cores : CoreRunning(IF build = "old" THEN ctl \ NewBits ELSE ctl, c)}

Running == Effective(control)

\* STATUS as wired: the effective run state of the cores that have a mirror
\* bit, which an old bitstream does not have.
MirrorOf(ctl) == IF build = "old" THEN {} ELSE Effective(ctl)

Tracing(e) == enc[e].act /\ enc[e].en /\ enc[e].it

Protocols == {protocol[c] : c \in Cores}
Mixed(S) == Cardinality({protocol[c] : c \in S}) > 1

\* A bus write of CONTROL by thread t: the write and what the wiring makes of
\* it are one step.  The run state of the cores in "touched" has changed at
\* some write of this request.
WriteControl(t, val, next) ==
  LET hit == (Running \ Effective(val)) \cup (Effective(val) \ Running)
  IN /\ control' = val
     /\ mirror' = MirrorOf(val)
     /\ th' = [th EXCEPT ![t] = [next EXCEPT !.touched = @ \cup hit]]
     /\ UNCHANGED <<scenario, enc, sink, left>>

\* An encoder write: the locked fields ("fields" in trTeControl, "src" in
\* trTeInstFeatures) are discarded while Enable is set, without an error; the
\* overflow bit is cleared by a 1 and kept by a 0.
Stored(old, new) ==
  [new EXCEPT !.fields = IF old.en THEN old.fields ELSE @,
              !.src = old.src,
              !.ovf = old.ovf /\ ~@]

WriteEnc(t, e, val, next) ==
  /\ enc' = [enc EXCEPT ![e] = Stored(@, val)]
  /\ th' = [th EXCEPT ![t] = next]
  /\ UNCHANGED <<control, scenario, mirror, sink, left>>

WriteFeatures(t, e, next) ==
  /\ enc' = [enc EXCEPT ![e].src = @ \/ ~enc[e].en]
  /\ th' = [th EXCEPT ![t] = next]
  /\ UNCHANGED <<control, scenario, mirror, sink, left>>

\* Bookkeeping of a step that only reads or decides.
Go(t, next) ==
  /\ th' = [th EXCEPT ![t] = next]
  /\ UNCHANGED <<control, scenario, mirror, enc, sink, left>>

-----------------------------------------------------------------------------
(* Threads.                                                                *)

EncOff == [act |-> FALSE, en |-> FALSE, it |-> FALSE,
           fields |-> FALSE, src |-> FALSE, ovf |-> FALSE]

\* A thread between two requests.  "snap" is the CONTROL value the handler
\* works with, "tev" the encoder words read at its start, "sk" the sink word,
\* "todo" the set_core_run calls to come, "queue" the images to load, "pos"
\* the encoder at hand, "base" CONTROL when the request
\* came in.
Idle == [kind |-> "none", core |-> 0, pc |-> "idle", snap |-> {}, tev |-> [e \in Encs |-> EncOff],
         sk |-> {}, todo |-> <<>>, queue |-> <<>>, pos |-> 1, old |-> {},
         alone |-> TRUE, touched |-> {}, base |-> {}, note |-> "none"]

\* What a finished request leaves behind is its verdict.
Done(h, note) == [Idle EXCEPT !.note = note]

Busy(t) == th[t].pc # "idle"

\* A request arrives.  It is alone as long as no other is in progress.
Accept(t, kind, c) ==
  LET others == {u \in Threads \ {t} : Busy(u)}
  IN /\ ~Busy(t) /\ left > 0
     /\ left' = left - 1
     /\ th' = [u \in Threads |->
                 IF u = t THEN [Idle EXCEPT !.kind = kind, !.core = c, !.pc = "begin",
                                            !.alone = (others = {}), !.base = control]
                 ELSE IF u \in others THEN [th[u] EXCEPT !.alone = FALSE]
                 ELSE th[u]]
     /\ UNCHANGED <<control, scenario, mirror, enc, sink>>

-----------------------------------------------------------------------------
(* _ctl: every action starts with a read of CONTROL, the encoders and the  *)
(* sink; what it writes later is computed from these values.  The reads    *)
(* nobody uses later are left out.                                         *)

SinkKinds == {"ddr_on", "ddr_off", "ddr_clear", "pib_on", "pib_off"}
Ctl == {"run", "stop", "core_run", "core_stop", "trace_on", "trace_off", "cva6_run",
        "cva6_stop", "irq_on", "irq_off", "clear", "con_clear", "flush",
        "preload"} \cup SinkKinds

\* The bits of every core that hangs off the collective bit.
All == {"core_run"} \cup UNION {RunBits[c] : c \in {k \in Cores : "core_run" \in RunBits[k]}}

CtlRead(t) ==
  /\ th[t].pc = "begin" /\ th[t].kind \in Ctl
  /\ Go(t, [th[t] EXCEPT !.snap = control,
                         !.pc = IF th[t].kind \in SinkKinds \cup {"trace_on", "trace_off"}
                                THEN "regs" ELSE "act"])

CtlRegs(t) ==
  /\ th[t].pc = "regs"
  /\ Go(t, [th[t] EXCEPT !.tev = IF th[t].kind \in {"trace_on", "trace_off"} THEN enc ELSE @,
                         !.sk = IF th[t].kind \in SinkKinds THEN sink ELSE @,
                         !.pc = "act"])

At(t, kind, pc) == th[t].kind = kind /\ th[t].pc = pc

\* run: refused in a scenario that mixes protocols; a running core is dropped
\* first, so that it restarts at PC 0.
RunRefused(t) ==
  /\ At(t, "run", "act") /\ Cardinality(Protocols) > 1
  /\ Go(t, Done(th[t], "refused"))

RunHalt(t) ==
  /\ At(t, "run", "act") /\ Cardinality(Protocols) < 2
  /\ th[t].snap \cap All # {}
  /\ WriteControl(t, th[t].snap \ All, [th[t] EXCEPT !.pc = "release"])

RunRelease(t) ==
  /\ Cardinality(Protocols) < 2
  /\ \/ At(t, "run", "release")
     \/ (At(t, "run", "act") /\ th[t].snap \cap All = {})
  /\ WriteControl(t, (th[t].snap \ All) \cup {"core_run"}, Done(th[t], "ok"))

Stop(t) ==
  /\ At(t, "stop", "act")
  /\ WriteControl(t, th[t].snap \ All, Done(th[t], "ok"))

\* cva6_run, cva6_stop: the bit of that core, or the collective one.
Cva6Mask == IF Cva6Bits # {} THEN Cva6Bits ELSE {"core_run"}

Cva6Run(t) ==
  \/ /\ At(t, "cva6_run", "act")
     /\ WriteControl(t, th[t].snap \cup Cva6Mask, Done(th[t], "ok"))
  \/ /\ At(t, "cva6_stop", "act")
     /\ WriteControl(t, th[t].snap \ Cva6Mask, Done(th[t], "ok"))

Irq(t) ==
  \/ /\ At(t, "irq_on", "act")
     /\ WriteControl(t, th[t].snap \cup {"irq"}, Done(th[t], "ok"))
  \/ /\ At(t, "irq_off", "act")
     /\ WriteControl(t, th[t].snap \ {"irq"}, Done(th[t], "ok"))

\* clear, con_clear and flush raise a pulse bit and drop it again; trace_off
\* ends with the flush pulse.  Both writes come from the value of the start.
PulseBit(h) == [clear |-> "trace_clear", con_clear |-> "con_clear", flush |-> "trace_flush",
                trace_off |-> "trace_flush"][h.kind]

PulseUp(t) ==
  /\ \/ th[t].pc = "act" /\ th[t].kind \in {"clear", "con_clear", "flush"}
     \/ At(t, "trace_off", "flush")
  /\ IF PulseBit(th[t]) \in Pulses
     THEN WriteControl(t, th[t].snap \cup {PulseBit(th[t])}, [th[t] EXCEPT !.pc = "drop"])
     ELSE Go(t, Done(th[t], IF th[t].kind = "trace_off" THEN "ok" ELSE "refused"))

PulseDown(t) ==
  /\ th[t].pc = "drop"
  /\ WriteControl(t, th[t].snap \ {PulseBit(th[t])}, Done(th[t], "ok"))

-----------------------------------------------------------------------------
(* core_run and core_stop, and set_core_run, which the loader uses too.    *)

\* A core without a bit of its own is refused; a start is refused while a core
\* of another protocol runs (protocol_lock_reason, on a fresh read).  A core
\* that already runs is stopped first.
CoreStop(t) ==
  /\ At(t, "core_stop", "act")
  /\ Go(t, IF OwnBit[th[t].core] = {} THEN Done(th[t], "refused")
           ELSE [th[t] EXCEPT !.todo = <<FALSE>>, !.pc = "set_read"])

\* Mutant: the interlock looks at the first core only.
CoreRunFirstOnly(t) ==
  LET c == th[t].core
      clash == {k \in {0} \ {c} : protocol[k] # protocol[c] /\ CoreRunning(control, k)}
  IN /\ At(t, "core_run", "act")
     /\ Go(t, IF OwnBit[c] = {} \/ (Cardinality(Protocols) > 1 /\ clash # {})
              THEN Done(th[t], "refused")
              ELSE [th[t] EXCEPT !.pc = "set_read",
                      !.todo = IF CoreRunning(th[t].snap, c) THEN <<FALSE, TRUE>> ELSE <<TRUE>>])

CoreRun(t) ==
  LET c == th[t].core
      clash == {k \in Cores \ {c} : protocol[k] # protocol[c] /\ CoreRunning(control, k)}
  IN /\ At(t, "core_run", "act")
     /\ Go(t, IF OwnBit[c] = {} \/ (Cardinality(Protocols) > 1 /\ clash # {})
              THEN Done(th[t], "refused")
              ELSE [th[t] EXCEPT !.pc = "set_read",
                      !.todo = IF CoreRunning(th[t].snap, c) THEN <<FALSE, TRUE>> ELSE <<TRUE>>])

\* set_core_run: read CONTROL, express the run state of every core through its
\* own bit, change that of one core, write.
SetRead(t) ==
  /\ th[t].pc = "set_read"
  /\ Go(t, [th[t] EXCEPT !.old = control, !.pc = "set_write"])

\* The cores that shall run, and the CONTROL value that says so.
Wanted(h) ==
  {c \in Cores : IF c = h.core THEN Head(h.todo) ELSE CoreRunning(h.old, c)}

\* Mutant: the bits of the one core are changed, the collective one included.
ExpressedAlone(h) ==
  (h.old \ RunBits[h.core]) \cup (IF Head(h.todo) THEN OwnBit[h.core] ELSE {})

Expressed(h) ==
  (h.old \ UNION {RunBits[c] : c \in Cores})
    \cup UNION {IF OwnBit[c] # {} THEN OwnBit[c] ELSE RunBits[c] : c \in Wanted(h)}

SetWrite(t) ==
  /\ th[t].pc = "set_write"
  /\ WriteControl(t, Expressed(th[t]), [th[t] EXCEPT !.pc = "set_probe"])

\* The handler goes on with the next call, with the load, or ends.
AfterSet(h, note) ==
  IF Len(h.todo) > 1 THEN [h EXCEPT !.todo = Tail(@), !.pc = "set_read", !.note = note]
  ELSE IF h.kind \in {"load", "preload"} THEN [h EXCEPT !.pc = "load_read", !.note = note]
  ELSE Done(h, note)

\* The probe: a core that shall run by its own bit and does not show in STATUS
\* tells an old bitstream.  The first value is written back.
SetProbe(t) ==
  LET cold == {c \in Wanted(th[t]) : OwnBit[c] # {}} \ mirror
  IN /\ th[t].pc = "set_probe"
     /\ IF cold # {} THEN Go(t, [th[t] EXCEPT !.pc = "set_restore"])
        ELSE Go(t, AfterSet(th[t], IF th[t].note = "declined" THEN "declined" ELSE "ok"))

SetRestore(t) ==
  /\ th[t].pc = "set_restore"
  /\ WriteControl(t, th[t].old, AfterSet(th[t], "declined"))

-----------------------------------------------------------------------------
(* Loading a program.  The RAM window of a core answers only while its     *)
(* wrapper holds the core; an access while the core runs never ends.       *)

\* POST /api/elf goes straight to load_program; preload refuses while any core
\* of the collective bit runs and then loads image after image.
LoadBegin(t) ==
  /\ At(t, "load", "begin")
  /\ Go(t, [th[t] EXCEPT !.todo = <<FALSE>>, !.pc = "set_read"])

PreloadBegin(t) ==
  /\ At(t, "preload", "act")
  /\ Go(t, IF th[t].snap \cap All # {} \/ Images = <<>> THEN Done(th[t], "refused")
           ELSE [th[t] EXCEPT !.queue = Images, !.core = Images[1], !.todo = <<FALSE>>,
                              !.pc = "set_read"])

LoadRead(t) ==
  /\ th[t].pc = "load_read"
  /\ Go(t, [th[t] EXCEPT !.snap = control, !.pc = "load_clear"])

LoadClear(t) ==
  /\ th[t].pc = "load_clear"
  /\ WriteControl(t, (th[t].snap \ RunBits[th[t].core]) \cup {"trace_clear"},
                  [th[t] EXCEPT !.pc = "load_unclear"])

LoadUnclear(t) ==
  /\ th[t].pc = "load_unclear"
  /\ WriteControl(t, th[t].snap \ (RunBits[th[t].core] \cup {"trace_clear"}),
                  [th[t] EXCEPT !.pc = "load_write"])

\* An access to the window of core c: it hangs if the core runs.
Access(t, c, next) ==
  Go(t, IF c \in Running THEN [th[t] EXCEPT !.pc = "hung"] ELSE next)

\* The image is checked segment by segment: one that does not fit ends the
\* request, and a preload goes on with the next image.
NextImage(h, note) ==
  IF h.kind = "preload" /\ Len(h.queue) > 1
  THEN [h EXCEPT !.queue = Tail(@), !.core = h.queue[2], !.todo = <<FALSE>>, !.pc = "set_read"]
  ELSE Done(h, note)

LoadWrite(t) ==
  /\ th[t].pc = "load_write"
  /\ \/ Access(t, th[t].core, NextImage(th[t], "ok"))
     \/ Go(t, NextImage(th[t], "refused"))

\* A DDR-loaded core: CONTROL loses the run bits by name, then the memory behind
\* the window is written past the core.  An image outside the window is refused
\* after the stop.
Cva6LoadRead(t) ==
  /\ At(t, "load_cva6", "begin")
  /\ Go(t, [th[t] EXCEPT !.snap = control, !.pc = "halt"])

Cva6LoadHalt(t) ==
  /\ At(t, "load_cva6", "halt")
  /\ WriteControl(t, th[t].snap \ (Cva6Bits \cup {"core_run"}), Done(th[t], "ok"))

\* Mutant: the run state is taken from STATUS.
HoldCheckStatus(t) ==
  /\ At(t, "window", "begin")
  /\ Go(t, IF th[t].core \in mirror THEN Done(th[t], "refused")
           ELSE [th[t] EXCEPT !.pc = "access"])

\* GET /api/read and POST /api/write of a RAM window: refused while its core
\* runs (region_hold_reason), then the access.
HoldCheck(t) ==
  /\ At(t, "window", "begin")
  /\ Go(t, IF CoreRunning(control, th[t].core) THEN Done(th[t], "refused")
           ELSE [th[t] EXCEPT !.pc = "access"])

WindowAccess(t) ==
  /\ At(t, "window", "access")
  /\ Access(t, th[t].core, Done(th[t], "ok"))

-----------------------------------------------------------------------------
(* Encoders and sinks.                                                     *)

\* POST /api/write of a fully locked register (trTeInstFeatures): refused while
\* Enable reads 1, and read back.
GateCheck(t) ==
  /\ At(t, "features", "begin")
  /\ Go(t, IF enc[EncOf[th[t].core]].en THEN Done(th[t], "refused")
           ELSE [th[t] EXCEPT !.pc = "write"])

GatedWrite(t) ==
  LET e == EncOf[th[t].core]
  IN /\ At(t, "features", "write")
     /\ WriteFeatures(t, e, Done(th[t], IF enc[e].en /\ ~enc[e].src THEN "not_taken" ELSE "ok"))

\* Mutant: the whole word goes back.
RmwWhole(word) == word

\* The word written back by a read-modify-write: never the overflow bit
\* (rmw_value), which a 1 would clear.
Rmw(word) == [word EXCEPT !.ovf = FALSE]

EncAt(h) == EncSeq[h.pos]
MultiSource == Len(EncSeq) > 1

\* Mutant: one round too many.
NextEncPast(h, first, rest) ==
  IF h.pos <= Len(EncSeq) THEN [h EXCEPT !.pos = @ + 1, !.pc = first] ELSE rest

\* The loop over the encoders: the next one, or what follows the loop.
NextEnc(h, first, rest) ==
  IF h.pos < Len(EncSeq) THEN [h EXCEPT !.pos = @ + 1, !.pc = first] ELSE rest

\* Mutant: Enable stays up while the locked fields are written.
TraceOnDropItrace(t) ==
  LET e == EncAt(th[t]) IN
  /\ At(t, "trace_on", "act")
  /\ WriteEnc(t, e, Rmw([th[t].tev[e] EXCEPT !.it = FALSE]), [th[t] EXCEPT !.pc = "fields"])

\* trace_on, per encoder: drop Enable (from the word of the start), read it
\* again and write the locked fields with Active, read and arm.  With several
\* encoders the source field is written in the same gap.
TraceOnDrop(t) ==
  LET e == EncAt(th[t]) IN
  /\ At(t, "trace_on", "act")
  /\ WriteEnc(t, e, Rmw([th[t].tev[e] EXCEPT !.en = FALSE, !.it = FALSE]),
              [th[t] EXCEPT !.pc = "fields"])

TraceOnRead(t) ==
  /\ At(t, "trace_on", "fields")
  /\ Go(t, [th[t] EXCEPT !.tev[EncAt(th[t])] = enc[EncAt(th[t])],
                         !.pc = IF MultiSource THEN "source" ELSE "active"])

TraceOnSource(t) ==
  LET e == EncAt(th[t]) IN
  /\ At(t, "trace_on", "source")
  /\ WriteFeatures(t, e, [th[t] EXCEPT !.pc = "active"])

TraceOnActive(t) ==
  LET e == EncAt(th[t]) IN
  /\ At(t, "trace_on", "active")
  /\ WriteEnc(t, e, Rmw([th[t].tev[e] EXCEPT !.fields = TRUE, !.act = TRUE]),
              [th[t] EXCEPT !.pc = "arm_read"])

TraceOnArmRead(t) ==
  /\ At(t, "trace_on", "arm_read")
  /\ Go(t, [th[t] EXCEPT !.tev[EncAt(th[t])] = enc[EncAt(th[t])], !.pc = "arm"])

TraceOnArm(t) ==
  LET e == EncAt(th[t]) IN
  /\ At(t, "trace_on", "arm")
  /\ WriteEnc(t, e, Rmw([th[t].tev[e] EXCEPT !.en = TRUE, !.it = TRUE]),
              NextEnc(th[t], "act", Done(th[t], "ok")))

\* trace_off clears InstTracing only, in the words of the start.
TraceOff(t) ==
  LET e == EncAt(th[t]) IN
  /\ At(t, "trace_off", "act")
  /\ WriteEnc(t, e, Rmw([th[t].tev[e] EXCEPT !.it = FALSE]),
              NextEnc(th[t], "act", [th[t] EXCEPT !.pc = "flush"]))

\* The sink actions write the sink word of the start; the clear bit is a pulse
\* the hardware does not keep.
SinkWrite(t) ==
  LET w == th[t].sk
      word == CASE th[t].kind = "ddr_on"  -> w \cup {"ddr_en"}
                [] th[t].kind = "ddr_off" -> w \ {"ddr_en"}
                [] th[t].kind = "pib_on"  -> w \cup {"pib_en"}
                [] th[t].kind = "pib_off" -> w \ {"pib_en"}
                [] OTHER                  -> w
  IN /\ th[t].pc = "act" /\ th[t].kind \in SinkKinds
     /\ th[t].kind = "ddr_clear" => "ddr_en" \notin w
     /\ sink' = word
     /\ th' = [th EXCEPT ![t] = Done(@, "ok")]
     /\ UNCHANGED <<control, scenario, mirror, enc, left>>

SinkRefused(t) ==
  /\ At(t, "ddr_clear", "act") /\ "ddr_en" \in th[t].sk
  /\ Go(t, Done(th[t], "refused"))

-----------------------------------------------------------------------------
(* The environment and the specification.                                  *)

\* An armed encoder of a running core can overflow at any moment.
Overflow(c) ==
  /\ c \in Running /\ Tracing(EncOf[c]) /\ ~enc[EncOf[c]].ovf
  /\ enc' = [enc EXCEPT ![EncOf[c]].ovf = TRUE]
  /\ UNCHANGED <<control, scenario, mirror, sink, th, left>>

\* The demo bus refreshes its mirror every 250 ms and, when a core runs and its
\* encoder is armed, then stores the wrap flag over the whole STATUS word.
DemoTick ==
  /\ build = "demo"
  /\ mirror' = IF \E c \in Running : Tracing(EncOf[c]) THEN {} ELSE Running
  /\ UNCHANGED <<control, scenario, enc, sink, th, left>>

\* A server that starts finds the board as an earlier one has left it, the demo
\* bus starts from reset.
Init ==
  /\ build \in {"hw", "old", "demo"} /\ protocol \in Declared
  /\ control \in IF build = "demo" THEN {{}} ELSE Found
  /\ mirror = MirrorOf(control) /\ sink = {}
  /\ enc \in FoundEnc
  /\ th = [t \in Threads |-> Idle]
  /\ left = Budget

\* A request and its argument; only the requests about one core have one.
PerCore == {"core_run", "core_stop", "features"}
Arguments(kind) ==
  IF kind \in PerCore THEN Cores ELSE IF kind \in {"load", "window"} THEN Windows ELSE {0}

Request(t) == \E kind \in Kinds : \E c \in Arguments(kind) : Accept(t, kind, c)

CtlStep(t) ==
  \/ CtlRead(t) \/ CtlRegs(t) \/ RunRefused(t) \/ RunHalt(t) \/ RunRelease(t) \/ Stop(t)
  \/ Cva6Run(t) \/ Irq(t) \/ PulseUp(t) \/ PulseDown(t) \/ CoreStop(t) \/ CoreRun(t)
  \/ SinkWrite(t) \/ SinkRefused(t)
SetStep(t) == SetRead(t) \/ SetWrite(t) \/ SetProbe(t) \/ SetRestore(t)
LoadStep(t) ==
  \/ LoadBegin(t) \/ PreloadBegin(t) \/ LoadRead(t) \/ LoadClear(t) \/ LoadUnclear(t)
  \/ LoadWrite(t) \/ Cva6LoadRead(t) \/ Cva6LoadHalt(t) \/ HoldCheck(t) \/ WindowAccess(t)
EncStep(t) ==
  \/ GateCheck(t) \/ GatedWrite(t) \/ TraceOnDrop(t) \/ TraceOnRead(t) \/ TraceOnSource(t)
  \/ TraceOnActive(t) \/ TraceOnArmRead(t) \/ TraceOnArm(t) \/ TraceOff(t)

Step(t) == CtlStep(t) \/ SetStep(t) \/ LoadStep(t) \/ EncStep(t)

\* An access that never ends keeps the bus lock: everything stops with it.
BusHangs == \E t \in Threads : th[t].pc = "hung"

Next ==
  /\ ~BusHangs
  /\ \/ \E t \in Threads : Request(t) \/ Step(t)
     \/ \E c \in Cores : Overflow(c)
     \/ DemoTick

Spec == Init /\ [][Next]_vars

-----------------------------------------------------------------------------
Notes == {"none", "ok", "refused", "declined", "not_taken"}
Handlers ==
  [kind : Kinds \cup {"none"}, core : Cores, snap : SUBSET Bits, old : SUBSET Bits,
   base : SUBSET Bits, tev : [Encs -> Words], sk : SUBSET {"ddr_en", "pib_en"},
   todo : Seq(BOOLEAN), queue : Seq(Windows), pos : DOMAIN EncSeq, alone : BOOLEAN,
   touched : SUBSET Cores, note : Notes,
   pc : {"idle", "begin", "regs", "act", "release", "drop", "flush", "set_read", "set_write",
         "set_probe", "set_restore", "load_read", "load_clear", "load_unclear", "load_write",
         "halt", "access", "write", "fields", "source", "active", "arm_read", "arm",
         "hung"}]

\* Type invariant.
TypeOK ==
  /\ control \in SUBSET Bits /\ mirror \in SUBSET Cores
  /\ build \in {"hw", "old", "demo"} /\ protocol \in Declared
  /\ enc \in [Encs -> Words] /\ sink \in SUBSET {"ddr_en", "pib_en"}
  /\ th \in [Threads -> Handlers] /\ left \in 0 .. Budget

\* No request that had the server to itself accesses the RAM window of a running
\* core: load_program stops the core of this window whatever bit it runs by, and
\* /api/read and /api/write refuse (region_hold_reason).
NoHang == \A t \in Threads : th[t].pc = "hung" => ~th[t].alone

\* On a bitstream with per-core bits a request about one core changes the run
\* state of no other core, not even for the time between two writes, although it
\* has to give up the collective bit (set_core_run, load_program).
OneCoreTouched ==
  \A t \in Threads :
    build = "hw" /\ th[t].alone /\ th[t].kind \in {"core_run", "core_stop", "load"}
      => th[t].touched \subseteq {th[t].core}

\* While a request that came into an unmixed server is alone, cores of two
\* protocols never run together, whatever it starts, restarts or restores
\* (protocol_lock_reason); cva6_run is the one action without the interlock.
InterlockHolds ==
  [][\A t \in Threads :
       /\ Busy(t) /\ th'[t] # th[t] /\ th[t].alone /\ th[t].kind # "cva6_run"
       /\ ~Mixed(Effective(th[t].base))
       => ~Mixed(Effective(control)')]_vars

\* What a finished request of each kind leaves of the run state it found.
ExpectedRun(h, note) ==
  LET was == Effective(h.base)
  IN CASE note = "declined" /\ h.kind = "core_run"
                 /\ (build = "demo" \/ OwnBit[h.core] \cap NewBits = {}) -> {was, was \ {h.core}}
       [] h.kind = "core_run" /\ note = "ok" -> {was \cup {h.core}}
       [] h.kind = "core_stop" /\ note = "ok" -> {was \ {h.core}}
       [] h.kind = "load" -> IF build = "hw" THEN {was \ {h.core}} ELSE SUBSET (was \ {h.core})
       [] h.kind \in {"run", "stop", "cva6_run", "cva6_stop", "load_cva6", "preload"} -> SUBSET Cores
       [] OTHER -> {was}

\* A request that had the server to itself changes what it is about and nothing
\* else: the run state follows ExpectedRun even when per-core bits are declined,
\* no pulse bit stays behind, and trace_on leaves every encoder armed with its
\* locked fields written.
AloneIsExact ==
  [][\A t \in Threads :
       LET h == th[t]  g == th'[t]
       IN Busy(t) /\ g.pc = "idle" /\ h.alone =>
            /\ Effective(control)' \in ExpectedRun(h, g.note)
            /\ control' \cap Pulses \subseteq h.base
            /\ h.kind = "trace_on" =>
                 \A e \in Encs : /\ enc'[e].act /\ enc'[e].en /\ enc'[e].it /\ enc'[e].fields
                                 /\ MultiSource => enc'[e].src]_vars

\* No handler, alone or not, erases the evidence that trace was lost
\* (InstStallOrOverflow is write-1-to-clear: rmw_value).
OverflowKept == [][\A e \in Encs : enc[e].ovf => enc'[e].ovf]_vars

\* A request does what it says and no more: it touches the core it names, never
\* mixes protocols, and leaves the rest of the register as it was.
RequestsExact == []OneCoreTouched /\ InterlockHolds /\ AloneIsExact
=============================================================================
