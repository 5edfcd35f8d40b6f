-------------------------- MODULE RunControlProofs --------------------------
(***************************************************************************)
(* For every scenario and any number of request threads: no handler erases *)
(* the overflow evidence; no request that had the server to itself hangs   *)
(* in the RAM window of a running core; and such a request does what it    *)
(* says and no more.  The first two rest on IInv.  The third follows each  *)
(* request from the CONTROL value it came into ("base"): XInv says where   *)
(* the run state stands at each of its places (Fact), and a lemma for each *)
(* group of steps that it stands so afterwards, or that the finished       *)
(* request left what ExpectedRun says (After).                             *)
(***************************************************************************)
EXTENDS RunControl, FiniteSetTheorems, TLAPS

HandlerFields ==
  {"kind", "core", "pc", "snap", "tev", "sk", "todo", "queue", "pos", "old", "alone",
   "touched", "base", "note"}
WordFields == {"act", "en", "it", "fields", "src", "ovf"}
AreWords(w) == DOMAIN w = Encs /\ \A e \in Encs : DOMAIN w[e] = WordFields

\* What a step leaves of the words: an overflow stays where it was.
KeepsOverflow == \A e \in Encs : enc[e].ovf => enc'[e].ovf

\* Only the places from which a window is accessed.
Gates == {"access", "load_write"}

\* Two busy handlers are not alone, and a handler that is, and stands before
\* its access, holds its core; so it does not hang.
Shape == /\ DOMAIN th = Threads
         /\ \A t \in Threads : DOMAIN th[t] = HandlerFields /\ AreWords(th[t].tev)
         /\ AreWords(enc)
Apart == \A t, u \in Threads : t # u /\ Busy(t) /\ Busy(u) => ~th[t].alone
Held  == \A t \in Threads : th[t].alone /\ th[t].pc \in Gates => th[t].core \notin Running
IInv  == Shape /\ Apart /\ Held /\ NoHang

\* A handler record a step may leave behind that does not stand at a gate.
Plain(t, n) == /\ DOMAIN n = HandlerFields /\ AreWords(n.tev)
               /\ n.pc # "idle" => n.alone = th[t].alone
               /\ n.pc = "idle" => n.kind = "none"
               /\ n.pc \notin Gates \cup {"hung"}

\* What every step of a busy handler amounts to.
Mine(t) ==
  /\ Busy(t)
  /\ th' = [th EXCEPT ![t] = th'[t]]
  /\ DOMAIN th'[t] = HandlerFields /\ AreWords(th'[t].tev)
  /\ AreWords(enc') /\ KeepsOverflow
  /\ th'[t].pc # "idle" => th'[t].alone = th[t].alone
  /\ th'[t].pc = "idle" => th'[t].kind = "none"
  /\ th'[t].pc \in Gates => th'[t].core \notin Running'
  /\ th'[t].pc = "hung" => th[t].pc \in Gates /\ th[t].core \in Running

LEMMA GoPlain ==
  ASSUME Shape, NEW t \in Threads, Busy(t), NEW n, Plain(t, n), Go(t, n)
  PROVE  Mine(t)
BY DEF Shape, Plain, Go, Mine, Gates, KeepsOverflow, Busy, AreWords

LEMMA ControlPlain ==
  ASSUME Shape, NEW t \in Threads, Busy(t), NEW n, Plain(t, n), NEW val,
         WriteControl(t, val, n)
  PROVE  Mine(t)
BY DEF Shape, Plain, WriteControl, Mine, Gates, KeepsOverflow, Busy, AreWords, HandlerFields

\* A read-modify-write gives the overflow bit back as 0, which keeps it.
LEMMA EncPlain ==
  ASSUME Shape, NEW t \in Threads, Busy(t), NEW n, Plain(t, n), NEW e,
         NEW w, e \in Encs => DOMAIN w = WordFields /\ ~w.ovf, WriteEnc(t, e, w, n)
  PROVE  Mine(t)
<1>1. AreWords(enc')
  BY DEF Shape, WriteEnc, Stored, AreWords, WordFields
<1>2. KeepsOverflow
  BY DEF Shape, WriteEnc, Stored, AreWords, WordFields, KeepsOverflow
<1> QED
  BY <1>1, <1>2 DEF Shape, Plain, WriteEnc, Mine, Gates, Busy

\* A finished request leaves a plain record.
LEMMA DonePlain == \A t \in Threads : \A h, note : Plain(t, Done(h, note))
BY DEF Plain, Done, Idle, HandlerFields, AreWords, EncOff, WordFields, Gates

LEMMA CtlKeeps == ASSUME IInv, NEW t \in Threads, CtlStep(t) PROVE Mine(t)
<1> USE DEF At, Busy
<1>0. Shape /\ DOMAIN th[t] = HandlerFields /\ AreWords(th[t].tev) /\ AreWords(enc)
  BY DEF IInv, Shape
<1> DEFINE h == th[t]
<1>1. CASE CtlRead(t)
  <2>1. PICK pc \in {"regs", "act"} : Go(t, [h EXCEPT !.snap = control, !.pc = pc])
    BY <1>1 DEF CtlRead
  <2>2. Plain(t, [h EXCEPT !.snap = control, !.pc = pc])
    BY <1>0, <2>1 DEF Plain, Gates, HandlerFields
  <2> QED
    BY <1>0, <1>1, <2>1, <2>2, GoPlain DEF CtlRead
<1>2. CASE CtlRegs(t)
  <2>1. PICK tev, sk : /\ tev = enc \/ tev = h.tev
                       /\ Go(t, [h EXCEPT !.tev = tev, !.sk = sk, !.pc = "act"])
    BY <1>2 DEF CtlRegs
  <2>2. Plain(t, [h EXCEPT !.tev = tev, !.sk = sk, !.pc = "act"])
    BY <1>0, <2>1 DEF Plain, Gates, HandlerFields
  <2> QED
    BY <1>0, <1>2, <2>1, <2>2, GoPlain DEF CtlRegs
<1>3. CASE RunRefused(t) \/ SinkRefused(t)
  BY <1>0, <1>3, DonePlain, GoPlain DEF RunRefused, SinkRefused
<1>4. CASE RunHalt(t)
  <2>1. Plain(t, [h EXCEPT !.pc = "release"])
    BY <1>0 DEF Plain, Gates, HandlerFields
  <2> QED
    BY <1>0, <1>4, <2>1, ControlPlain DEF RunHalt
<1>5. CASE RunRelease(t) \/ Stop(t) \/ Cva6Run(t) \/ Irq(t) \/ PulseDown(t)
  BY <1>0, <1>5, DonePlain, ControlPlain DEF RunRelease, Stop, Cva6Run, Irq, PulseDown
<1>6. CASE PulseUp(t)
  <2>1. Plain(t, [h EXCEPT !.pc = "drop"])
    BY <1>0 DEF Plain, Gates, HandlerFields
  <2> QED
    BY SMTT(30), <1>0, <1>6, <2>1, DonePlain, GoPlain, ControlPlain DEF PulseUp
<1>7. CASE CoreStop(t) \/ CoreRun(t)
  <2>1. \A todo : Plain(t, [h EXCEPT !.pc = "set_read", !.todo = todo])
    BY <1>0 DEF Plain, Gates, HandlerFields
  <2>2. \A todo : Plain(t, [h EXCEPT !.todo = todo, !.pc = "set_read"])
    BY <1>0 DEF Plain, Gates, HandlerFields
  <2> QED
    BY <1>0, <1>7, <2>1, <2>2, DonePlain, GoPlain DEF CoreStop, CoreRun
<1>8. CASE SinkWrite(t)
  <2>1. th' = [th EXCEPT ![t] = Done(h, "ok")] /\ enc' = enc /\ Busy(t)
    BY <1>0, <1>8 DEF SinkWrite, Shape
  <2> QED
    BY <1>0, <2>1, DonePlain DEF Mine, Plain, Shape, KeepsOverflow, Gates
<1> QED
  BY <1>1, <1>2, <1>3, <1>4, <1>5, <1>6, <1>7, <1>8 DEF CtlStep

LEMMA SetKeeps == ASSUME IInv, NEW t \in Threads, SetStep(t) PROVE Mine(t)
<1> USE DEF Busy
<1>0. Shape /\ DOMAIN th[t] = HandlerFields /\ AreWords(th[t].tev)
  BY DEF IInv, Shape
<1> DEFINE h == th[t]
<1>1. ASSUME NEW note PROVE Plain(t, AfterSet(h, note))
  BY <1>0, DonePlain DEF AfterSet, Plain, Gates, HandlerFields
<1>2. CASE SetRead(t)
  <2>1. Plain(t, [h EXCEPT !.old = control, !.pc = "set_write"])
    BY <1>0 DEF Plain, Gates, HandlerFields
  <2> QED
    BY <1>0, <1>2, <2>1, GoPlain DEF SetRead
<1>3. CASE SetWrite(t)
  <2>1. Plain(t, [h EXCEPT !.pc = "set_probe"])
    BY <1>0 DEF Plain, Gates, HandlerFields
  <2> QED
    BY <1>0, <1>3, <2>1, ControlPlain DEF SetWrite
<1>4. CASE SetProbe(t)
  <2>1. Plain(t, [h EXCEPT !.pc = "set_restore"])
    BY <1>0 DEF Plain, Gates, HandlerFields
  <2> QED
    BY <1>0, <1>1, <1>4, <2>1, GoPlain DEF SetProbe
<1>5. CASE SetRestore(t)
  BY <1>0, <1>1, <1>5, ControlPlain DEF SetRestore
<1> QED
  BY <1>2, <1>3, <1>4, <1>5 DEF SetStep

\* An access to the window either hangs, in the window of a running core, or
\* goes on plainly.
LEMMA AccessKeeps ==
  ASSUME IInv, NEW t \in Threads, th[t].pc \in Gates, NEW n, Plain(t, n),
         Access(t, th[t].core, n)
  PROVE  Mine(t)
<1>0. Shape /\ Busy(t) /\ DOMAIN th[t] = HandlerFields /\ AreWords(th[t].tev)
  BY DEF IInv, Shape, Busy, Gates
<1>1. CASE th[t].core \notin Running
  BY <1>0, <1>1, GoPlain DEF Access
<1>2. CASE th[t].core \in Running
  <2> DEFINE g == [th[t] EXCEPT !.pc = "hung"]
  <2>1. DOMAIN g = HandlerFields /\ AreWords(g.tev) /\ g.pc = "hung" /\ g.alone = th[t].alone
    BY <1>0 DEF HandlerFields
  <2>2. Go(t, g)
    BY <1>2 DEF Access
  <2> HIDE DEF g
  <2> QED
    BY <1>0, <1>2, <2>1, <2>2 DEF Go, Mine, Shape, KeepsOverflow, Gates
<1> QED
  BY <1>1, <1>2

LEMMA LoadKeeps == ASSUME IInv, NEW t \in Threads, LoadStep(t) PROVE Mine(t)
<1> USE DEF At
<1>0. Shape /\ DOMAIN th[t] = HandlerFields /\ AreWords(th[t].tev)
  BY DEF IInv, Shape
<1> DEFINE h == th[t]
<1>1. CASE LoadBegin(t) \/ PreloadBegin(t)
  <2>1. Plain(t, [h EXCEPT !.todo = <<FALSE>>, !.pc = "set_read"])
    BY <1>0 DEF Plain, Gates, HandlerFields
  <2>2. Plain(t, [h EXCEPT !.queue = Images, !.core = Images[1], !.todo = <<FALSE>>,
                           !.pc = "set_read"])
    BY <1>0 DEF Plain, Gates, HandlerFields
  <2> QED
    BY <1>0, <1>1, <2>1, <2>2, DonePlain, GoPlain DEF LoadBegin, PreloadBegin, Busy
<1>2. CASE LoadRead(t) \/ Cva6LoadRead(t)
  <2>1. /\ Plain(t, [h EXCEPT !.snap = control, !.pc = "load_clear"])
        /\ Plain(t, [h EXCEPT !.snap = control, !.pc = "halt"])
    BY <1>0 DEF Plain, Gates, HandlerFields
  <2> QED
    BY <1>0, <1>2, <2>1, GoPlain DEF LoadRead, Cva6LoadRead, Busy
<1>3. CASE LoadClear(t) \/ Cva6LoadHalt(t)
  <2>1. Plain(t, [h EXCEPT !.pc = "load_unclear"])
    BY <1>0 DEF Plain, Gates, HandlerFields
  <2> QED
    BY <1>0, <1>3, <2>1, DonePlain, ControlPlain DEF LoadClear, Cva6LoadHalt, Busy
<1>4. CASE LoadUnclear(t)
  <2>1. /\ DOMAIN th'[t] = HandlerFields /\ AreWords(th'[t].tev)
        /\ th' = [th EXCEPT ![t] = th'[t]] /\ enc' = enc /\ Busy(t) /\ build' = build
        /\ th'[t].alone = h.alone /\ th'[t].core = h.core /\ th'[t].pc = "load_write"
    BY <1>0, <1>4 DEF LoadUnclear, WriteControl, HandlerFields, Shape, Busy, scenario
  <2>2. control' = h.snap \ (RunBits[h.core] \cup {"trace_clear"})
    BY <1>4 DEF LoadUnclear, WriteControl
  <2>3. h.core \notin Running'
    BY <2>2 DEF Running, Effective, CoreRunning
  <2> QED
    BY <1>0, <2>1, <2>3 DEF Mine, Shape, KeepsOverflow
<1>5. CASE LoadWrite(t)
  <2>1. ASSUME NEW note PROVE Plain(t, NextImage(h, note))
    BY <1>0, DonePlain DEF NextImage, Plain, Gates, HandlerFields
  <2> QED
    BY <1>0, <1>5, <2>1, AccessKeeps, GoPlain DEF LoadWrite, Gates, Busy
<1>6. CASE HoldCheck(t)
  <2>1. CASE CoreRunning(control, h.core)
    BY <1>0, <1>6, <2>1, DonePlain, GoPlain DEF HoldCheck, Busy
  <2>2. CASE ~CoreRunning(control, h.core)
    <3>1. /\ DOMAIN th'[t] = HandlerFields /\ AreWords(th'[t].tev)
          /\ th' = [th EXCEPT ![t] = th'[t]] /\ enc' = enc /\ Busy(t)
          /\ th'[t].alone = h.alone /\ th'[t].core = h.core /\ th'[t].pc = "access"
          /\ control' = control /\ build' = build
      BY <1>0, <1>6, <2>2 DEF HoldCheck, Go, HandlerFields, Shape, Busy, scenario
    <3>2. h.core \notin Running'
      BY <2>2, <3>1 DEF Running, Effective, CoreRunning
    <3> QED
      BY <1>0, <3>1, <3>2 DEF Mine, Shape, KeepsOverflow
  <2> QED
    BY <2>1, <2>2
<1>7. CASE WindowAccess(t)
  BY <1>7, DonePlain, AccessKeeps DEF WindowAccess, Gates
<1> QED
  BY <1>1, <1>2, <1>3, <1>4, <1>5, <1>6, <1>7 DEF LoadStep

\* What the read-modify-writes give back: a word without the overflow bit.
LEMMA RmwShape ==
  ASSUME NEW w, DOMAIN w = WordFields
  PROVE  DOMAIN Rmw(w) = WordFields /\ ~Rmw(w).ovf
BY DEF Rmw, WordFields

LEMMA FeaturesPlain ==
  ASSUME Shape, NEW t \in Threads, Busy(t), NEW n, Plain(t, n), NEW e, WriteFeatures(t, e, n)
  PROVE  Mine(t)
<1>1. AreWords(enc') /\ KeepsOverflow
  BY DEF Shape, WriteFeatures, AreWords, WordFields, KeepsOverflow
<1> QED
  BY <1>1 DEF Shape, Plain, WriteFeatures, Mine, Gates, Busy

LEMMA EncKeeps == ASSUME IInv, NEW t \in Threads, EncStep(t) PROVE Mine(t)
<1> USE DEF At
<1>0. Shape /\ DOMAIN th[t] = HandlerFields /\ AreWords(th[t].tev) /\ AreWords(enc)
  BY DEF IInv, Shape
<1> DEFINE h == th[t]
           e == EncAt(h)
<1>1. \A first, rest : Plain(t, rest) /\ first \notin Gates \cup {"hung", "idle"}
                         => Plain(t, NextEnc(h, first, rest))
  BY <1>0 DEF NextEnc, Plain, HandlerFields
<1>2. CASE GateCheck(t) \/ GatedWrite(t)
  <2>1. Plain(t, [h EXCEPT !.pc = "write"])
    BY <1>0 DEF Plain, Gates, HandlerFields
  <2> QED
    BY <1>0, <1>2, <2>1, DonePlain, GoPlain, FeaturesPlain DEF GateCheck, GatedWrite, Busy
<1>3. CASE TraceOnDrop(t)
  <2> DEFINE w == [h.tev[e] EXCEPT !.en = FALSE, !.it = FALSE]
  <2>1. Plain(t, [h EXCEPT !.pc = "fields"])
    BY <1>0 DEF Plain, Gates, HandlerFields
  <2>2. e \in Encs => DOMAIN w = WordFields
    BY <1>0 DEF AreWords
  <2>3. Busy(t) /\ WriteEnc(t, e, Rmw(w), [h EXCEPT !.pc = "fields"])
    BY <1>3 DEF TraceOnDrop, Busy
  <2> HIDE DEF e, w
  <2> QED
    BY <1>0, <2>1, <2>2, <2>3, RmwShape, EncPlain
<1>4. CASE TraceOnRead(t) \/ TraceOnArmRead(t)
  <2>1. ASSUME NEW pc \in {"source", "active", "arm"}
        PROVE  Plain(t, [h EXCEPT !.tev[e] = enc[e], !.pc = pc])
    <3> DEFINE n == [h EXCEPT !.tev[e] = enc[e], !.pc = pc]
    <3>1. DOMAIN n = HandlerFields /\ n.alone = h.alone /\ n.pc = pc
      BY <1>0 DEF HandlerFields
    <3>2. n.tev = [h.tev EXCEPT ![e] = enc[e]]
      BY <1>0 DEF HandlerFields
    <3> HIDE DEF n, e
    <3>3. AreWords(n.tev)
      BY <1>0, <3>2 DEF AreWords
    <3>4. Plain(t, n)
      BY <3>1, <3>3 DEF Plain, Gates
    <3> QED
      BY <3>4 DEF n
  <2> QED
    BY <1>0, <1>4, <2>1, GoPlain DEF TraceOnRead, TraceOnArmRead, Busy
<1>5. CASE TraceOnSource(t)
  <2>1. Plain(t, [h EXCEPT !.pc = "active"])
    BY <1>0 DEF Plain, Gates, HandlerFields
  <2> QED
    BY <1>0, <1>5, <2>1, FeaturesPlain DEF TraceOnSource, Busy
<1>6. CASE TraceOnActive(t)
  <2> DEFINE w == [h.tev[e] EXCEPT !.fields = TRUE, !.act = TRUE]
  <2>1. Plain(t, [h EXCEPT !.pc = "arm_read"])
    BY <1>0 DEF Plain, Gates, HandlerFields
  <2>2. e \in Encs => DOMAIN w = WordFields
    BY <1>0 DEF AreWords
  <2>3. Busy(t) /\ WriteEnc(t, e, Rmw(w), [h EXCEPT !.pc = "arm_read"])
    BY <1>6 DEF TraceOnActive, Busy
  <2> HIDE DEF e, w
  <2> QED
    BY <1>0, <2>1, <2>2, <2>3, RmwShape, EncPlain
<1>7. CASE TraceOnArm(t)
  <2> DEFINE w == [h.tev[e] EXCEPT !.en = TRUE, !.it = TRUE]
             n == NextEnc(h, "act", Done(h, "ok"))
  <2>1. Plain(t, n)
    BY <1>1, DonePlain DEF Gates
  <2>2. e \in Encs => DOMAIN w = WordFields
    BY <1>0 DEF AreWords
  <2>3. Busy(t) /\ WriteEnc(t, e, Rmw(w), n)
    BY <1>7 DEF TraceOnArm, Busy
  <2> HIDE DEF e, w, n
  <2> QED
    BY <1>0, <2>1, <2>2, <2>3, RmwShape, EncPlain
<1>8. CASE TraceOff(t)
  <2> DEFINE w == [h.tev[e] EXCEPT !.it = FALSE]
             n == NextEnc(h, "act", [h EXCEPT !.pc = "flush"])
  <2>0. Plain(t, [h EXCEPT !.pc = "flush"])
    BY <1>0 DEF Plain, Gates, HandlerFields
  <2>1. Plain(t, n)
    BY <1>1, <2>0 DEF Gates
  <2>2. e \in Encs => DOMAIN w = WordFields
    BY <1>0 DEF AreWords
  <2>3. Busy(t) /\ WriteEnc(t, e, Rmw(w), n)
    BY <1>8 DEF TraceOff, Busy
  <2> HIDE DEF e, w, n
  <2> QED
    BY <1>0, <2>1, <2>2, <2>3, RmwShape, EncPlain
<1> QED
  BY <1>2, <1>3, <1>4, <1>5, <1>6, <1>7, <1>8 DEF EncStep

LEMMA StepKeeps == ASSUME IInv, NEW t \in Threads, Step(t) PROVE Mine(t)
BY CtlKeeps, SetKeeps, LoadKeeps, EncKeeps DEF Step

LEMMA InitIInv == Init => IInv
<1> SUFFICES ASSUME Init PROVE IInv
  OBVIOUS
<1>1. DOMAIN Idle = HandlerFields /\ AreWords(Idle.tev) /\ Idle.pc = "idle"
  BY DEF Idle, HandlerFields, AreWords, EncOff, WordFields
<1>2. AreWords(enc)
  BY ScenarioAssumption DEF Init, AreWords, Words, WordFields
<1>3. \A t \in Threads : th[t] = Idle
  BY DEF Init
<1> QED
  BY <1>1, <1>2, <1>3 DEF Init, IInv, Shape, Apart, Held, NoHang, Busy, Gates

\* A step of a handler: the others stand where they stood, and are not alone.
LEMMA MineIInv == ASSUME IInv, NEW t \in Threads, Mine(t) PROVE IInv'
<1>1. \A u \in Threads : u # t => th'[u] = th[u]
  BY DEF IInv, Shape, Mine
<1>2. Shape'
  BY <1>1 DEF IInv, Shape, Mine
<1>3. Apart'
  BY <1>1 DEF IInv, Apart, Mine, Busy
<1>4. Held'
  <2> SUFFICES ASSUME NEW u \in Threads, th'[u].alone, th'[u].pc \in Gates
               PROVE  th'[u].core \notin Running'
    BY DEF Held
  <2>1. u = t
    <3> SUFFICES ASSUME u # t PROVE FALSE
      OBVIOUS
    <3>1. Busy(u) /\ th[u].alone /\ Busy(t)
      BY <1>1 DEF Busy, Gates, Mine
    <3> QED
      BY <3>1 DEF IInv, Apart
  <2> QED
    BY <2>1 DEF Mine
<1>5. NoHang'
  <2> SUFFICES ASSUME NEW u \in Threads, th'[u].pc = "hung", th'[u].alone PROVE FALSE
    BY DEF NoHang
  <2>1. CASE u = t
    <3>1. th[t].alone /\ th[t].pc \in Gates /\ th[t].core \in Running
      BY <2>1 DEF Mine
    <3> QED
      BY <3>1 DEF IInv, Held
  <2>2. CASE u # t
    BY <1>1, <2>2 DEF IInv, NoHang
  <2> QED
    BY <2>1, <2>2
<1> QED
  BY <1>2, <1>3, <1>4, <1>5 DEF IInv

\* A request that arrives is not alone with a busy one, and neither is that.
LEMMA RequestIInv == ASSUME IInv, NEW t \in Threads, Request(t) PROVE IInv' /\ KeepsOverflow
<1> PICK kind, c : Accept(t, kind, c)
  BY DEF Request
<1> DEFINE others == {u \in Threads \ {t} : Busy(u)}
<1>1. /\ ~Busy(t) /\ enc' = enc /\ control' = control /\ build' = build
      /\ th' = [u \in Threads |->
                 IF u = t THEN [Idle EXCEPT !.kind = kind, !.core = c, !.pc = "begin",
                                            !.alone = (others = {}), !.base = control]
                 ELSE IF u \in others THEN [th[u] EXCEPT !.alone = FALSE]
                 ELSE th[u]]
  BY DEF Accept, scenario
<1>2. /\ DOMAIN th'[t] = HandlerFields /\ AreWords(th'[t].tev) /\ th'[t].pc = "begin"
      /\ th'[t].alone <=> others = {}
  BY <1>1 DEF Idle, HandlerFields, AreWords, EncOff, WordFields
<1>3. ASSUME NEW u \in Threads, u # t
      PROVE  /\ DOMAIN th'[u] = HandlerFields /\ th'[u].tev = th[u].tev
             /\ th'[u].pc = th[u].pc /\ th'[u].core = th[u].core
             /\ th[u].pc # "idle" => ~th'[u].alone
  BY <1>1, <1>3 DEF IInv, Shape, HandlerFields, Busy
<1>4. Running' = Running
  BY <1>1 DEF Running, Effective, CoreRunning, NewBits
<1> HIDE DEF others
<1>5. Shape'
  BY <1>1, <1>2, <1>3 DEF IInv, Shape
<1>6. Apart'
  <2> SUFFICES ASSUME NEW u \in Threads, NEW v \in Threads, u # v, Busy(u)', Busy(v)'
               PROVE  ~th'[u].alone
    BY DEF Apart
  <2>1. CASE u = t
    BY <1>2, <1>3, <2>1 DEF Busy, others
  <2>2. CASE u # t
    BY <1>3, <2>2 DEF Busy
  <2> QED
    BY <2>1, <2>2
<1>7. Held'
  BY <1>2, <1>3 DEF Held, Gates
<1>8. NoHang'
  BY <1>2, <1>3 DEF NoHang
<1> QED
  BY <1>1, <1>5, <1>6, <1>7, <1>8 DEF IInv, KeepsOverflow

LEMMA NextIInv == ASSUME IInv, [Next]_vars PROVE IInv' /\ KeepsOverflow
<1>1. CASE \E t \in Threads : Step(t)
  BY <1>1, StepKeeps, MineIInv DEF Mine
<1>2. CASE \E t \in Threads : Request(t)
  BY <1>2, RequestIInv
<1>3. CASE \E c \in Cores : Overflow(c)
  <2> PICK c \in Cores : Overflow(c)
    BY <1>3
  <2>1. AreWords(enc') /\ KeepsOverflow
    BY DEF Overflow, IInv, Shape, AreWords, WordFields, KeepsOverflow
  <2>2. th' = th /\ control' = control /\ build' = build
    BY DEF Overflow, scenario
  <2>3. Running' = Running
    BY <2>2 DEF Running, Effective, CoreRunning
  <2> QED
    BY <2>1, <2>2, <2>3 DEF IInv, Shape, Apart, Held, NoHang, Busy
<1>4. CASE DemoTick \/ UNCHANGED vars
  <2>1. th' = th /\ control' = control /\ build' = build /\ enc' = enc
    BY <1>4 DEF DemoTick, vars, scenario
  <2>2. Running' = Running
    BY <2>1 DEF Running, Effective, CoreRunning
  <2> QED
    BY <2>1, <2>2 DEF IInv, Shape, Apart, Held, NoHang, Busy, KeepsOverflow
<1> QED
  BY <1>1, <1>2, <1>3, <1>4 DEF Next

LEMMA InvariantHolds == Spec => []IInv
<1>1. IInv /\ [Next]_vars => IInv'
  BY NextIInv
<1> QED
  BY InitIInv, <1>1, PTL DEF Spec

\* No request that had the server to itself accesses the RAM window of a running
\* core (load_program, region_hold_reason).
THEOREM NoHangTheorem == Spec => []NoHang
<1>1. IInv => NoHang
  BY DEF IInv
<1> QED
  BY <1>1, InvariantHolds, PTL

\* No handler erases the evidence of lost trace, in whatever order the requests
\* read and write (rmw_value).
THEOREM OverflowKeptTheorem == Spec => OverflowKept
<1>1. IInv /\ [Next]_vars => [\A e \in Encs : enc[e].ovf => enc'[e].ovf]_vars
  BY NextIInv DEF KeepsOverflow
<1> QED
  BY <1>1, InvariantHolds, PTL DEF Spec, OverflowKept

-----------------------------------------------------------------------------
(* What a request does that has the server to itself.                      *)

\* The set_core_run calls a request makes.
Halt  == <<FALSE>>
Start == <<TRUE>>
Again == <<FALSE, TRUE>>

LEMMA Heads == \A x, y : Head(<<x>>) = x /\ Head(<<x, y>>) = x /\ Tail(<<x, y>>) = <<y>>
OBVIOUS

LEMMA Calls ==
  /\ ~Head(Halt) /\ Head(Start) /\ ~Head(Again) /\ Tail(Again) = Start
  /\ Len(Halt) = 1 /\ Len(Start) = 1 /\ Len(Again) = 2
  /\ Halt # Start /\ Halt # Again /\ Start # Again
<1>1. ~Head(Halt)
  <2>1. Head(<<FALSE>>) = FALSE
    BY Heads
  <2> QED BY <2>1 DEF Halt
<1>2. Head(Start)
  <2>1. Head(<<TRUE>>) = TRUE
    BY Heads
  <2> QED BY <2>1 DEF Start
<1>3. ~Head(Again)
  <2>1. Head(<<FALSE, TRUE>>) = FALSE
    BY Heads
  <2> QED BY <2>1 DEF Again
<1>4. Tail(Again) = Start
  BY Heads DEF Again, Start
<1>5. Len(Halt) = 1 /\ Len(Start) = 1 /\ Len(Again) = 2
  BY DEF Halt, Start, Again
<1>6. Halt # Start /\ Halt # Again
  BY DEF Halt, Start, Again
<1>7. Start # Again
  BY DEF Start, Again
<1> QED BY <1>1, <1>2, <1>3, <1>4, <1>5, <1>6, <1>7

LEMMA CallsOf ==
  ASSUME NEW s, s \in {Halt, Again, Start}
  PROVE  /\ s = Start => Head(s) /\ Len(s) = 1
         /\ s # Start => ~Head(s)
         /\ s = Again => Len(s) = 2 /\ Tail(s) = Start
         /\ s # Again => Len(s) = 1
<1>2. s = Start => Head(s) /\ Len(s) = 1
  BY Calls
<1>3. s # Start => ~Head(s)
  BY Calls
<1>4. s = Again => Len(s) = 2 /\ Tail(s) = Start
  BY Calls
<1>5. s # Again => Len(s) = 1
  BY Calls
<1> QED BY <1>2, <1>3, <1>4, <1>5

\* The bits by which set_core_run expresses that a core runs.
Sgl(c) == IF OwnBit[c] # {} THEN OwnBit[c] ELSE RunBits[c]
Setter(c) == c \in Cores /\ (OwnBit[c] # {} \/ c \in Windows)

LEMMA SglApart ==
  ASSUME NEW k, Setter(k), NEW c \in Cores, NEW d \in Cores, c # d
  PROVE  RunBits[d] \cap Sgl(c) = {}
BY WiringAssumption DEF Setter, Sgl

LEMMA SglIn == \A c \in Cores : Sgl(c) \subseteq RunBits[c]
BY ScenarioAssumption DEF Sgl

\* The bits an old bitstream lacks release a core by nothing but its own bit.
LEMMA NewBitsAre ==
  ASSUME NEW k, Setter(k), NEW c \in Cores, RunBits[c] \cap NewBits # {}
  PROVE  OwnBit[c] # {} /\ "core_run" \in RunBits[c] /\ OwnBit[c] \subseteq NewBits
         /\ RunBits[c] \subseteq NewBits \cup {"core_run"}
<1>1. PICK d \in Cores : "core_run" \in RunBits[d] /\ OwnBit[d] \cap RunBits[c] # {}
  BY DEF NewBits
<1>2. d = c
  BY <1>1, SglApart DEF Sgl
<1>3. OwnBit[c] \subseteq NewBits
  BY <1>1, <1>2 DEF NewBits
<1> QED
  BY <1>1, <1>2, <1>3, WiringAssumption

\* set_core_run: every core is released by bits of its own, or not at all.
LEMMA ExpressedBits ==
  ASSUME NEW h, Setter(h.core), NEW c \in Cores
  PROVE  RunBits[c] \cap Expressed(h) = IF c \in Wanted(h) THEN Sgl(c) ELSE {}
<1>1. \A d \in Wanted(h) : d \in Cores
  BY DEF Wanted
<1>2. RunBits[c] \cap Expressed(h) = RunBits[c] \cap UNION {Sgl(d) : d \in Wanted(h)}
  BY DEF Expressed, Sgl
<1>3. \A d \in Wanted(h) : d # c => RunBits[c] \cap Sgl(d) = {}
  BY <1>1, SglApart
<1> QED
  BY <1>2, <1>3, SglIn

LEMMA EffectiveIs ==
  ASSUME NEW x, NEW c
  PROVE  /\ c \in Effective(x) => c \in Cores /\ RunBits[c] \cap x # {}
         /\ build # "old" => (c \in Effective(x) <=> c \in Cores /\ RunBits[c] \cap x # {})
         /\ build = "old" => (c \in Effective(x) <=> c \in Cores /\ (RunBits[c] \cap x) \ NewBits # {})
BY DEF Effective, CoreRunning

\* The cores that run after a write of set_core_run.
LEMMA ExpressedRuns ==
  ASSUME NEW h, Setter(h.core), h.todo \in {Halt, Again, Start},
         Head(h.todo) => OwnBit[h.core] # {}
  PROVE  /\ \A c \in Effective(Expressed(h)) : c # h.core => c \in Effective(h.old)
         /\ ~Head(h.todo) => h.core \notin Effective(Expressed(h)) /\ RunBits[h.core] \cap Expressed(h) = {}
         /\ build # "old" => Effective(Expressed(h)) = IF Head(h.todo) THEN Effective(h.old) \cup {h.core}
                                                       ELSE Effective(h.old) \ {h.core}
         /\ build = "old" /\ (\A c \in Wanted(h) : OwnBit[c] = {}) =>
              /\ ~Head(h.todo) /\ Effective(Expressed(h)) = Effective(h.old) \ {h.core}
              /\ RunBits[h.core] \cap NewBits # {} => h.core \notin Effective(h.old)
         /\ Expressed(h) \cap Pulses \subseteq h.old
<1> DEFINE k == h.core
           E == Expressed(h)
<1>0. k \in Cores
  BY DEF Setter
<1>1. \A c \in Cores : RunBits[c] \cap E = IF c \in Wanted(h) THEN Sgl(c) ELSE {}
  BY ExpressedBits
<1>2. \A c \in Cores : c # k => (c \in Wanted(h) <=> RunBits[c] \cap h.old # {})
  BY DEF Wanted, CoreRunning
<1>3. k \in Wanted(h) <=> Head(h.todo)
  BY <1>0 DEF Wanted
<1>4. \A c \in Cores : RunBits[c] # {} => Sgl(c) # {}
  BY DEF Sgl
<1>5. E \cap Pulses \subseteq h.old
  <2> SUFFICES ASSUME NEW b \in E, b \in Pulses, b \notin h.old PROVE FALSE
    OBVIOUS
  <2>0. E = (h.old \ UNION {RunBits[c] : c \in Cores}) \cup UNION {Sgl(c) : c \in Wanted(h)}
    BY DEF Expressed, Sgl
  <2> HIDE DEF E
  <2>1. PICK c \in Wanted(h) : b \in Sgl(c)
    BY <2>0
  <2>2. c \in Cores
    BY DEF Wanted
  <2> QED
    BY <2>1, <2>2, SglIn, WiringAssumption
<1> HIDE DEF E
<1>6. ASSUME NEW c \in Effective(E), c # k PROVE c \in Effective(h.old)
  <2>1. c \in Cores /\ c \in Wanted(h) /\ RunBits[c] \cap h.old # {}
    BY <1>1, <1>2, <1>6, EffectiveIs
  <2>2. CASE build # "old"
    BY <2>1, <2>2, EffectiveIs
  <2>3. CASE build = "old"
    <3>1. Sgl(c) \ NewBits # {}
      BY <1>1, <1>6, <2>1, <2>3, EffectiveIs
    <3>2. RunBits[c] \cap NewBits = {}
      BY <2>1, <3>1, NewBitsAre DEF Sgl
    <3> QED
      BY <2>1, <2>3, <3>2, EffectiveIs
  <2> QED BY <2>2, <2>3
<1>7. ~Head(h.todo) => k \notin Effective(E) /\ RunBits[k] \cap E = {}
  BY <1>0, <1>1, <1>3, EffectiveIs
<1>8. ASSUME build # "old"
      PROVE  Effective(E) = IF Head(h.todo) THEN Effective(h.old) \cup {k} ELSE Effective(h.old) \ {k}
  <2>1. \A c \in Cores : c # k => (c \in Effective(E) <=> c \in Effective(h.old))
    BY ONLY <1>1, <1>2, <1>4, <1>8, EffectiveIs
  <2>2. k \in Effective(E) <=> Head(h.todo)
    BY <1>0, <1>1, <1>3, <1>8, EffectiveIs DEF Sgl
  <2>3. \A x : Effective(x) \subseteq Cores
    BY EffectiveIs
  <2>4. CASE Head(h.todo)
    BY <1>0, <2>1, <2>2, <2>3, <2>4
  <2>5. CASE ~Head(h.todo)
    <3>1. \A c : c \in Effective(E) <=> c \in Effective(h.old) \ {k}
      BY <1>0, <2>1, <2>2, <2>3, <2>5
    <3> QED
      BY <2>5, <3>1
  <2> QED BY <2>4, <2>5
<1>9. ASSUME build = "old", \A c \in Wanted(h) : OwnBit[c] = {}
      PROVE  /\ ~Head(h.todo) /\ Effective(E) = Effective(h.old) \ {k}
             /\ RunBits[k] \cap NewBits # {} => k \notin Effective(h.old)
  <2>1. ~Head(h.todo)
    BY <1>3, <1>9
  <2>2. ASSUME NEW c \in Effective(h.old), c # k PROVE c \in Effective(E)
    <3>1. c \in Cores /\ c \in Wanted(h) /\ OwnBit[c] = {} /\ RunBits[c] # {}
      <4>1. c \in Cores /\ RunBits[c] \cap h.old # {}
        BY <2>2, EffectiveIs
      <4>2. c \in Wanted(h)
        BY <1>2, <2>2, <4>1
      <4>3. OwnBit[c] = {}
        BY <1>9, <4>2
      <4>4. RunBits[c] # {}
        BY <4>1
      <4> QED
        BY <4>1, <4>2, <4>3, <4>4
    <3>2. RunBits[c] \cap NewBits = {}
      BY <3>1, NewBitsAre
    <3> QED
      BY <1>1, <1>9, <3>1, <3>2, EffectiveIs DEF Sgl
  <2>3. ASSUME RunBits[k] \cap NewBits # {}, k \in Effective(h.old) PROVE FALSE
    <3>1. /\ OwnBit[k] # {} /\ "core_run" \in RunBits[k] /\ RunBits[k] \subseteq NewBits \cup {"core_run"}
      BY <1>0, <2>3, NewBitsAre
    <3>2. "core_run" \in h.old
      <4>1. (RunBits[k] \cap h.old) \ NewBits # {}
        BY <1>9, <2>3, EffectiveIs
      <4> QED
        BY <3>1, <4>1
    <3>3. PICK d \in Cores \ {k} : OwnBit[d] # {} /\ "core_run" \in RunBits[d]
      BY <1>0, <3>1, WiringAssumption
    <3> QED
      BY <1>2, <1>9, <3>2, <3>3
  <2> QED
    BY <1>6, <1>7, <2>1, <2>2, <2>3
<1> QED
  BY <1>5, <1>6, <1>7, <1>8, <1>9 DEF E

-----------------------------------------------------------------------------
(* The protocols of a set of cores.                                        *)

LEMMA MixedIs ==
  ASSUME NEW S, S \subseteq Cores, \A a, b \in S : protocol[a] = protocol[b]
  PROVE  ~Mixed(S)
<1> DEFINE P == {protocol[c] : c \in S}
<1>1. CASE S = {}
  <2>1. P = {}
    BY <1>1
  <2> QED
    BY <2>1, FS_EmptySet DEF Mixed
<1>2. CASE S # {}
  <2>1. PICK a \in S : TRUE
    BY <1>2
  <2>2. P = {protocol[a]}
    BY <2>1
  <2>3. Cardinality({protocol[a]}) = 1
    BY FS_Singleton
  <2>4. Cardinality(P) = 1
    BY <2>2, <2>3
  <2> HIDE DEF P
  <2>5. ~(Cardinality(P) > 1)
    BY <2>4
  <2> QED
    BY <2>5 DEF Mixed, P
<1> QED BY <1>1, <1>2

LEMMA ProtocolsFinite == IsFiniteSet(Protocols) /\ Cardinality(Protocols) \in Nat
<1> DEFINE f == [c \in Cores |-> protocol[c]]
<1>1. f \in Surjection(Cores, Protocols)
  BY DEF Surjection, Protocols
<1> HIDE DEF f
<1>2. IsFiniteSet(Protocols)
  BY <1>1, FS_Surjection, WiringAssumption
<1> QED
  BY <1>2, FS_CardinalityType

LEMMA UnmixedIs ==
  ASSUME NEW S, S \subseteq Cores, ~Mixed(S), NEW a \in S, NEW b \in S
  PROVE  protocol[a] = protocol[b]
<1> SUFFICES ASSUME protocol[a] # protocol[b] PROVE FALSE
  OBVIOUS
<1> DEFINE P == {protocol[c] : c \in S}
<1>1. P \in SUBSET Protocols
  BY DEF Protocols
<1>2. IsFiniteSet(P) /\ Cardinality(P) \in Nat
  BY <1>1, ProtocolsFinite, FS_Subset, FS_CardinalityType
<1>3. {protocol[a], protocol[b]} \in SUBSET P
  OBVIOUS
<1>4. Cardinality({protocol[a]} \cup {protocol[b]}) = 2
  <2> DEFINE one == {protocol[a]}
             other == protocol[b]
  <2>1. IsFiniteSet(one) /\ Cardinality(one) = 1
    BY FS_Singleton
  <2>2. other \notin one
    OBVIOUS
  <2> HIDE DEF one, other
  <2>3. Cardinality(one \cup {other}) = Cardinality(one) + 1
    BY <2>1, <2>2, FS_AddElement
  <2>4. Cardinality(one \cup {other}) = 2
    BY <2>1, <2>3
  <2> QED
    BY <2>4 DEF one, other
<1>5. {protocol[a]} \cup {protocol[b]} = {protocol[a], protocol[b]}
  OBVIOUS
<1>6. 2 <= Cardinality(P)
  BY <1>2, <1>3, <1>4, <1>5, FS_Subset
<1> QED
  BY <1>2, <1>6 DEF Mixed

\* In a scenario of one protocol nothing is mixed.
LEMMA UniformUnmixed ==
  ASSUME ~(Cardinality(Protocols) > 1), NEW S, S \subseteq Cores
  PROVE  ~Mixed(S)
<1>1. {protocol[c] : c \in S} \in SUBSET Protocols
  BY DEF Protocols
<1>2. Cardinality({protocol[c] : c \in S}) <= Cardinality(Protocols)
  BY <1>1, ProtocolsFinite, FS_Subset
<1>3. Cardinality({protocol[c] : c \in S}) \in Nat
  BY <1>1, ProtocolsFinite, FS_Subset, FS_CardinalityType
<1> QED
  BY <1>2, <1>3, ProtocolsFinite DEF Mixed

-----------------------------------------------------------------------------
(* Where a request stands that is alone: h is its record, x CONTROL and w  *)
(* the encoders.                                                           *)

Was(h) == Effective(h.base)
Calm(x, h) == x \cap Pulses \subseteq h.base

\* No core of another protocol ran when core_run looked.
ClashFree(h) ==
  \/ ~(Cardinality(Protocols) > 1)
  \/ \A k \in Cores \ {h.core} : CoreRunning(h.base, k) => protocol[k] = protocol[h.core]

\* The cores a request may have running at any time, but cva6_run.
Within(h, x) ==
  \/ h.kind = "cva6_run"
  \/ ~(Cardinality(Protocols) > 1)
  \/ Effective(x) \subseteq Was(h)
  \/ h.kind = "core_run" /\ h.core \in Cores /\ ClashFree(h) /\ Effective(x) \subseteq Was(h) \cup {h.core}

PerOne == {"core_run", "core_stop", "load"}

\* A request before its first write, or one that writes no run bit.
Fresh(h, x) ==
  /\ h.pc \in {"begin", "regs", "act", "flush", "access", "write", "fields", "source", "active",
               "arm_read", "arm", "halt"}
  /\ x = h.base /\ h.note = "none"
  /\ h.pc \notin {"begin", "access", "write"} => h.snap = h.base
  /\ h.kind = "load" => h.core \in Windows
  /\ h.kind \in {"core_run", "core_stop"} => h.core \in Cores
Releasing(h, x) ==
  /\ h.kind = "run" /\ h.pc = "release" /\ h.snap = h.base /\ ~(Cardinality(Protocols) > 1)
Pulsing(h, x) ==
  /\ h.kind \in {"clear", "con_clear", "flush", "trace_off"} /\ h.pc = "drop"
  /\ h.snap = h.base /\ PulseBit(h) \in Pulses /\ Effective(x) = Was(h)

\* A call of set_core_run that found CONTROL to be x.
Round(h, x) ==
  /\ Setter(h.core) /\ Calm(x, h)
  /\ \/ /\ h.kind \in {"core_stop", "load"} /\ h.todo = Halt /\ x = h.base /\ h.note = "none"
        /\ h.kind = "load" => h.core \in Windows
     \/ h.kind = "preload" /\ h.todo = Halt /\ Effective(x) \subseteq Was(h) /\ h.core \in Windows
     \/ /\ h.kind = "core_run" /\ OwnBit[h.core] # {} /\ ClashFree(h)
        /\ \/ /\ h.todo = Again /\ h.note = "none"
              /\ x = h.base /\ CoreRunning(h.base, h.core)
           \/ h.todo = Start /\ h.note = "none" /\ x = h.base
           \/ /\ h.todo = Start /\ h.note = "declined" /\ build # "hw"
              /\ x = h.base /\ CoreRunning(h.base, h.core)
           \/ /\ h.todo = Start /\ h.note = "ok" /\ Effective(x) = Was(h) \ {h.core}
              /\ build = "old" /\ RunBits[h.core] \cap NewBits # {} => h.core \notin Was(h)
Setting(h, x) ==
  \/ h.pc = "set_read" /\ Round(h, x)
  \/ h.pc = "set_write" /\ Round(h, h.old) /\ x = h.old
  \/ h.pc = "set_probe" /\ Round(h, h.old) /\ x = Expressed(h)
  \/ h.pc = "set_restore" /\ Round(h, h.old) /\ x = Expressed(h) /\ build # "hw"

\* A load, with its core stopped.
Held1(h, x) ==
  /\ h.kind \in {"load", "preload"} /\ h.core \in Windows /\ Calm(x, h) /\ Effective(x) \subseteq Was(h)
  /\ h.kind = "load" /\ build = "hw" => Effective(x) = Was(h) \ {h.core} /\ RunBits[h.core] \cap x = {}
Loading(h, x) ==
  \/ h.pc = "load_read" /\ Held1(h, x)
  \/ h.pc = "load_clear" /\ Held1(h, h.snap) /\ x = h.snap
  \/ /\ h.pc = "load_unclear" /\ Held1(h, h.snap) /\ Effective(x) \subseteq Was(h)
     /\ h.kind = "load" /\ build = "hw" => Effective(x) = Was(h) \ {h.core}
  \/ /\ h.pc = "load_write" /\ Held1(h, x) /\ h.core \notin Effective(x)

\* trace_on has armed the encoders before the one at hand, and holds that one.
Ready(v) == v.act /\ v.en /\ v.it /\ v.fields /\ (MultiSource => v.src)
Arming(h, w) ==
  /\ h.pos \in 1 .. Len(EncSeq)
  /\ h.kind = "trace_on" =>
       LET v == w[EncAt(h)]  u == h.tev[EncAt(h)]
       IN /\ \A i \in 1 .. h.pos - 1 : Ready(w[EncSeq[i]])
          /\ h.pc \in {"fields", "source", "active", "arm_read", "arm"} => ~v.en
          /\ h.pc \in {"source", "active"} => ~u.en
          /\ h.pc \in {"active", "arm_read", "arm"} => (MultiSource => v.src)
          /\ h.pc \in {"arm_read", "arm"} => v.act /\ v.fields
          /\ h.pc = "arm" => u.act /\ u.fields

Fact(h, x, w) ==
  /\ Within(h, x) /\ Arming(h, w)
  /\ h.kind = "preload" => h.queue \in Seq(Windows)
  /\ build = "hw" /\ h.kind \in PerOne => h.touched \subseteq {h.core}
  /\ Fresh(h, x) \/ Releasing(h, x) \/ Pulsing(h, x) \/ Setting(h, x) \/ Loading(h, x) \/ h.pc = "hung"

\* What a finished request leaves of what it found.
Verdict(h, note, x, w) ==
  /\ Effective(x) \in ExpectedRun(h, note)
  /\ x \cap Pulses \subseteq h.base
  /\ h.kind = "trace_on" =>
       \A e \in Encs : /\ w[e].act /\ w[e].en /\ w[e].it /\ w[e].fields
                       /\ MultiSource => w[e].src

-----------------------------------------------------------------------------
(* One step of a request that is alone.                                    *)

\* STATUS shows the run state where the bitstream has the bits.
Wired ==
  /\ build \in {"hw", "old", "demo"}
  /\ build = "hw" => mirror = Running
  /\ build = "old" => mirror = {}
Lone(t) == Busy(t) /\ Shape /\ Wired /\ Fact(th[t], control, enc)
After(t) ==
  /\ Within(th[t], control')
  /\ th'[t].pc # "idle" => Fact(th'[t], control', enc')
  /\ th'[t].pc = "idle" => Verdict(th[t], th'[t].note, control', enc')

LEMMA GoIs ==
  ASSUME Shape, NEW t \in Threads, NEW n, Go(t, n)
  PROVE  th'[t] = n /\ control' = control /\ enc' = enc
BY DEF Go, Shape

LEMMA ControlIs ==
  ASSUME Shape, NEW t \in Threads, DOMAIN th[t] = HandlerFields, NEW n, DOMAIN n = HandlerFields, NEW val,
         WriteControl(t, val, n)
  PROVE  /\ control' = val /\ enc' = enc /\ DOMAIN th'[t] = HandlerFields
         /\ \A f \in HandlerFields : f # "touched" => th'[t][f] = n[f]
         /\ th'[t].touched = n.touched \cup (Running \ Effective(val)) \cup (Effective(val) \ Running)
BY DEF WriteControl, Shape, HandlerFields

LEMMA FieldsOf ==
  \A g : DOMAIN g = HandlerFields => "touched" \in DOMAIN g
BY DEF HandlerFields

\* Bits that release no core do not matter to the run state.
LEMMA EffectiveBelow ==
  ASSUME NEW x, NEW y, \A c \in Cores : RunBits[c] \cap x \subseteq y
  PROVE  Effective(x) \subseteq Effective(y)
BY DEF Effective, CoreRunning

LEMMA EffectiveSame ==
  ASSUME NEW x, NEW y, \A c \in Cores : RunBits[c] \cap x = RunBits[c] \cap y
  PROVE  Effective(x) = Effective(y)
BY EffectiveBelow

LEMMA EffectiveCores == \A x : Effective(x) \subseteq Cores
BY DEF Effective

LEMMA ExpectedAny ==
  ASSUME NEW h, NEW note, NEW x,
         h.kind \in {"run", "stop", "cva6_run", "cva6_stop", "load_cva6", "preload"}
  PROVE  Effective(x) \in ExpectedRun(h, note)
BY EffectiveCores DEF ExpectedRun

LEMMA ExpectedWas ==
  ASSUME NEW h, NEW note, NEW x, Effective(x) = Was(h),
         \/ h.kind \notin {"core_run", "core_stop", "load"}
         \/ h.kind \in {"core_run", "core_stop"} /\ note = "refused"
         \/ h.kind = "core_stop" /\ note = "declined"
  PROVE  Effective(x) \in ExpectedRun(h, note)
<1>1. CASE h.kind \in {"run", "stop", "cva6_run", "cva6_stop", "load_cva6", "preload"}
  BY <1>1, ExpectedAny
<1>2. CASE h.kind \notin {"run", "stop", "cva6_run", "cva6_stop", "load_cva6", "preload"}
  <2>1. ExpectedRun(h, note) = {Was(h)}
    BY <1>2 DEF ExpectedRun, Was
  <2> QED BY <2>1
<1> QED BY <1>1, <1>2

\* A finished handler of which the run state and the pulses are as they were.
LEMMA AsItWas ==
  ASSUME NEW h, NEW note, NEW x, NEW w, Effective(x) = Was(h), Calm(x, h), h.kind # "trace_on",
         \/ h.kind \notin {"core_run", "core_stop", "load"}
         \/ h.kind \in {"core_run", "core_stop"} /\ note = "refused"
  PROVE  Within(h, x) /\ Verdict(h, note, x, w)
BY ExpectedWas DEF Within, Verdict, Calm

LEMMA DoneIs == \A h, note : Done(h, note).pc = "idle" /\ Done(h, note).note = note
                             /\ DOMAIN Done(h, note) = HandlerFields
BY DEF Done, Idle, HandlerFields

LEMMA CtlFact == ASSUME NEW t \in Threads, Lone(t), CtlStep(t) PROVE After(t)
<1> DEFINE h == th[t]
<1>0. Shape /\ DOMAIN h = HandlerFields /\ Fact(h, control, enc)
  BY DEF Lone, Shape
<1> USE DEF At
<1>1. CASE CtlRead(t)
  <2>1. PICK pc \in {"regs", "act"} : Go(t, [h EXCEPT !.snap = control, !.pc = pc])
    BY <1>1 DEF CtlRead
  <2> DEFINE n == [h EXCEPT !.snap = control, !.pc = pc]
  <2>2. /\ n.pc = pc /\ n.snap = control /\ n.kind = h.kind /\ n.core = h.core /\ n.base = h.base
        /\ n.note = h.note /\ n.queue = h.queue /\ n.touched = h.touched /\ n.pos = h.pos /\ n.tev = h.tev
    BY <1>0 DEF HandlerFields
  <2>3. th'[t] = n /\ control' = control /\ enc' = enc
    BY <1>0, <2>1, GoIs
  <2>4. Fresh(h, control)
    BY <1>0, <1>1 DEF CtlRead, Fact, Releasing, Pulsing, Setting, Loading
  <2> HIDE DEF n
  <2>5. Fresh(n, control)
    BY <2>2, <2>4 DEF Fresh
  <2>6. Arming(n, enc) /\ Within(n, control)
    BY <1>0, <2>2 DEF Fact, Arming, Within, EncAt, Was, ClashFree
  <2> QED
    BY <1>0, <2>2, <2>3, <2>5, <2>6 DEF Fact, After
<1>2. CASE CtlRegs(t)
  <2>1. PICK tev, sk : Go(t, [h EXCEPT !.tev = tev, !.sk = sk, !.pc = "act"])
    BY <1>2 DEF CtlRegs
  <2> DEFINE n == [h EXCEPT !.tev = tev, !.sk = sk, !.pc = "act"]
  <2>2. /\ n.pc = "act" /\ n.snap = h.snap /\ n.kind = h.kind /\ n.core = h.core /\ n.base = h.base
        /\ n.note = h.note /\ n.queue = h.queue /\ n.touched = h.touched /\ n.pos = h.pos
    BY <1>0 DEF HandlerFields
  <2>3. th'[t] = n /\ control' = control /\ enc' = enc
    BY <1>0, <2>1, GoIs
  <2>4. Fresh(h, control) /\ h.pc = "regs"
    BY <1>0, <1>2 DEF CtlRegs, Fact, Releasing, Pulsing, Setting, Loading
  <2> HIDE DEF n
  <2>5. Fresh(n, control)
    BY ONLY <2>2, <2>4 DEF Fresh
  <2>6. Arming(n, enc) /\ Within(n, control)
    BY <1>0, <2>2 DEF Fact, Arming, Within, EncAt, Was, ClashFree
  <2> QED
    BY <1>0, <2>2, <2>3, <2>5, <2>6 DEF Fact, After
<1>3. ASSUME h.pc = "act" PROVE Fresh(h, control) /\ control = h.base /\ h.snap = h.base
  BY <1>0, <1>3 DEF Fact, Releasing, Pulsing, Setting, Loading, Fresh
<1>4. Calm(h.base, h)
  BY DEF Calm
<1>5. CASE RunRefused(t) \/ SinkRefused(t)
  <2>1. th'[t] = Done(h, "refused") /\ control' = control /\ h.pc = "act" /\ h.kind \in {"run", "ddr_clear"}
    BY <1>0, <1>5, GoIs DEF RunRefused, SinkRefused
  <2> QED
    BY <1>3, <1>4, <2>1, AsItWas, DoneIs DEF After, Was
<1>6. CASE RunHalt(t)
  <2> DEFINE n == [h EXCEPT !.pc = "release"]
  <2>1. /\ WriteControl(t, h.snap \ All, n) /\ h.kind = "run" /\ h.pc = "act" /\ Cardinality(Protocols) < 2
    BY <1>6 DEF RunHalt
  <2>2. /\ n.pc = "release" /\ n.snap = h.snap /\ n.kind = h.kind /\ n.base = h.base /\ n.pos = h.pos
        /\ DOMAIN n = HandlerFields
    BY <1>0 DEF HandlerFields
  <2> HIDE DEF n
  <2>3. /\ th'[t].pc = "release" /\ th'[t].kind = "run" /\ th'[t].base = h.base /\ th'[t].snap = h.base
        /\ th'[t].pos = h.pos
    BY <1>0, <1>3, <2>1, <2>2, ControlIs DEF HandlerFields
  <2>4. ~(Cardinality(Protocols) > 1)
    BY <2>1, ProtocolsFinite
  <2>5. Arming(th'[t], enc')
    BY <1>0, <2>3 DEF Arming, Fact
  <2> QED
    BY <2>3, <2>4, <2>5 DEF After, Fact, Within, Releasing, PerOne
<1>7. CASE RunRelease(t)
  <2>1. /\ WriteControl(t, (h.snap \ All) \cup {"core_run"}, Done(h, "ok")) /\ h.kind = "run"
        /\ h.pc \in {"act", "release"} /\ Cardinality(Protocols) < 2
    BY <1>7 DEF RunRelease
  <2>2. th'[t].pc = "idle" /\ control' = (h.snap \ All) \cup {"core_run"}
    BY <1>0, <2>1, ControlIs, DoneIs DEF HandlerFields
  <2>3. h.snap = h.base
    BY <1>0, <2>1 DEF Fact, Releasing, Pulsing, Setting, Loading, Fresh
  <2>4. ~(Cardinality(Protocols) > 1)
    BY <2>1, ProtocolsFinite
  <2>5. control' \cap Pulses \subseteq h.base
    BY <2>2, <2>3, WiringAssumption
  <2> QED
    BY <2>1, <2>2, <2>4, <2>5, ExpectedAny DEF After, Within, Verdict
<1>8. CASE Stop(t) \/ Cva6Run(t)
  <2>1. PICK x : /\ WriteControl(t, x, Done(h, "ok")) /\ h.kind \in {"stop", "cva6_run", "cva6_stop"}
                 /\ h.pc = "act" /\ (h.kind # "cva6_run" => x \subseteq h.snap) /\ x \subseteq h.snap \cup Cva6Mask
    BY <1>8 DEF Stop, Cva6Run
  <2>2. th'[t].pc = "idle" /\ control' = x
    BY <1>0, <2>1, ControlIs, DoneIs DEF HandlerFields
  <2>3. Within(h, x)
    BY <1>3, <2>1, EffectiveBelow DEF Within, Was
  <2>4. x \cap Pulses \subseteq h.base
    BY <1>3, <2>1, WiringAssumption DEF Cva6Mask
  <2> QED
    BY <2>1, <2>2, <2>3, <2>4, ExpectedAny DEF After, Verdict
<1>9. CASE Irq(t)
  <2>1. PICK x : /\ WriteControl(t, x, Done(h, "ok")) /\ h.kind \in {"irq_on", "irq_off"}
                 /\ h.pc = "act" /\ x \in {h.snap \cup {"irq"}, h.snap \ {"irq"}}
    BY <1>9 DEF Irq
  <2>2. th'[t].pc = "idle" /\ control' = x
    BY <1>0, <2>1, ControlIs, DoneIs DEF HandlerFields
  <2>3. \A c \in Cores : RunBits[c] \cap x = RunBits[c] \cap h.base
    BY <1>3, <2>1, WiringAssumption
  <2>4. Effective(x) = Was(h)
    BY <2>3, EffectiveSame DEF Was
  <2>5. Calm(x, h)
    BY <1>3, <2>1, WiringAssumption DEF Calm
  <2> QED
    BY <2>1, <2>2, <2>4, <2>5, AsItWas DEF After
<1>10. CASE PulseUp(t)
  <2>1. h.pc \in {"act", "flush"} /\ h.kind \in {"clear", "con_clear", "flush", "trace_off"}
    BY <1>10 DEF PulseUp
  <2>2. control = h.base /\ h.snap = h.base
    BY <1>0, <2>1 DEF Fact, Releasing, Pulsing, Setting, Loading, Fresh
  <2>3. CASE PulseBit(h) \in Pulses
    <3> DEFINE n == [h EXCEPT !.pc = "drop"]
    <3>1. WriteControl(t, h.snap \cup {PulseBit(h)}, n)
      BY <1>10, <2>3 DEF PulseUp
    <3>2. /\ n.pc = "drop" /\ n.snap = h.snap /\ n.kind = h.kind /\ n.base = h.base /\ n.pos = h.pos
          /\ n.core = h.core /\ DOMAIN n = HandlerFields
      BY <1>0 DEF HandlerFields
    <3> HIDE DEF n
    <3>3. /\ th'[t].pc = "drop" /\ th'[t].kind = h.kind /\ th'[t].base = h.base /\ th'[t].snap = h.base
          /\ th'[t].pos = h.pos /\ th'[t].core = h.core /\ control' = h.base \cup {PulseBit(h)}
      BY <1>0, <2>2, <3>1, <3>2, ControlIs DEF HandlerFields
    <3>4. \A c \in Cores : RunBits[c] \cap control' = RunBits[c] \cap h.base
      BY <2>3, <3>3, WiringAssumption
    <3>5. Effective(control') = Was(h)
      BY <3>4, EffectiveSame DEF Was
    <3>6. Arming(th'[t], enc') /\ PulseBit(th'[t]) = PulseBit(h) /\ Was(th'[t]) = Was(h)
      BY <1>0, <2>1, <3>3 DEF Arming, Fact, PulseBit, Was
    <3>7. Within(h, control') /\ Within(th'[t], control')
      BY <3>5, <3>6 DEF Within
    <3> QED
      BY <2>1, <2>3, <3>3, <3>5, <3>6, <3>7 DEF After, Fact, Pulsing, PerOne
  <2>4. CASE PulseBit(h) \notin Pulses
    <3>1. PICK note : Go(t, Done(h, note))
      BY <1>10, <2>4 DEF PulseUp
    <3>2. th'[t] = Done(h, note) /\ control' = control
      BY <1>0, <3>1, GoIs
    <3> QED
      BY <1>4, <2>1, <2>2, <3>2, AsItWas, DoneIs DEF After, Was
  <2> QED BY <2>3, <2>4
<1>11. CASE PulseDown(t)
  <2>1. WriteControl(t, h.snap \ {PulseBit(h)}, Done(h, "ok")) /\ Pulsing(h, control)
    BY <1>0, <1>11 DEF PulseDown, Fact, Fresh, Releasing, Setting, Loading
  <2>2. th'[t].pc = "idle" /\ control' = h.base \ {PulseBit(h)} /\ PulseBit(h) \in Pulses
    BY <1>0, <2>1, ControlIs, DoneIs DEF HandlerFields, Pulsing
  <2>3. \A c \in Cores : RunBits[c] \cap control' = RunBits[c] \cap h.base
    BY <2>2, WiringAssumption
  <2>4. Effective(control') = Was(h) /\ Calm(control', h)
    BY <2>2, <2>3, EffectiveSame DEF Was, Calm
  <2> QED
    BY <2>1, <2>2, <2>4, AsItWas DEF After, Pulsing
<1>12. CASE CoreStop(t) \/ CoreRun(t)
  <2>1. h.pc = "act" /\ h.kind \in {"core_stop", "core_run"}
    BY <1>12 DEF CoreStop, CoreRun
  <2>2. h.core \in Cores /\ h.note = "none" /\ control = h.base /\ h.snap = h.base
    BY <1>3, <2>1 DEF Fresh
  <2>3. CASE Go(t, Done(h, "refused"))
    <3>1. th'[t] = Done(h, "refused") /\ control' = control
      BY <1>0, <2>3, GoIs
    <3> QED
      BY <1>4, <2>1, <2>2, <3>1, AsItWas, DoneIs DEF After, Was
  <2>4. ASSUME ~Go(t, Done(h, "refused"))
        PROVE  \E todo : /\ Go(t, [h EXCEPT !.pc = "set_read", !.todo = todo]) /\ OwnBit[h.core] # {}
                         /\ \/ h.kind = "core_stop" /\ todo = <<FALSE>>
                            \/ /\ h.kind = "core_run" /\ ClashFree(h)
                               /\ \/ todo = <<FALSE, TRUE>> /\ CoreRunning(h.base, h.core)
                                  \/ todo = <<TRUE>>
    <3>1. CASE CoreStop(t)
      <4>1. OwnBit[h.core] # {} /\ Go(t, [h EXCEPT !.todo = <<FALSE>>, !.pc = "set_read"])
        BY <2>4, <3>1 DEF CoreStop
      <4>2. [h EXCEPT !.todo = <<FALSE>>, !.pc = "set_read"] = [h EXCEPT !.pc = "set_read", !.todo = <<FALSE>>]
        OBVIOUS
      <4> QED
        BY <3>1, <4>1, <4>2 DEF CoreStop
    <3>2. CASE CoreRun(t)
      <4> DEFINE todo == IF CoreRunning(h.snap, h.core) THEN <<FALSE, TRUE>> ELSE <<TRUE>>
                 clash == {k \in Cores \ {h.core} : protocol[k] # protocol[h.core] /\ CoreRunning(control, k)}
      <4>1. /\ OwnBit[h.core] # {} /\ ~(Cardinality(Protocols) > 1 /\ clash # {})
            /\ Go(t, [h EXCEPT !.pc = "set_read", !.todo = todo]) /\ h.kind = "core_run"
        BY <2>4, <3>2 DEF CoreRun
      <4>2. ClashFree(h)
        BY <2>2, <4>1 DEF ClashFree
      <4>3. (todo = <<FALSE, TRUE>> /\ CoreRunning(h.base, h.core)) \/ todo = <<TRUE>>
        BY <2>2
      <4> HIDE DEF todo, clash
      <4> QED
        BY <4>1, <4>2, <4>3
    <3> QED BY <1>12, <3>1, <3>2
  <2>5. CASE ~Go(t, Done(h, "refused"))
    <3>1. PICK todo : /\ Go(t, [h EXCEPT !.pc = "set_read", !.todo = todo]) /\ OwnBit[h.core] # {}
                      /\ \/ h.kind = "core_stop" /\ todo = <<FALSE>>
                         \/ /\ h.kind = "core_run" /\ ClashFree(h)
                            /\ \/ todo = <<FALSE, TRUE>> /\ CoreRunning(h.base, h.core)
                               \/ todo = <<TRUE>>
      BY <2>4, <2>5
    <3> DEFINE n == [h EXCEPT !.pc = "set_read", !.todo = todo]
    <3>2. /\ n.pc = "set_read" /\ n.todo = todo /\ n.kind = h.kind /\ n.core = h.core /\ n.base = h.base
          /\ n.note = h.note /\ n.queue = h.queue /\ n.touched = h.touched /\ n.pos = h.pos /\ n.tev = h.tev
      BY <1>0 DEF HandlerFields
    <3>3. th'[t] = n /\ control' = control /\ enc' = enc
      BY <1>0, <3>1, GoIs
    <3> HIDE DEF n
    <3>4. Round(n, control)
      BY <1>4, <2>2, <3>1, <3>2 DEF Round, Setter, Calm, ClashFree, Halt, Start, Again
    <3>5. Arming(n, enc) /\ Within(n, control) /\ Within(h, control)
      BY <1>0, <2>1, <3>2 DEF Fact, Arming, Within, Was, ClashFree
    <3> QED
      BY <1>0, <2>1, <3>2, <3>3, <3>4, <3>5 DEF Fact, After, Setting
  <2> QED BY <2>3, <2>5
<1>13. CASE SinkWrite(t)
  <2>1. /\ th'[t] = Done(h, "ok") /\ control' = control /\ h.pc = "act" /\ h.kind \in SinkKinds
    BY <1>0, <1>13 DEF SinkWrite, Shape
  <2> QED
    BY <1>3, <1>4, <2>1, AsItWas, DoneIs DEF After, Was, SinkKinds
<1> QED
  BY <1>1, <1>2, <1>5, <1>6, <1>7, <1>8, <1>9, <1>10, <1>11, <1>12, <1>13 DEF CtlStep

\* What a call of set_core_run may count on.
LEMMA RoundHas ==
  ASSUME NEW h, NEW x, Round(h, x)
  PROVE  /\ Setter(h.core) /\ h.core \in Cores /\ Calm(x, h) /\ Effective(x) \subseteq Was(h)
         /\ h.kind \in {"core_stop", "load", "preload", "core_run"}
         /\ h.todo \in {Halt, Again, Start}
         /\ h.kind # "core_run" => h.todo = Halt
         /\ h.kind = "core_run" => OwnBit[h.core] # {} /\ ClashFree(h)
         /\ Head(h.todo) => h.kind = "core_run"
<1>1. h.core \in Cores
  BY DEF Round, Setter
<1>2. Effective(x) \subseteq Was(h)
  BY DEF Round, Was
<1>3. h.todo \in {Halt, Again, Start} /\ (h.kind # "core_run" => h.todo = Halt)
  BY DEF Round
<1>4. Head(h.todo) => h.kind = "core_run"
  BY <1>3, Calls, CallsOf
<1> QED
  BY <1>1, <1>2, <1>3, <1>4 DEF Round

\* The run state after the write of a round.
LEMMA RoundRuns ==
  ASSUME NEW h, Round(h, h.old), build \in {"hw", "old", "demo"}
  PROVE  LET E == Expressed(h)  k == h.core IN
         /\ Calm(E, h) /\ Within(h, E)
         /\ h.kind # "core_run" => Effective(E) \subseteq Was(h)
         /\ ~Head(h.todo) => RunBits[k] \cap E = {}
         /\ build # "old" => Effective(E) = IF Head(h.todo) THEN Effective(h.old) \cup {k}
                                            ELSE Effective(h.old) \ {k}
         /\ build = "old" /\ (\A c \in Wanted(h) : OwnBit[c] = {}) =>
              /\ ~Head(h.todo) /\ Effective(E) = Effective(h.old) \ {k}
              /\ RunBits[k] \cap NewBits # {} => k \notin Effective(h.old)
<1> DEFINE E == Expressed(h)
           k == h.core
<1>1. /\ Setter(k) /\ k \in Cores /\ Calm(h.old, h) /\ Effective(h.old) \subseteq Was(h)
      /\ h.todo \in {Halt, Again, Start}
      /\ h.kind = "core_run" => OwnBit[k] # {} /\ ClashFree(h)
      /\ Head(h.todo) => h.kind = "core_run"
  BY RoundHas
<1>2. /\ \A c \in Effective(E) : c # k => c \in Effective(h.old)
      /\ ~Head(h.todo) => k \notin Effective(E) /\ RunBits[k] \cap E = {}
      /\ E \cap Pulses \subseteq h.old
      /\ build # "old" => Effective(E) = IF Head(h.todo) THEN Effective(h.old) \cup {k}
                                         ELSE Effective(h.old) \ {k}
      /\ build = "old" /\ (\A c \in Wanted(h) : OwnBit[c] = {}) =>
           /\ ~Head(h.todo) /\ Effective(E) = Effective(h.old) \ {k}
           /\ RunBits[k] \cap NewBits # {} => k \notin Effective(h.old)
  BY <1>1, ExpressedRuns
<1> HIDE DEF E
<1>3. h.kind # "core_run" => Effective(E) \subseteq Was(h)
  BY <1>1, <1>2
<1>4. Effective(E) \subseteq Was(h) \cup {k}
  BY <1>1, <1>2
<1>5. Calm(E, h)
  BY <1>1, <1>2 DEF Calm
<1>6. Within(h, E)
  BY <1>1, <1>3, <1>4 DEF Within
<1> QED
  BY <1>2, <1>3, <1>5, <1>6 DEF E

LEMMA ExpectedOne ==
  ASSUME NEW h, NEW note, NEW x
  PROVE  /\ h.kind = "core_run" /\ note = "ok" /\ Effective(x) = Was(h) \cup {h.core} => Effective(x) \in ExpectedRun(h, note)
         /\ h.kind = "core_stop" /\ note = "ok" /\ Effective(x) = Was(h) \ {h.core} => Effective(x) \in ExpectedRun(h, note)
         /\ h.kind = "load" /\ build = "hw" /\ Effective(x) = Was(h) \ {h.core} => Effective(x) \in ExpectedRun(h, note)
         /\ h.kind = "load" /\ build # "hw" /\ Effective(x) \subseteq Was(h) \ {h.core} => Effective(x) \in ExpectedRun(h, note)
BY DEF ExpectedRun, Was

\* core_run whose bit the bitstream does not have.
LEMMA ExpectedDeclined ==
  ASSUME NEW h, NEW x, h.kind = "core_run", OwnBit[h.core] # {},
         \/ Effective(x) = Was(h)
         \/ /\ Effective(x) = Was(h) \ {h.core}
            /\ build = "demo" \/ RunBits[h.core] \cap NewBits = {} \/ h.core \notin Was(h)
         , OwnBit[h.core] \subseteq RunBits[h.core]
  PROVE  Effective(x) \in ExpectedRun(h, "declined")
<1>1. CASE build = "demo" \/ OwnBit[h.core] \cap NewBits = {}
  <2>1. ExpectedRun(h, "declined") = {Was(h), Was(h) \ {h.core}}
    BY <1>1 DEF ExpectedRun, Was
  <2> QED
    BY <2>1
<1>2. CASE ~(build = "demo" \/ OwnBit[h.core] \cap NewBits = {})
  <2>1. ExpectedRun(h, "declined") = {Was(h)}
    BY <1>2 DEF ExpectedRun, Was
  <2>2. Effective(x) = Was(h)
    BY <1>2
  <2> QED
    BY <2>1, <2>2
<1> QED BY <1>1, <1>2

\* set_core_run returns: what follows a round that left CONTROL at x.
LEMMA AfterSetFact ==
  ASSUME NEW t \in Threads, Lone(t), Round(th[t], th[t].old), NEW x, NEW note,
         th'[t] = AfterSet(th[t], note) \/ (DOMAIN th'[t] = HandlerFields
            /\ \A f \in HandlerFields : f # "touched" => th'[t][f] = AfterSet(th[t], note)[f]),
         control' = x, enc' = enc,
         th'[t].touched = th[t].touched \/ build # "hw" \/ th'[t].pc = "idle",
         \/ /\ note = "declined" /\ x = th[t].old /\ build # "hw"
         \/ /\ x = Expressed(th[t]) /\ note = (IF th[t].note = "declined" THEN "declined" ELSE "ok")
            /\ {c \in Wanted(th[t]) : OwnBit[c] # {}} \ mirror = {}
  PROVE  After(t)
<1> DEFINE h == th[t]
           g == th'[t]
           k == h.core
<1>0. Shape /\ DOMAIN h = HandlerFields /\ Fact(h, control, enc) /\ build \in {"hw", "old", "demo"}
      /\ (build = "old" => mirror = {})
  BY DEF Lone, Shape, Wired
<1>1. /\ Setter(k) /\ k \in Cores /\ Calm(h.old, h) /\ Effective(h.old) \subseteq Was(h)
      /\ h.kind \in {"core_stop", "load", "preload", "core_run"}
      /\ h.todo \in {Halt, Again, Start}
      /\ h.kind # "core_run" => h.todo = Halt
      /\ h.kind = "core_run" => OwnBit[k] # {} /\ ClashFree(h)
      /\ Head(h.todo) => h.kind = "core_run"
  BY RoundHas
<1>c. /\ h.todo = Start => Head(h.todo) /\ Len(h.todo) = 1
      /\ h.todo # Start => ~Head(h.todo)
      /\ h.todo = Again => Len(h.todo) = 2 /\ Tail(h.todo) = Start
      /\ h.todo # Again => Len(h.todo) = 1
      /\ Halt # Start /\ Halt # Again /\ Start # Again
  BY <1>1, CallsOf, Calls
<1>d. h.todo = Again <=> Len(h.todo) > 1
  <2>1. h.todo = Again => Len(h.todo) = 2
    BY <1>c
  <2>2. h.todo # Again => Len(h.todo) = 1
    BY <1>c
  <2> DEFINE n == Len(h.todo)
  <2>3. n = 2 => n > 1
    OBVIOUS
  <2>4. n = 1 => ~(n > 1)
    OBVIOUS
  <2> HIDE DEF n
  <2>5. h.todo = Again => n > 1
    BY <2>1, <2>3 DEF n
  <2>6. h.todo # Again => ~(n > 1)
    BY <2>2, <2>4 DEF n
  <2> QED BY <2>5, <2>6 DEF n
<1>f. \A f \in HandlerFields : f # "touched" => g[f] = AfterSet(h, note)[f]
  OBVIOUS
<1> HIDE DEF g
<1>2. /\ Calm(Expressed(h), h) /\ Within(h, Expressed(h))
      /\ h.kind # "core_run" => Effective(Expressed(h)) \subseteq Was(h)
      /\ ~Head(h.todo) => RunBits[k] \cap Expressed(h) = {}
      /\ build # "old" => Effective(Expressed(h)) = IF Head(h.todo) THEN Effective(h.old) \cup {k}
                                                    ELSE Effective(h.old) \ {k}
      /\ build = "old" /\ (\A c \in Wanted(h) : OwnBit[c] = {}) =>
           /\ ~Head(h.todo) /\ Effective(Expressed(h)) = Effective(h.old) \ {k}
           /\ RunBits[k] \cap NewBits # {} => k \notin Effective(h.old)
  BY <1>0, RoundRuns
<1>3. Calm(x, h) /\ Within(h, x) /\ (h.kind # "core_run" => Effective(x) \subseteq Was(h))
  <2>1. Within(h, h.old)
    BY <1>1 DEF Within
  <2> QED
    BY <1>1, <1>2, <2>1
\* A write that was not declined shows in the run state.
<1>4. ASSUME x = Expressed(h), {c \in Wanted(h) : OwnBit[c] # {}} \ mirror = {}
      PROVE  /\ Head(h.todo) => build # "old" /\ Effective(x) = Effective(h.old) \cup {k}
             /\ ~Head(h.todo) => Effective(x) = Effective(h.old) \ {k}
             /\ build = "old" /\ RunBits[k] \cap NewBits # {} => k \notin Effective(h.old)
  <2>1. CASE build = "old"
    <3>1. \A c \in Wanted(h) : OwnBit[c] = {}
      BY <1>0, <1>4, <2>1
    <3> QED
      BY <1>2, <1>4, <2>1, <3>1
  <2>2. CASE build # "old"
    BY <1>2, <1>4, <2>2
  <2> QED BY <2>1, <2>2
<1>5. CASE Len(h.todo) > 1
  <2>0. h.todo = Again
    BY <1>d, <1>5
  <2>1. h.todo = Again /\ h.kind = "core_run" /\ ~Head(h.todo) /\ Tail(h.todo) = Start
    BY <1>1, <1>c, <2>0
  <2>2. AfterSet(h, note) = [h EXCEPT !.todo = Tail(h.todo), !.pc = "set_read", !.note = note]
    BY <1>5 DEF AfterSet
  <2>3. /\ g.pc = "set_read" /\ g.todo = Start /\ g.note = note /\ g.kind = h.kind /\ g.core = h.core
        /\ g.base = h.base /\ g.queue = h.queue /\ g.pos = h.pos
    <3>1. /\ AfterSet(h, note).pc = "set_read" /\ AfterSet(h, note).todo = Start /\ AfterSet(h, note).note = note
          /\ AfterSet(h, note).kind = h.kind /\ AfterSet(h, note).core = h.core
          /\ AfterSet(h, note).base = h.base /\ AfterSet(h, note).queue = h.queue /\ AfterSet(h, note).pos = h.pos
      <4>1. DOMAIN h = HandlerFields
        BY <1>0
      <4> QED
        BY ONLY <2>1, <2>2, <4>1 DEF HandlerFields
    <3>2. /\ g.pc = AfterSet(h, note).pc /\ g.todo = AfterSet(h, note).todo /\ g.note = AfterSet(h, note).note
          /\ g.kind = AfterSet(h, note).kind /\ g.core = AfterSet(h, note).core
          /\ g.base = AfterSet(h, note).base /\ g.queue = AfterSet(h, note).queue /\ g.pos = AfterSet(h, note).pos
      BY ONLY <1>f DEF HandlerFields
    <3> QED
      BY ONLY <3>1, <3>2
  <2>4. h.old = h.base /\ h.note = "none" /\ CoreRunning(h.base, h.core)
    BY <2>1, Calls DEF Round
  <2>5. Was(g) = Was(h) /\ Effective(h.old) = Was(h) /\ Setter(g.core) /\ Calm(x, g) /\ ClashFree(g)
    <3>1. g.base = h.base /\ g.core = h.core /\ g.kind = h.kind
      BY <2>3
    <3>2. Was(g) = Was(h)
      BY <3>1 DEF Was
    <3>3. Effective(h.old) = Was(h)
      BY <2>4 DEF Was
    <3>4. Setter(g.core)
      BY <1>1, <3>1
    <3>5. Calm(x, g)
      BY <1>3, <3>1 DEF Calm
    <3>6. ClashFree(g)
      BY <1>1, <2>1, <3>1 DEF ClashFree
    <3> QED
      BY ONLY <3>2, <3>3, <3>4, <3>5, <3>6
  <2>6. Round(g, x)
    <3>1. CASE note = "declined" /\ x = h.old /\ build # "hw"
      BY <1>1, <2>1, <2>3, <2>4, <2>5, <3>1 DEF Round
    <3>2. CASE x = Expressed(h) /\ note = "ok" /\ {c \in Wanted(h) : OwnBit[c] # {}} \ mirror = {}
      <4>1. Effective(x) = Was(g) \ {g.core} /\ (build = "old" /\ RunBits[g.core] \cap NewBits # {} => g.core \notin Was(g))
        BY <1>4, <2>1, <2>3, <2>5, <3>2
      <4> QED
        BY <1>1, <2>1, <2>3, <2>5, <3>2, <4>1 DEF Round
    <3> QED BY <2>4, <3>1, <3>2
  <2>7. Within(g, x) /\ Arming(g, enc)
    BY <1>0, <1>3, <2>1, <2>3, <2>5 DEF Within, Arming, Fact
  <2>8. Fact(g, x, enc)
    BY <1>0, <2>1, <2>3, <2>6, <2>7 DEF Fact, Setting, g
  <2> QED
    BY <1>3, <2>3, <2>8 DEF After, g
<1>6. CASE ~(Len(h.todo) > 1) /\ h.kind \in {"load", "preload"}
  <2>1. AfterSet(h, note) = [h EXCEPT !.pc = "load_read", !.note = note]
    BY <1>6 DEF AfterSet
  <2>2. /\ g.pc = "load_read" /\ g.kind = h.kind /\ g.core = h.core
        /\ g.base = h.base /\ g.queue = h.queue /\ g.pos = h.pos
    BY <1>0, <1>f, <2>1 DEF HandlerFields
  <2>3. ~Head(h.todo) /\ h.core \in Windows
    BY <1>1, <1>6, Calls DEF Round
  <2>4. Was(g) = Was(h) /\ Calm(x, g)
    BY <1>3, <2>2 DEF Was, Calm
  <2>5. h.kind = "load" => Effective(h.old) = Was(h)
    BY <1>6 DEF Round, Was
  <2>6. Held1(g, x)
    <3>1. Effective(x) \subseteq Was(h)
      BY <1>3, <1>6
    <3>2. ASSUME h.kind = "load", build = "hw" PROVE Effective(x) = Was(h) \ {h.core} /\ RunBits[h.core] \cap x = {}
      BY <1>2, <1>4, <2>3, <2>5, <3>2
    <3> QED
      BY <1>6, <2>2, <2>3, <2>4, <3>1, <3>2 DEF Held1
  <2>7. Within(g, x) /\ Arming(g, enc)
    BY <1>0, <1>3, <1>6, <2>2, <2>4 DEF Within, Arming, Fact
  <2>8. Fact(g, x, enc)
    BY <1>0, <1>6, <2>2, <2>6, <2>7 DEF Fact, Loading, g
  <2> QED
    BY <1>3, <2>2, <2>8 DEF After, g
<1>7. CASE ~(Len(h.todo) > 1) /\ h.kind \notin {"load", "preload"}
  <2>1. AfterSet(h, note) = Done(h, note)
    BY <1>7 DEF AfterSet
  <2>2. g.pc = "idle" /\ g.note = note
    BY <1>f, <2>1, DoneIs DEF HandlerFields
  <2>3. h.kind \in {"core_stop", "core_run"}
    BY <1>1, <1>7
  <2>4. CASE h.kind = "core_stop"
    <3>1. h.todo = Halt /\ h.old = h.base /\ h.note = "none" /\ ~Head(h.todo)
      BY <2>4, Calls DEF Round
    <3>2. Effective(x) \in ExpectedRun(h, note)
      BY <1>4, <2>4, <3>1, ExpectedOne, ExpectedWas DEF Was
    <3> QED
      BY <1>3, <2>2, <2>4, <3>2 DEF After, Verdict, Calm, g
  <2>5. CASE h.kind = "core_run"
    <3>0. h.todo # Halt
      BY <2>5, <1>c DEF Round
    <3>a. h.todo = Start
      BY <1>1, <1>7, <1>d, <3>0
    <3>b. Head(h.todo)
      BY <1>c, <3>a
    <3>1. h.todo = Start /\ Head(h.todo) /\ h.core \in Cores /\ OwnBit[h.core] \subseteq RunBits[h.core]
          /\ OwnBit[h.core] # {}
      BY <1>1, <2>5, <3>a, <3>b, ScenarioAssumption
    <3>2. \/ h.note = "none" /\ h.old = h.base
          \/ h.note = "declined" /\ build # "hw" /\ h.old = h.base /\ CoreRunning(h.base, h.core)
          \/ /\ h.note = "ok" /\ Effective(h.old) = Was(h) \ {h.core}
             /\ build = "old" /\ RunBits[h.core] \cap NewBits # {} => h.core \notin Was(h)
      BY <2>5, <3>1, Calls DEF Round
    <3>3. Effective(x) \in ExpectedRun(h, note)
      <4>1. CASE note = "declined" /\ x = h.old /\ build # "hw"
        <5>1. \/ Effective(x) = Was(h)
              \/ /\ Effective(x) = Was(h) \ {h.core}
                 /\ build = "demo" \/ RunBits[h.core] \cap NewBits = {} \/ h.core \notin Was(h)
          BY <1>0, <3>2, <4>1 DEF Was
        <5> QED
          BY <2>5, <3>1, <4>1, <5>1, ExpectedDeclined
      <4>2. CASE x = Expressed(h) /\ {c \in Wanted(h) : OwnBit[c] # {}} \ mirror = {} /\ note = "ok" /\ h.note # "declined"
        <5>1. Effective(x) = Was(h) \cup {h.core}
          BY <1>4, <3>1, <3>2, <4>2 DEF Was
        <5> QED
          BY <2>5, <4>2, <5>1, ExpectedOne
      <4>3. CASE x = Expressed(h) /\ {c \in Wanted(h) : OwnBit[c] # {}} \ mirror = {} /\ note = "declined" /\ h.note = "declined"
        <5>1. build # "old" /\ Effective(x) = Was(h) \cup {h.core}
          BY <1>4, <3>1, <3>2, <4>3 DEF Was
        <5>2. h.core \in Was(h)
          BY <3>1, <3>2, <4>3, <5>1 DEF Was, Effective
        <5> QED
          BY ONLY <2>5, <3>1, <4>3, <5>1, <5>2, ExpectedDeclined
      <4> QED BY <4>1, <4>2, <4>3
    <3> QED
      BY <1>3, <2>2, <2>5, <3>3 DEF After, Verdict, Calm, g
  <2> QED BY <2>3, <2>4, <2>5
<1> QED BY <1>5, <1>6, <1>7


LEMMA AlikeIs ==
  ASSUME NEW g, NEW h, g.kind = h.kind, g.core = h.core, g.base = h.base, NEW x
  PROVE  /\ Within(h, x) => Within(g, x)
         /\ Calm(x, h) => Calm(x, g)
         /\ g.todo = h.todo /\ g.note = h.note /\ Round(h, x) => Round(g, x)
         /\ Held1(h, x) => Held1(g, x)
         /\ Was(g) = Was(h)
<1>1. (ClashFree(g) <=> ClashFree(h)) /\ Was(g) = Was(h) /\ (Calm(x, h) <=> Calm(x, g))
  BY DEF ClashFree, Was, Calm
<1>2. Within(h, x) => Within(g, x)
  BY <1>1 DEF Within
<1>3. ASSUME g.todo = h.todo, g.note = h.note, Round(h, x) PROVE Round(g, x)
  BY <1>1, <1>3 DEF Round
<1>4. Held1(h, x) => Held1(g, x)
  BY <1>1 DEF Held1
<1> QED BY <1>1, <1>2, <1>3, <1>4

LEMMA ExpressedSame ==
  ASSUME NEW g, NEW h, g.core = h.core, g.old = h.old, g.todo = h.todo
  PROVE  Expressed(g) = Expressed(h)
BY DEF Expressed, Wanted

LEMMA SetFact == ASSUME NEW t \in Threads, Lone(t), SetStep(t) PROVE After(t)
<1> DEFINE h == th[t]
           g == th'[t]
<1>0. Shape /\ DOMAIN h = HandlerFields /\ Fact(h, control, enc) /\ Wired
  BY DEF Lone, Shape
<1>1. CASE SetRead(t)
  <2> DEFINE n == [h EXCEPT !.old = control, !.pc = "set_write"]
  <2>1. Go(t, n) /\ h.pc = "set_read"
    BY <1>1 DEF SetRead
  <2>2. /\ n.pc = "set_write" /\ n.old = control /\ n.todo = h.todo /\ n.kind = h.kind /\ n.core = h.core
        /\ n.base = h.base /\ n.note = h.note /\ n.queue = h.queue /\ n.touched = h.touched /\ n.pos = h.pos
    BY <1>0 DEF HandlerFields
  <2>3. th'[t] = n /\ control' = control /\ enc' = enc
    BY <1>0, <2>1, GoIs
  <2>4. Round(h, control)
    BY <1>0, <2>1 DEF Fact, Fresh, Releasing, Pulsing, Setting, Loading
  <2> HIDE DEF n
  <2>5. Round(n, n.old) /\ Within(n, control) /\ Within(h, control)
    BY <1>0, <2>2, <2>4, AlikeIs DEF Fact
  <2>6. Arming(n, enc)
    BY <1>0, <2>2, <2>4, RoundHas DEF Fact, Arming
  <2> QED
    BY <1>0, <2>2, <2>3, <2>5, <2>6 DEF Fact, After, Setting
<1>2. ASSUME h.pc \in {"set_write", "set_probe", "set_restore"}
      PROVE  /\ Round(h, h.old)
             /\ h.pc = "set_write" => control = h.old
             /\ h.pc # "set_write" => control = Expressed(h)
             /\ h.pc = "set_restore" => build # "hw"
  BY <1>0, <1>2 DEF Fact, Fresh, Releasing, Pulsing, Setting, Loading
<1>3. CASE SetWrite(t)
  <2> DEFINE n == [h EXCEPT !.pc = "set_probe"]
  <2>1. WriteControl(t, Expressed(h), n) /\ h.pc = "set_write"
    BY <1>3 DEF SetWrite
  <2>2. /\ n.pc = "set_probe" /\ n.old = h.old /\ n.todo = h.todo /\ n.kind = h.kind /\ n.core = h.core
        /\ n.base = h.base /\ n.note = h.note /\ n.queue = h.queue /\ n.touched = h.touched /\ n.pos = h.pos
        /\ DOMAIN n = HandlerFields
    BY <1>0 DEF HandlerFields
  <2> HIDE DEF n
  <2>3. /\ g.pc = "set_probe" /\ g.old = h.old /\ g.todo = h.todo /\ g.kind = h.kind /\ g.core = h.core
        /\ g.base = h.base /\ g.note = h.note /\ g.queue = h.queue /\ g.pos = h.pos
        /\ g.touched = h.touched \cup (Running \ Effective(Expressed(h))) \cup (Effective(Expressed(h)) \ Running)
        /\ control' = Expressed(h) /\ enc' = enc
    BY <1>0, <2>1, <2>2, ControlIs DEF HandlerFields
  <2> HIDE DEF g
  <2>4. Round(h, h.old) /\ Running = Effective(h.old)
    BY <1>2, <2>1 DEF Running
  <2>5. /\ Within(h, Expressed(h))
        /\ build # "old" => Effective(Expressed(h)) = IF Head(h.todo) THEN Effective(h.old) \cup {h.core}
                                                      ELSE Effective(h.old) \ {h.core}
    BY <1>0, <2>4, RoundRuns DEF Wired
  <2>6. build = "hw" /\ g.kind \in PerOne => g.touched \subseteq {g.core}
    BY <1>0, <2>3, <2>4, <2>5 DEF Fact
  <2>7. Round(g, g.old) /\ Within(g, Expressed(h)) /\ Expressed(g) = Expressed(h)
    BY <2>3, <2>4, <2>5, AlikeIs, ExpressedSame
  <2>8. Arming(g, enc)
    BY <1>0, <2>3, <2>4, RoundHas DEF Fact, Arming
  <2> QED
    BY <1>0, <2>3, <2>5, <2>6, <2>7, <2>8 DEF Fact, After, Setting, g
<1>4. CASE SetProbe(t)
  <2> DEFINE cold == {c \in Wanted(h) : OwnBit[c] # {}} \ mirror
  <2>1. h.pc = "set_probe"
    BY <1>4 DEF SetProbe
  <2>2. CASE cold # {}
    <3> DEFINE n == [h EXCEPT !.pc = "set_restore"]
    <3>1. Go(t, n)
      BY <1>4, <2>2 DEF SetProbe
    <3>2. /\ n.pc = "set_restore" /\ n.old = h.old /\ n.todo = h.todo /\ n.kind = h.kind /\ n.core = h.core
          /\ n.base = h.base /\ n.note = h.note /\ n.queue = h.queue /\ n.touched = h.touched /\ n.pos = h.pos
      BY <1>0 DEF HandlerFields
    <3>3. th'[t] = n /\ control' = control /\ enc' = enc
      BY <1>0, <3>1, GoIs
    <3> HIDE DEF n
    <3>4. build # "hw"
      <4> SUFFICES ASSUME build = "hw" PROVE FALSE
        OBVIOUS
      <4>1. PICK c \in Wanted(h) : c \notin Effective(Expressed(h))
        BY <1>0, <1>2, <2>1, <2>2 DEF Wired, Running
      <4>2. Effective(Expressed(h)) = IF Head(h.todo) THEN Effective(h.old) \cup {h.core}
                                      ELSE Effective(h.old) \ {h.core}
        BY <1>0, <1>2, <2>1, RoundRuns DEF Wired
      <4>3. CASE c = h.core
        <5>1. Head(h.todo)
          BY <4>3 DEF Wanted
        <5> QED
          BY <4>1, <4>2, <4>3, <5>1
      <4>4. CASE c # h.core
        <5>1. c \in Cores /\ CoreRunning(h.old, c)
          BY <4>4 DEF Wanted
        <5>2. c \in Effective(h.old)
          BY <5>1, EffectiveIs DEF CoreRunning
        <5> QED
          BY <4>1, <4>2, <4>4, <5>2
      <4> QED BY <4>3, <4>4
    <3>5. Round(n, n.old) /\ control = Expressed(n) /\ Within(n, control) /\ Within(h, control)
      BY <1>0, <1>2, <2>1, <3>2, AlikeIs, ExpressedSame DEF Fact
    <3>6. Arming(n, enc)
      BY <1>0, <1>2, <2>1, <3>2, RoundHas DEF Fact, Arming
    <3> QED
      BY <1>0, <3>2, <3>3, <3>4, <3>5, <3>6 DEF Fact, After, Setting
  <2>3. CASE cold = {}
    <3> DEFINE note == IF h.note = "declined" THEN "declined" ELSE "ok"
    <3>1. Go(t, AfterSet(h, note))
      BY <1>4, <2>3 DEF SetProbe
    <3>2. th'[t] = AfterSet(h, note) /\ control' = control /\ enc' = enc
      BY <1>0, <3>1, GoIs
    <3>3. th'[t].touched = h.touched \/ th'[t].pc = "idle"
      BY <1>0, <3>2, DoneIs DEF AfterSet, HandlerFields
    <3> QED
      BY <1>2, <2>1, <2>3, <3>2, <3>3, AfterSetFact
  <2> QED BY <2>2, <2>3
<1>5. CASE SetRestore(t)
  <2>1. WriteControl(t, h.old, AfterSet(h, "declined")) /\ h.pc = "set_restore"
    BY <1>5 DEF SetRestore
  <2>2. DOMAIN AfterSet(h, "declined") = HandlerFields
    BY <1>0, DoneIs DEF AfterSet
  <2>3. /\ control' = h.old /\ enc' = enc /\ DOMAIN th'[t] = HandlerFields
        /\ \A f \in HandlerFields : f # "touched" => th'[t][f] = AfterSet(h, "declined")[f]
    BY <1>0, <2>1, <2>2, ControlIs
  <2> QED
    BY <1>2, <2>1, <2>3, AfterSetFact
<1> QED
  BY <1>1, <1>3, <1>4, <1>5 DEF SetStep

\* An image loaded, or refused, with the core stopped.
LEMMA NextImageFact ==
  ASSUME NEW t \in Threads, Lone(t), NEW note, Go(t, NextImage(th[t], note)),
         Held1(th[t], control), th[t].core \notin Effective(control)
  PROVE  After(t)
<1> DEFINE h == th[t]
<1>0. Shape /\ DOMAIN h = HandlerFields /\ Fact(h, control, enc) /\ Wired
  BY DEF Lone, Shape
<1>1. th'[t] = NextImage(h, note) /\ control' = control /\ enc' = enc
  BY <1>0, GoIs
<1>2. CASE h.kind = "preload" /\ Len(h.queue) > 1
  <2> DEFINE n == [h EXCEPT !.queue = Tail(h.queue), !.core = h.queue[2], !.todo = <<FALSE>>, !.pc = "set_read"]
  <2>1. th'[t] = n
    BY <1>1, <1>2 DEF NextImage
  <2>2. /\ n.pc = "set_read" /\ n.todo = Halt /\ n.kind = h.kind /\ n.core = h.queue[2]
        /\ n.base = h.base /\ n.note = h.note /\ n.queue = Tail(h.queue) /\ n.touched = h.touched /\ n.pos = h.pos
    BY <1>0 DEF HandlerFields, Halt
  <2>3. h.queue \in Seq(Windows) /\ Windows \subseteq Cores
    BY <1>0, <1>2, ScenarioAssumption DEF Fact
  <2> HIDE DEF n
  <2>4. n.core \in Windows /\ n.queue \in Seq(Windows)
    BY <1>2, <2>2, <2>3
  <2>5. Round(n, control)
    BY <1>2, <2>2, <2>3, <2>4 DEF Held1, Round, Setter, Calm, Was
  <2>6. Within(h, control) /\ Within(n, control) /\ Arming(n, enc)
    BY <1>0, <1>2, <2>2 DEF Held1, Within, Arming, Was, Fact
  <2> QED
    BY <1>1, <1>2, <2>1, <2>2, <2>4, <2>5, <2>6 DEF Fact, After, Setting, PerOne
<1>3. CASE ~(h.kind = "preload" /\ Len(h.queue) > 1)
  <2>1. th'[t] = Done(h, note) /\ h.kind \in {"load", "preload"}
    BY <1>1, <1>3 DEF NextImage, Held1
  <2>2. Effective(control) \in ExpectedRun(h, note)
    <3>1. CASE h.kind = "preload"
      BY <3>1, ExpectedAny
    <3>2. CASE h.kind = "load"
      BY <3>2, ExpectedOne DEF Held1
    <3> QED BY <2>1, <3>1, <3>2
  <2> QED
    BY <1>0, <1>1, <2>1, <2>2, DoneIs DEF After, Verdict, Held1, Calm, Fact
<1> QED BY <1>2, <1>3

\* The window is written with the run bits of its core out of CONTROL.
LEMMA ClearedRuns ==
  ASSUME NEW h, NEW s, Held1(h, s), NEW x,
         x \in {(s \ RunBits[h.core]) \cup {"trace_clear"}, s \ (RunBits[h.core] \cup {"trace_clear"})}
  PROVE  /\ Effective(x) \subseteq Was(h) /\ h.core \notin Effective(x)
         /\ h.kind = "load" /\ build = "hw" => Effective(x) = Was(h) \ {h.core} /\ Effective(x) = Effective(s)
<1>1. \A c \in Cores : RunBits[c] \cap x = (RunBits[c] \cap s) \ RunBits[h.core]
  BY WiringAssumption
<1>2. Effective(x) \subseteq Effective(s)
  BY <1>1, EffectiveBelow
<1>3. h.core \notin Effective(x)
  BY <1>1, EffectiveIs
<1>4. ASSUME h.kind = "load", build = "hw" PROVE Effective(x) = Effective(s)
  <2>1. RunBits[h.core] \cap s = {}
    BY <1>4 DEF Held1
  <2>2. \A c \in Cores : RunBits[c] \cap x = RunBits[c] \cap s
    BY <1>1, <2>1
  <2> QED
    BY <2>2, EffectiveSame
<1> QED
  BY <1>2, <1>3, <1>4 DEF Held1

LEMMA LoadFact == ASSUME NEW t \in Threads, Lone(t), LoadStep(t) PROVE After(t)
<1> DEFINE h == th[t]
           g == th'[t]
<1>0. Shape /\ DOMAIN h = HandlerFields /\ Fact(h, control, enc) /\ Wired
  BY DEF Lone, Shape
<1>a. Windows \subseteq Cores /\ Images \in Seq(Windows)
  BY ScenarioAssumption
<1> USE DEF At
<1>1. CASE LoadBegin(t)
  <2> DEFINE n == [h EXCEPT !.todo = <<FALSE>>, !.pc = "set_read"]
  <2>1. Go(t, n) /\ h.pc = "begin" /\ h.kind = "load"
    BY <1>1 DEF LoadBegin
  <2>2. /\ n.pc = "set_read" /\ n.todo = Halt /\ n.kind = h.kind /\ n.core = h.core
        /\ n.base = h.base /\ n.note = h.note /\ n.queue = h.queue /\ n.touched = h.touched /\ n.pos = h.pos
    BY <1>0 DEF HandlerFields, Halt
  <2>3. th'[t] = n /\ control' = control /\ enc' = enc
    BY <1>0, <2>1, GoIs
  <2>4. Fresh(h, control)
    BY <1>0, <2>1 DEF Fact, Fresh, Releasing, Pulsing, Setting, Loading
  <2> HIDE DEF n
  <2>5. Round(n, control)
    BY <1>a, <2>1, <2>2, <2>4 DEF Fresh, Round, Setter, Calm
  <2>6. Within(h, control) /\ Within(n, control) /\ Arming(n, enc)
    BY <1>0, <2>1, <2>2, AlikeIs DEF Fact, Arming
  <2> QED
    BY <1>0, <2>1, <2>2, <2>3, <2>5, <2>6 DEF Fact, After, Setting
<1>2. CASE PreloadBegin(t)
  <2>1. h.pc = "act" /\ h.kind = "preload"
    BY <1>2 DEF PreloadBegin
  <2>2. Fresh(h, control) /\ control = h.base
    BY <1>0, <2>1 DEF Fact, Fresh, Releasing, Pulsing, Setting, Loading
  <2>3. CASE h.snap \cap All # {} \/ Images = <<>>
    <3>1. Go(t, Done(h, "refused"))
      BY <1>2, <2>3 DEF PreloadBegin
    <3>2. th'[t] = Done(h, "refused") /\ control' = control
      BY <1>0, <3>1, GoIs
    <3> QED
      BY <2>1, <2>2, <3>2, AsItWas, DoneIs DEF After, Was, Calm
  <2>4. CASE ~(h.snap \cap All # {} \/ Images = <<>>)
    <3> DEFINE n == [h EXCEPT !.queue = Images, !.core = Images[1], !.todo = <<FALSE>>, !.pc = "set_read"]
    <3>1. Go(t, n) /\ Images # <<>>
      BY <1>2, <2>4 DEF PreloadBegin
    <3>2. /\ n.pc = "set_read" /\ n.todo = Halt /\ n.kind = h.kind /\ n.core = Images[1]
          /\ n.base = h.base /\ n.note = h.note /\ n.queue = Images /\ n.pos = h.pos
      BY <1>0 DEF HandlerFields, Halt
    <3>3. th'[t] = n /\ control' = control /\ enc' = enc
      BY <1>0, <3>1, GoIs
    <3> HIDE DEF n
    <3>4. n.core \in Windows
      BY <1>a, <3>1, <3>2
    <3>5. Round(n, control)
      BY <1>a, <2>1, <2>2, <3>2, <3>4 DEF Round, Setter, Calm, Was
    <3>6. Within(h, control) /\ Within(n, control) /\ Arming(n, enc)
      BY <1>0, <2>1, <2>2, <3>2 DEF Fact, Arming, Within, Was
    <3> QED
      BY <1>a, <2>1, <3>2, <3>3, <3>5, <3>6 DEF Fact, After, Setting, PerOne
  <2> QED BY <2>3, <2>4
<1>3. CASE LoadRead(t)
  <2> DEFINE n == [h EXCEPT !.snap = control, !.pc = "load_clear"]
  <2>1. Go(t, n) /\ h.pc = "load_read"
    BY <1>3 DEF LoadRead
  <2>2. /\ n.pc = "load_clear" /\ n.snap = control /\ n.kind = h.kind /\ n.core = h.core
        /\ n.base = h.base /\ n.queue = h.queue /\ n.touched = h.touched /\ n.pos = h.pos
    BY <1>0 DEF HandlerFields
  <2>3. th'[t] = n /\ control' = control /\ enc' = enc
    BY <1>0, <2>1, GoIs
  <2>4. Held1(h, control)
    BY <1>0, <2>1 DEF Fact, Fresh, Releasing, Pulsing, Setting, Loading
  <2> HIDE DEF n
  <2>5. Held1(n, n.snap) /\ Within(h, control) /\ Within(n, control)
    BY <1>0, <2>2, <2>4, AlikeIs DEF Fact
  <2>6. Arming(n, enc)
    BY <1>0, <2>2, <2>4 DEF Fact, Arming, Held1
  <2> QED
    BY <1>0, <2>2, <2>3, <2>5, <2>6 DEF Fact, After, Loading
<1>4. CASE LoadClear(t) \/ LoadUnclear(t)
  <2>1. PICK pc, x : /\ WriteControl(t, x, [h EXCEPT !.pc = pc])
                     /\ \/ /\ pc = "load_unclear" /\ h.pc = "load_clear"
                           /\ x = (h.snap \ RunBits[h.core]) \cup {"trace_clear"}
                        \/ /\ pc = "load_write" /\ h.pc = "load_unclear"
                           /\ x = h.snap \ (RunBits[h.core] \cup {"trace_clear"})
    BY SMTT(30), <1>4 DEF LoadClear, LoadUnclear
  <2> DEFINE n == [h EXCEPT !.pc = pc]
  <2>2. /\ n.pc = pc /\ n.snap = h.snap /\ n.kind = h.kind /\ n.core = h.core
        /\ n.base = h.base /\ n.queue = h.queue /\ n.touched = h.touched /\ n.pos = h.pos
        /\ DOMAIN n = HandlerFields /\ WriteControl(t, x, n)
    <3>1. DOMAIN h = HandlerFields
      BY <1>0
    <3>2. WriteControl(t, x, n)
      BY <2>1
    <3>3. /\ n.pc = pc /\ n.snap = h.snap /\ n.kind = h.kind /\ n.core = h.core
          /\ n.base = h.base /\ n.queue = h.queue /\ n.touched = h.touched /\ n.pos = h.pos
          /\ DOMAIN n = HandlerFields
      BY ONLY <3>1 DEF HandlerFields
    <3> QED
      BY ONLY <3>2, <3>3
  <2> HIDE DEF n
  <2>3. /\ g.pc = pc /\ g.snap = h.snap /\ g.kind = h.kind /\ g.core = h.core
        /\ g.base = h.base /\ g.queue = h.queue /\ g.pos = h.pos
        /\ g.touched = h.touched \cup (Running \ Effective(x)) \cup (Effective(x) \ Running)
        /\ control' = x /\ enc' = enc
    BY ONLY <1>0, <2>2, ControlIs DEF HandlerFields
  <2> HIDE DEF g
  <2>4. /\ Held1(h, h.snap)
        /\ h.kind = "load" /\ build = "hw" => Running = Was(h) \ {h.core}
    BY <1>0, <2>1 DEF Fact, Fresh, Releasing, Pulsing, Setting, Loading, Running, Held1
  <2>5. /\ Effective(x) \subseteq Was(h) /\ h.core \notin Effective(x)
        /\ h.kind = "load" /\ build = "hw" => Effective(x) = Was(h) \ {h.core} /\ Effective(x) = Effective(h.snap)
    BY <2>1, <2>4, ClearedRuns
  <2>6. build = "hw" /\ g.kind \in PerOne => g.touched \subseteq {g.core}
    BY <1>0, <2>3, <2>4, <2>5 DEF Fact, PerOne, Held1
  <2>7. Within(h, x) /\ Within(g, x) /\ Was(g) = Was(h) /\ Held1(g, h.snap)
    BY <2>3, <2>4, <2>5, AlikeIs DEF Within
  <2>8. Arming(g, enc)
    BY <1>0, <2>3, <2>4 DEF Fact, Arming, Held1
  <2>9. CASE pc = "load_unclear"
    BY <1>0, <2>3, <2>5, <2>6, <2>7, <2>8, <2>9 DEF Fact, After, Loading, g
  <2>10. CASE pc = "load_write"
    <3>1. x \subseteq h.snap /\ RunBits[h.core] \cap x = {}
      BY <2>1, <2>10
    <3>2. Held1(g, x)
      BY <2>3, <2>4, <2>5, <2>7, <3>1 DEF Held1, Calm
    <3> QED
      BY <1>0, <2>3, <2>5, <2>6, <2>7, <2>8, <2>10, <3>2 DEF Fact, After, Loading, g
  <2> QED BY <2>1, <2>9, <2>10
<1>5. CASE LoadWrite(t)
  <2>1. Held1(h, control) /\ h.core \notin Effective(control)
    BY <1>0, <1>5 DEF LoadWrite, Fact, Fresh, Releasing, Pulsing, Setting, Loading
  <2>2. \E note : Go(t, NextImage(h, note))
    BY <1>5, <2>1 DEF LoadWrite, Access, Running
  <2> QED
    BY <2>1, <2>2, NextImageFact
<1>6. ASSUME h.pc \in {"begin", "halt", "access"} PROVE Fresh(h, control) /\ control = h.base
  BY <1>0, <1>6 DEF Fact, Fresh, Releasing, Pulsing, Setting, Loading
<1>7. CASE Cva6LoadHalt(t)
  <2>1. /\ WriteControl(t, h.snap \ (Cva6Bits \cup {"core_run"}), Done(h, "ok"))
        /\ h.kind = "load_cva6" /\ h.pc = "halt"
    BY <1>7 DEF Cva6LoadHalt
  <2>2. th'[t].pc = "idle" /\ control' \subseteq h.base
    BY <1>0, <1>6, <2>1, ControlIs, DoneIs DEF HandlerFields, Fresh
  <2>3. Within(h, control')
    BY <2>2, EffectiveBelow DEF Within, Was
  <2> QED
    BY <2>1, <2>2, <2>3, ExpectedAny DEF After, Verdict
<1>8. CASE \E n : /\ Go(t, n) /\ n.pc \in {"halt", "access", "hung"}
                  /\ h.kind \in {"load_cva6", "window"} /\ h.pc \in {"begin", "access"}
                  /\ n.pc = "halt" => n.snap = control
                  /\ n.kind = h.kind /\ n.base = h.base /\ n.pos = h.pos /\ n.note = h.note /\ n.core = h.core
  <2> PICK n : /\ Go(t, n) /\ n.pc \in {"halt", "access", "hung"}
               /\ h.kind \in {"load_cva6", "window"} /\ h.pc \in {"begin", "access"}
               /\ n.pc = "halt" => n.snap = control
               /\ n.kind = h.kind /\ n.base = h.base /\ n.pos = h.pos /\ n.note = h.note /\ n.core = h.core
    BY <1>8
  <2>1. th'[t] = n /\ control' = control /\ enc' = enc
    BY <1>0, GoIs
  <2>2. Fresh(n, control) \/ n.pc = "hung"
    BY <1>6 DEF Fresh
  <2>3. Within(h, control) /\ Within(n, control) /\ Arming(n, enc)
    BY <1>0, AlikeIs DEF Fact, Arming
  <2> QED
    BY <2>1, <2>2, <2>3 DEF Fact, After, PerOne
<1>9. CASE Cva6LoadRead(t)
  <2> DEFINE n == [h EXCEPT !.snap = control, !.pc = "halt"]
  <2>1. Go(t, n) /\ h.pc = "begin" /\ h.kind = "load_cva6"
    BY <1>9 DEF Cva6LoadRead
  <2>2. /\ n.pc = "halt" /\ n.snap = control /\ n.kind = h.kind /\ n.core = h.core
        /\ n.base = h.base /\ n.note = h.note /\ n.pos = h.pos
    BY <1>0 DEF HandlerFields
  <2> HIDE DEF n
  <2> QED BY <1>8, <2>1, <2>2
<1>10. CASE (HoldCheck(t) \/ WindowAccess(t)) /\ \E note : Go(t, Done(h, note))
  <2>1. h.kind = "window" /\ h.pc \in {"begin", "access"}
    BY <1>10 DEF HoldCheck, WindowAccess
  <2>2. PICK note : th'[t] = Done(h, note) /\ control' = control
    BY <1>0, <1>10, GoIs
  <2> QED
    BY <1>6, <2>1, <2>2, AsItWas, DoneIs DEF After, Was, Calm
<1>11. CASE (HoldCheck(t) \/ WindowAccess(t)) /\ ~\E note : Go(t, Done(h, note))
  <2>1. PICK pc \in {"access", "hung"} : Go(t, [h EXCEPT !.pc = pc]) /\ h.pc \in {"begin", "access"} /\ h.kind = "window"
    BY <1>11 DEF HoldCheck, WindowAccess, Access
  <2> DEFINE n == [h EXCEPT !.pc = pc]
  <2>2. /\ n.pc = pc /\ n.kind = h.kind /\ n.core = h.core
        /\ n.base = h.base /\ n.note = h.note /\ n.pos = h.pos
    BY <1>0 DEF HandlerFields
  <2>3. Go(t, n)
    BY <2>1
  <2> HIDE DEF n
  <2> QED BY <1>8, <2>1, <2>2, <2>3
<1> QED
  BY <1>1, <1>2, <1>3, <1>4, <1>5, <1>7, <1>9, <1>10, <1>11 DEF LoadStep

LEMMA EncIs ==
  ASSUME Shape, NEW t \in Threads, NEW e \in Encs, NEW w, DOMAIN w = WordFields, NEW n, WriteEnc(t, e, w, n)
  PROVE  /\ th'[t] = n /\ control' = control
         /\ \A d \in Encs : d # e => enc'[d] = enc[d]
         /\ enc'[e].act = w.act /\ enc'[e].en = w.en /\ enc'[e].it = w.it /\ enc'[e].src = enc[e].src
         /\ enc'[e].fields = IF enc[e].en THEN enc[e].fields ELSE w.fields
BY DEF WriteEnc, Shape, AreWords, Stored, WordFields

LEMMA FeaturesIs ==
  ASSUME Shape, NEW t \in Threads, NEW e \in Encs, NEW n, WriteFeatures(t, e, n)
  PROVE  /\ th'[t] = n /\ control' = control
         /\ \A d \in Encs : d # e => enc'[d] = enc[d]
         /\ enc'[e].act = enc[e].act /\ enc'[e].en = enc[e].en /\ enc'[e].it = enc[e].it
         /\ enc'[e].fields = enc[e].fields
         /\ enc'[e].src = (enc[e].src \/ ~enc[e].en)
BY DEF WriteFeatures, Shape, AreWords, WordFields

\* The encoder at hand is none of those before it.
LEMMA EncAtIs ==
  ASSUME NEW h, h.pos \in 1 .. Len(EncSeq)
  PROVE  /\ EncAt(h) \in Encs /\ EncAt(h) = EncSeq[h.pos]
         /\ \A i \in 1 .. h.pos - 1 : EncSeq[i] \in Encs /\ EncSeq[i] # EncAt(h)
         /\ \A e \in Encs : \E i \in 1 .. Len(EncSeq) : e = EncSeq[i]
<1>1. DOMAIN EncSeq = 1 .. Len(EncSeq) /\ Len(EncSeq) \in Nat
  BY WiringAssumption
<1>2. EncAt(h) \in Encs /\ EncAt(h) = EncSeq[h.pos]
  BY <1>1 DEF EncAt, Encs
<1>3. ASSUME NEW i \in 1 .. h.pos - 1 PROVE EncSeq[i] \in Encs /\ EncSeq[i] # EncAt(h)
  <2>1. i \in DOMAIN EncSeq /\ h.pos \in DOMAIN EncSeq /\ i # h.pos
    BY <1>1
  <2> QED
    BY <1>2, <2>1, WiringAssumption DEF Encs
<1> QED
  BY <1>1, <1>2, <1>3 DEF Encs

\* What a step of the arming loop leaves.
LEMMA ArmingFact ==
  ASSUME NEW t \in Threads, Lone(t), th[t].kind = "trace_on", control' = control,
         th[t].pc \in {"act", "fields", "source", "active", "arm_read"}, NEW n, DOMAIN n = HandlerFields,
         th'[t] = n, n.pc \in {"fields", "source", "active", "arm_read", "arm"},
         \A f \in {"kind", "core", "snap", "base", "note", "pos", "queue"} : n[f] = th[t][f],
         \A d \in Encs : d # EncAt(th[t]) => enc'[d] = enc[d],
         ~enc'[EncAt(th[t])].en,
         n.pc \in {"source", "active"} => ~n.tev[EncAt(th[t])].en,
         n.pc \in {"active", "arm_read", "arm"} => (MultiSource => enc'[EncAt(th[t])].src),
         n.pc \in {"arm_read", "arm"} => enc'[EncAt(th[t])].act /\ enc'[EncAt(th[t])].fields,
         n.pc = "arm" => n.tev[EncAt(th[t])].act /\ n.tev[EncAt(th[t])].fields
  PROVE  After(t)
<1> DEFINE h == th[t]
<1>1. Fact(h, control, enc) /\ h.pos \in 1 .. Len(EncSeq)
  BY DEF Lone, Fact, Arming
<1>2. Fresh(h, control)
  BY <1>1 DEF Fact, Fresh, Releasing, Pulsing, Setting, Loading
<1>3. \A i \in 1 .. h.pos - 1 : Ready(enc[EncSeq[i]])
  BY <1>1 DEF Fact, Arming
<1>4. \A i \in 1 .. h.pos - 1 : enc'[EncSeq[i]] = enc[EncSeq[i]]
  BY <1>1, EncAtIs
<1>5. n.kind = h.kind /\ n.core = h.core /\ n.snap = h.snap /\ n.base = h.base /\ n.note = h.note /\ n.pos = h.pos
      /\ n.queue = h.queue
  BY DEF HandlerFields
<1>6. EncAt(n) = EncAt(h)
  BY <1>5 DEF EncAt
<1>7. Arming(n, enc')
  BY <1>1, <1>3, <1>4, <1>5, <1>6 DEF Arming
<1>8. Fresh(n, control)
  BY <1>2, <1>5 DEF Fresh
<1>9. Within(h, control) /\ Within(n, control)
  BY <1>1, <1>5, AlikeIs DEF Fact
<1> QED
  BY <1>5, <1>7, <1>8, <1>9 DEF After, Fact, PerOne

\* After the last access to the encoder at hand: the next one, or what follows.
LEMMA NextEncFact ==
  ASSUME NEW t \in Threads, Lone(t), th[t].kind \in {"trace_on", "trace_off"}, control' = control,
         th[t].pc \in {"act", "arm"}, NEW rest, th'[t] = NextEnc(th[t], "act", rest),
         \A d \in Encs : d # EncAt(th[t]) => enc'[d] = enc[d],
         th[t].kind = "trace_on" => Ready(enc'[EncAt(th[t])]) /\ rest = Done(th[t], "ok"),
         th[t].kind = "trace_off" => rest = [th[t] EXCEPT !.pc = "flush"]
  PROVE  After(t)
<1> DEFINE h == th[t]
<1>0. DOMAIN h = HandlerFields
  BY DEF Lone, Shape
<1>1. Fact(h, control, enc) /\ h.pos \in 1 .. Len(EncSeq) /\ Len(EncSeq) \in Nat
  BY WiringAssumption DEF Lone, Fact, Arming
<1>2. Fresh(h, control) /\ control = h.base /\ Within(h, control)
  BY <1>1 DEF Fact, Fresh, Releasing, Pulsing, Setting, Loading
<1>3. h.kind = "trace_on" => \A i \in 1 .. h.pos - 1 : Ready(enc[EncSeq[i]])
  BY <1>1 DEF Fact, Arming
<1>4. \A i \in 1 .. h.pos - 1 : enc'[EncSeq[i]] = enc[EncSeq[i]]
  BY <1>1, EncAtIs
<1>5. h.kind = "trace_on" => \A i \in 1 .. h.pos : Ready(enc'[EncSeq[i]])
  <2> SUFFICES ASSUME h.kind = "trace_on", NEW i \in 1 .. h.pos PROVE Ready(enc'[EncSeq[i]])
    OBVIOUS
  <2>1. CASE i = h.pos
    BY <2>1 DEF EncAt
  <2>2. CASE i # h.pos
    <3>1. i \in 1 .. h.pos - 1
      BY <1>1, <2>2
    <3> QED
      BY <1>3, <1>4, <3>1
  <2> QED BY <2>1, <2>2
<1>6. CASE h.pos < Len(EncSeq)
  <2> DEFINE n == [h EXCEPT !.pos = h.pos + 1, !.pc = "act"]
  <2>1. th'[t] = n
    BY <1>6 DEF NextEnc
  <2>2. n.kind = h.kind /\ n.core = h.core /\ n.snap = h.snap /\ n.base = h.base /\ n.note = h.note
        /\ n.pos = h.pos + 1 /\ n.pc = "act" /\ n.queue = h.queue
    BY <1>0 DEF HandlerFields
  <2> HIDE DEF n
  <2>3. n.pos \in 1 .. Len(EncSeq) /\ \A i \in 1 .. n.pos - 1 : i \in 1 .. h.pos
    BY <1>1, <1>6, <2>2
  <2>4. Arming(n, enc')
    BY <1>5, <2>2, <2>3 DEF Arming
  <2>5. Fresh(n, control)
    BY <1>2, <2>2 DEF Fresh
  <2>6. Within(n, control)
    BY <1>2, <2>2, AlikeIs
  <2> QED
    BY <1>2, <2>1, <2>2, <2>4, <2>5, <2>6 DEF After, Fact, PerOne
<1>7. CASE ~(h.pos < Len(EncSeq))
  <2>0. th'[t] = rest /\ h.pos = Len(EncSeq)
    BY <1>1, <1>7 DEF NextEnc
  <2>1. CASE h.kind = "trace_on"
    <3>1. th'[t].pc = "idle" /\ th'[t].note = "ok"
      BY <2>0, <2>1, DoneIs
    <3>2. \A e \in Encs : Ready(enc'[e])
      BY <1>1, <1>5, <2>0, <2>1, EncAtIs
    <3>3. Effective(control) \in ExpectedRun(h, "ok")
      BY <1>2, <2>1, ExpectedWas DEF Was
    <3> QED
      BY <1>2, <3>1, <3>2, <3>3 DEF After, Verdict, Ready
  <2>2. CASE h.kind = "trace_off"
    <3> DEFINE n == [h EXCEPT !.pc = "flush"]
    <3>1. th'[t] = n
      BY <2>0, <2>2
    <3>2. n.kind = h.kind /\ n.core = h.core /\ n.snap = h.snap /\ n.base = h.base /\ n.note = h.note
          /\ n.pos = h.pos /\ n.pc = "flush" /\ n.queue = h.queue
      BY <1>0 DEF HandlerFields
    <3> HIDE DEF n
    <3>3. Arming(n, enc') /\ Fresh(n, control) /\ Within(n, control)
      BY <1>1, <1>2, <2>2, <3>2, AlikeIs DEF Arming, Fresh
    <3> QED
      BY <1>2, <2>2, <3>1, <3>2, <3>3 DEF After, Fact, PerOne
  <2> QED BY <2>1, <2>2
<1> QED BY <1>6, <1>7

LEMMA EncFact == ASSUME NEW t \in Threads, Lone(t), EncStep(t) PROVE After(t)
<1> DEFINE h == th[t]
           e == EncAt(h)
<1>0. Shape /\ DOMAIN h = HandlerFields /\ Fact(h, control, enc) /\ AreWords(h.tev) /\ AreWords(enc)
  BY DEF Lone, Shape
<1>1. h.pos \in 1 .. Len(EncSeq) /\ e \in Encs /\ DOMAIN h.tev[e] = WordFields /\ DOMAIN enc[e] = WordFields
  BY <1>0, EncAtIs DEF Fact, Arming, AreWords
<1>2. h.kind = "trace_on" =>
         /\ h.pc \in {"fields", "source", "active", "arm_read", "arm"} => ~enc[e].en
         /\ h.pc \in {"source", "active"} => ~h.tev[e].en
         /\ h.pc \in {"active", "arm_read", "arm"} => (MultiSource => enc[e].src)
         /\ h.pc \in {"arm_read", "arm"} => enc[e].act /\ enc[e].fields
         /\ h.pc = "arm" => h.tev[e].act /\ h.tev[e].fields
  BY <1>0 DEF Fact, Arming
<1> USE DEF At
<1> HIDE DEF e
<1>3. CASE GateCheck(t) \/ GatedWrite(t)
  <2>1. /\ h.kind = "features" /\ h.pc \in {"begin", "write"} /\ control' = control
        /\ (\E note : th'[t] = Done(h, note)) \/ (th'[t] = [h EXCEPT !.pc = "write"])
    BY <1>0, <1>3 DEF GateCheck, GatedWrite, Go, WriteFeatures, Shape
  <2>2. Fresh(h, control) /\ control = h.base /\ Within(h, control)
    BY <1>0, <2>1 DEF Fact, Fresh, Releasing, Pulsing, Setting, Loading
  <2>3. CASE \E note : th'[t] = Done(h, note)
    BY <2>1, <2>2, <2>3, AsItWas, DoneIs DEF After, Was, Calm
  <2>4. CASE th'[t] = [h EXCEPT !.pc = "write"]
    <3> DEFINE n == [h EXCEPT !.pc = "write"]
    <3>1. th'[t] = n
      BY <2>4
    <3>2. n.kind = h.kind /\ n.core = h.core /\ n.base = h.base /\ n.note = h.note
          /\ n.pos = h.pos /\ n.pc = "write" /\ n.queue = h.queue
      BY <1>0 DEF HandlerFields
    <3> HIDE DEF n
    <3>3. Arming(n, enc') /\ Fresh(n, control) /\ Within(n, control)
      BY <1>1, <2>1, <2>2, <3>2, AlikeIs DEF Arming, Fresh
    <3> QED
      BY <2>1, <2>2, <3>1, <3>2, <3>3 DEF After, Fact, PerOne
  <2> QED BY <2>1, <2>3, <2>4
<1>4. CASE TraceOnDrop(t)
  <2> DEFINE w == Rmw([h.tev[e] EXCEPT !.en = FALSE, !.it = FALSE])
             n == [h EXCEPT !.pc = "fields"]
  <2>1. WriteEnc(t, e, w, n) /\ h.kind = "trace_on" /\ h.pc = "act"
    BY <1>4 DEF TraceOnDrop, e
  <2>2. DOMAIN w = WordFields /\ w.en = FALSE
    BY <1>1 DEF Rmw, WordFields
  <2>3. /\ DOMAIN n = HandlerFields /\ n.pc = "fields"
        /\ \A f \in {"kind", "core", "snap", "base", "note", "pos", "queue"} : n[f] = h[f]
    BY <1>0 DEF HandlerFields
  <2> HIDE DEF w, n
  <2>4. th'[t] = n /\ control' = control /\ (\A d \in Encs : d # e => enc'[d] = enc[d]) /\ enc'[e].en = w.en
    BY <1>0, <1>1, <2>1, <2>2, EncIs
  <2>5. ~enc'[e].en
    BY <2>2, <2>4
  <2> QED
    BY <2>1, <2>3, <2>4, <2>5, ArmingFact DEF e
<1>5. CASE TraceOnRead(t)
  <2> DEFINE pc == IF MultiSource THEN "source" ELSE "active"
             n == [h EXCEPT !.tev[e] = enc[e], !.pc = pc]
  <2>1. Go(t, n) /\ h.kind = "trace_on" /\ h.pc = "fields"
    BY <1>5 DEF TraceOnRead, e
  <2>2. /\ DOMAIN n = HandlerFields /\ n.pc = pc /\ n.tev[e] = enc[e]
        /\ \A f \in {"kind", "core", "snap", "base", "note", "pos", "queue"} : n[f] = h[f]
    BY <1>0, <1>1 DEF HandlerFields, AreWords
  <2>3. pc \in {"source", "active"} /\ (pc = "active" => ~MultiSource)
    OBVIOUS
  <2> HIDE DEF n, pc
  <2>4. th'[t] = n /\ control' = control /\ enc' = enc
    BY <1>0, <2>1, GoIs
  <2>5. ~enc[e].en
    BY <1>2, <2>1
  <2>6. ~n.tev[e].en
    BY <2>2, <2>5
  <2> QED
    BY <2>1, <2>2, <2>3, <2>4, <2>5, <2>6, ArmingFact DEF e
<1>6. CASE TraceOnSource(t)
  <2> DEFINE n == [h EXCEPT !.pc = "active"]
  <2>1. WriteFeatures(t, e, n) /\ h.kind = "trace_on" /\ h.pc = "source"
    BY <1>6 DEF TraceOnSource, e
  <2>2. /\ DOMAIN n = HandlerFields /\ n.pc = "active" /\ n.tev = h.tev
        /\ \A f \in {"kind", "core", "snap", "base", "note", "pos", "queue"} : n[f] = h[f]
    BY <1>0 DEF HandlerFields
  <2> HIDE DEF n
  <2>3. th'[t] = n /\ control' = control /\ (\A d \in Encs : d # e => enc'[d] = enc[d]) /\ enc'[e].en = enc[e].en
        /\ enc'[e].src = (enc[e].src \/ ~enc[e].en)
    BY <1>0, <1>1, <2>1, FeaturesIs
  <2>4. ~enc[e].en /\ ~h.tev[e].en
    BY <1>2, <2>1
  <2>5. ~enc'[e].en
    BY <2>3, <2>4
  <2>6. enc'[e].src
    BY <2>3, <2>4
  <2>7. ~n.tev[e].en
    BY <2>2, <2>4
  <2> QED
    BY <2>1, <2>2, <2>3, <2>5, <2>6, <2>7, ArmingFact DEF e
<1>7. CASE TraceOnActive(t)
  <2> DEFINE w == Rmw([h.tev[e] EXCEPT !.fields = TRUE, !.act = TRUE])
             n == [h EXCEPT !.pc = "arm_read"]
  <2>1. WriteEnc(t, e, w, n) /\ h.kind = "trace_on" /\ h.pc = "active"
    BY <1>7 DEF TraceOnActive, e
  <2>2. DOMAIN w = WordFields /\ w.en = h.tev[e].en /\ w.fields = TRUE /\ w.act = TRUE
    BY <1>1 DEF Rmw, WordFields
  <2>3. /\ DOMAIN n = HandlerFields /\ n.pc = "arm_read"
        /\ \A f \in {"kind", "core", "snap", "base", "note", "pos", "queue"} : n[f] = h[f]
    BY <1>0 DEF HandlerFields
  <2> HIDE DEF w, n
  <2>4. th'[t] = n /\ control' = control /\ (\A d \in Encs : d # e => enc'[d] = enc[d]) /\ enc'[e].en = w.en
        /\ enc'[e].src = enc[e].src /\ enc'[e].act = w.act
        /\ enc'[e].fields = IF enc[e].en THEN enc[e].fields ELSE w.fields
    BY <1>0, <1>1, <2>1, <2>2, EncIs
  <2>5. ~enc[e].en /\ ~h.tev[e].en /\ (MultiSource => enc[e].src)
    BY <1>2, <2>1
  <2>6. ~enc'[e].en
    BY <2>2, <2>4, <2>5
  <2>7. enc'[e].act
    BY <2>2, <2>4
  <2>8. enc'[e].fields
    BY <2>2, <2>4, <2>5
  <2>9. MultiSource => enc'[e].src
    BY <2>4, <2>5
  <2> QED
    BY <2>1, <2>3, <2>4, <2>6, <2>7, <2>8, <2>9, ArmingFact DEF e
<1>8. CASE TraceOnArmRead(t)
  <2> DEFINE n == [h EXCEPT !.tev[e] = enc[e], !.pc = "arm"]
  <2>1. Go(t, n) /\ h.kind = "trace_on" /\ h.pc = "arm_read"
    BY <1>8 DEF TraceOnArmRead, e
  <2>2. /\ DOMAIN n = HandlerFields /\ n.pc = "arm" /\ n.tev[e] = enc[e]
        /\ \A f \in {"kind", "core", "snap", "base", "note", "pos", "queue"} : n[f] = h[f]
    BY <1>0, <1>1 DEF HandlerFields, AreWords
  <2> HIDE DEF n
  <2>3. th'[t] = n /\ control' = control /\ enc' = enc
    BY <1>0, <2>1, GoIs
  <2>4. ~enc[e].en /\ enc[e].act /\ enc[e].fields /\ (MultiSource => enc[e].src)
    BY <1>2, <2>1
  <2>5. n.tev[e].act /\ n.tev[e].fields
    BY <2>2, <2>4
  <2> QED
    BY <2>1, <2>2, <2>3, <2>4, <2>5, ArmingFact DEF e
<1>9. CASE TraceOnArm(t)
  <2> DEFINE w == Rmw([h.tev[e] EXCEPT !.en = TRUE, !.it = TRUE])
             n == NextEnc(h, "act", Done(h, "ok"))
  <2>1. WriteEnc(t, e, w, n) /\ h.kind = "trace_on" /\ h.pc = "arm"
    BY <1>9 DEF TraceOnArm, e
  <2>2. DOMAIN w = WordFields /\ w.en = TRUE /\ w.it = TRUE /\ w.fields = h.tev[e].fields /\ w.act = h.tev[e].act
    BY <1>1 DEF Rmw, WordFields
  <2> HIDE DEF w, n
  <2>4. th'[t] = n /\ control' = control /\ (\A d \in Encs : d # e => enc'[d] = enc[d]) /\ enc'[e].en = w.en
        /\ enc'[e].src = enc[e].src /\ enc'[e].act = w.act /\ enc'[e].it = w.it
        /\ enc'[e].fields = IF enc[e].en THEN enc[e].fields ELSE w.fields
    BY <1>0, <1>1, <2>1, <2>2, EncIs
  <2>5. h.tev[e].act /\ h.tev[e].fields /\ ~enc[e].en /\ (MultiSource => enc[e].src)
    BY <1>2, <2>1
  <2>6. enc'[e].act
    BY <2>2, <2>4, <2>5
  <2>7. enc'[e].fields
    BY <2>2, <2>4, <2>5
  <2>8. enc'[e].en /\ enc'[e].it
    BY <2>2, <2>4
  <2>9. MultiSource => enc'[e].src
    BY <2>4, <2>5
  <2>10. Ready(enc'[e])
    BY <2>6, <2>7, <2>8, <2>9 DEF Ready
  <2> QED
    BY <2>1, <2>4, <2>10, NextEncFact DEF e, n
<1>10. CASE TraceOff(t)
  <2> DEFINE w == Rmw([h.tev[e] EXCEPT !.it = FALSE])
             n == NextEnc(h, "act", [h EXCEPT !.pc = "flush"])
  <2>1. WriteEnc(t, e, w, n) /\ h.kind = "trace_off" /\ h.pc = "act"
    BY <1>10 DEF TraceOff, e
  <2>2. DOMAIN w = WordFields
    BY <1>1 DEF Rmw, WordFields
  <2> HIDE DEF w, n
  <2>4. th'[t] = n /\ control' = control /\ (\A d \in Encs : d # e => enc'[d] = enc[d])
    BY <1>0, <1>1, <2>1, <2>2, EncIs
  <2> QED
    BY <2>1, <2>4, NextEncFact DEF e, n
<1> QED
  BY <1>3, <1>4, <1>5, <1>6, <1>7, <1>8, <1>9, <1>10 DEF EncStep

LEMMA StepFact == ASSUME NEW t \in Threads, Lone(t), Step(t) PROVE After(t)
BY CtlFact, SetFact, LoadFact, EncFact DEF Step

-----------------------------------------------------------------------------
(* Requests that are alone in the whole server.                            *)

Known == \A t \in Threads : Busy(t) /\ th[t].alone => Fact(th[t], control, enc)
Quiet == \A t \in Threads : ~Busy(t) => th[t].kind = "none"
XInv  == IInv /\ Wired /\ Known /\ Quiet

\* No step changes the scenario or the bus: facts stay what they are.
LEMMA EffectivePrimed ==
  ASSUME build' = build PROVE \A x : Effective(x)' = Effective(x)
BY DEF Effective, CoreRunning

LEMMA WithinPrimed ==
  ASSUME build' = build, protocol' = protocol
  PROVE  \A h, x : /\ (Was(h)' = Was(h)) /\ (ClashFree(h)' <=> ClashFree(h))
                   /\ Within(h, x)' <=> Within(h, x)
<1>1. \A h : Was(h)' = Was(h)
  BY EffectivePrimed DEF Was
<1>2. Protocols' = Protocols
  BY DEF Protocols
<1>3. \A h : ClashFree(h)' <=> ClashFree(h)
  BY <1>2 DEF ClashFree
<1> QED
  BY <1>1, <1>2, <1>3, EffectivePrimed DEF Within

LEMMA FactPrimed ==
  ASSUME build' = build, protocol' = protocol, NEW h, NEW x, NEW w
  PROVE  Fact(h, x, w)' <=> Fact(h, x, w)
<1>1. Round(h, x)' <=> Round(h, x)
  BY EffectivePrimed, WithinPrimed DEF Round
<1>2. Round(h, h.old)' <=> Round(h, h.old)
  BY EffectivePrimed, WithinPrimed DEF Round
<1>3. Setting(h, x)' <=> Setting(h, x)
  BY <1>1, <1>2 DEF Setting
<1>4. \A s : Held1(h, s)' <=> Held1(h, s)
  BY EffectivePrimed, WithinPrimed DEF Held1
<1>5. Loading(h, x)' <=> Loading(h, x)
  BY <1>4, EffectivePrimed, WithinPrimed DEF Loading
<1>6. Releasing(h, x)' <=> Releasing(h, x)
  BY DEF Releasing, Protocols
<1>7. Pulsing(h, x)' <=> Pulsing(h, x)
  BY EffectivePrimed, WithinPrimed DEF Pulsing
<1> QED
  BY <1>3, <1>5, <1>6, <1>7, WithinPrimed DEF Fact

\* Every write of CONTROL goes through to STATUS.
LEMMA StepWired ==
  ASSUME Wired, NEW t \in Threads, Step(t)
  PROVE  Wired' /\ build' = build /\ protocol' = protocol
<1>1. \/ /\ control' = control /\ mirror' = mirror /\ build' = build /\ protocol' = protocol
      \/ mirror' = MirrorOf(control') /\ build' = build /\ protocol' = protocol
  <2> USE DEF Go, WriteControl, WriteEnc, WriteFeatures, scenario
  <2>1. CASE CtlStep(t)
    BY <2>1 DEF CtlStep, CtlRead, CtlRegs, RunRefused, RunHalt, RunRelease, Stop, Cva6Run, Irq, PulseUp, PulseDown,
       CoreStop, CoreRun, SinkWrite, SinkRefused
  <2>2. CASE SetStep(t)
    BY <2>2 DEF SetStep, SetRead, SetWrite, SetProbe, SetRestore
  <2>3. CASE LoadStep(t)
    <3>1. CASE LoadBegin(t) \/ PreloadBegin(t) \/ LoadRead(t) \/ LoadClear(t) \/ LoadUnclear(t)
      BY <3>1 DEF LoadBegin, PreloadBegin, LoadRead, LoadClear, LoadUnclear
    <3>2. CASE LoadWrite(t) \/ Cva6LoadRead(t) \/ Cva6LoadHalt(t) \/ HoldCheck(t)
      BY <3>2 DEF LoadWrite, Access, Cva6LoadRead, Cva6LoadHalt, HoldCheck
    <3>3. CASE WindowAccess(t)
      BY <3>3 DEF WindowAccess, Access
    <3> QED
      BY <2>3, <3>1, <3>2, <3>3 DEF LoadStep
  <2>4. CASE EncStep(t)
    <3>0. \A e, n : /\ WriteFeatures(t, e, n) => mirror' = mirror /\ control' = control /\ UNCHANGED scenario
                   /\ \A y : WriteEnc(t, e, y, n) => mirror' = mirror /\ control' = control /\ UNCHANGED scenario
      OBVIOUS
    <3> HIDE DEF WriteEnc, WriteFeatures
    <3>1. CASE GateCheck(t) \/ GatedWrite(t) \/ TraceOnDrop(t) \/ TraceOnRead(t) \/ TraceOnSource(t)
      BY <3>0, <3>1 DEF GateCheck, GatedWrite, TraceOnDrop, TraceOnRead, TraceOnSource
    <3>2. CASE TraceOnActive(t) \/ TraceOnArmRead(t) \/ TraceOnArm(t) \/ TraceOff(t)
      BY <3>0, <3>2 DEF TraceOnActive, TraceOnArmRead, TraceOnArm, TraceOff
    <3> QED
      BY <2>4, <3>1, <3>2 DEF EncStep
  <2> QED BY SMTT(30), <2>1, <2>2, <2>3, <2>4 DEF Step
<1>2. Effective(control)' = Effective(control')
  BY <1>1 DEF Effective, CoreRunning
<1>3. control' = control => Effective(control') = Effective(control)
  OBVIOUS
<1> QED
  BY <1>1, <1>2, <1>3 DEF Wired, MirrorOf, Running

\* A step of one thread leaves the others where they were.
LEMMA StepXInv ==
  ASSUME XInv, NEW t \in Threads, Step(t)
  PROVE  XInv' /\ (th[t].alone => After(t)) /\ \A u \in Threads : u # t => th'[u] = th[u]
<1>1. Mine(t) /\ IInv' /\ Wired' /\ build' = build /\ protocol' = protocol
  BY StepKeeps, MineIInv, StepWired DEF XInv
<1>2. Busy(t) /\ \A u \in Threads : u # t => th'[u] = th[u]
  BY <1>1 DEF Mine, XInv, IInv, Shape
<1>3. th[t].alone => After(t)
  BY <1>2, StepFact DEF XInv, IInv, Known, Lone
<1>4. Known'
  <2> SUFFICES ASSUME NEW u \in Threads, Busy(u)', th'[u].alone
               PROVE  Fact(th[u], control, enc)'
    BY DEF Known
  <2>1. CASE u = t
    <3>1. th'[t].pc # "idle" /\ th[t].alone
      BY <1>1, <2>1 DEF Mine, Busy
    <3>2. Fact(th'[t], control', enc')
      BY <1>3, <3>1 DEF After
    <3> QED
      BY <1>1, <2>1, <3>2, FactPrimed
  <2>2. CASE u # t
    <3>1. Busy(u) /\ th[u].alone
      BY <1>2, <2>2 DEF Busy
    <3> QED
      BY <1>2, <2>2, <3>1 DEF XInv, IInv, Apart
  <2> QED BY <2>1, <2>2
<1>5. Quiet'
  BY <1>1, <1>2 DEF Quiet, Busy, Mine, XInv
<1> QED
  BY <1>1, <1>2, <1>3, <1>4, <1>5 DEF XInv

LEMMA RequestXInv ==
  ASSUME XInv, NEW t \in Threads, Request(t)
  PROVE  /\ XInv' /\ ~Busy(t) /\ control' = control /\ build' = build /\ protocol' = protocol
         /\ \A u \in Threads : u # t => th'[u].pc = th[u].pc
<1>0. PICK kind \in Kinds : \E c \in Arguments(kind) : Accept(t, kind, c)
  BY DEF Request
<1>1. PICK c \in Arguments(kind) : Accept(t, kind, c)
  BY <1>0
<1> DEFINE others == {u \in Threads \ {t} : Busy(u)}
           n == [Idle EXCEPT !.kind = kind, !.core = c, !.pc = "begin", !.alone = (others = {}), !.base = control]
<1>2. /\ th'[t] = n /\ ~Busy(t)
      /\ control' = control /\ enc' = enc /\ mirror' = mirror /\ build' = build /\ protocol' = protocol
  BY <1>1 DEF Accept, scenario
<1>3. /\ n.kind = kind /\ n.core = c /\ n.pc = "begin" /\ n.base = control /\ n.note = "none"
      /\ n.queue = <<>> /\ n.touched = {} /\ n.pos = 1
  BY DEF Idle
<1>4. \A u \in Threads : u # t => th'[u] = IF u \in others THEN [th[u] EXCEPT !.alone = FALSE] ELSE th[u]
  BY <1>1 DEF Accept
<1> HIDE DEF n
<1>5. \A u \in Threads : u # t => th'[u].pc = th[u].pc /\ th'[u].kind = th[u].kind /\ (Busy(u) => ~th'[u].alone)
  <2> SUFFICES ASSUME NEW u \in Threads, u # t
               PROVE  th'[u].pc = th[u].pc /\ th'[u].kind = th[u].kind /\ (Busy(u) => ~th'[u].alone)
    OBVIOUS
  <2>1. DOMAIN th[u] = HandlerFields
    BY DEF XInv, IInv, Shape
  <2>2. th'[u] = IF u \in others THEN [th[u] EXCEPT !.alone = FALSE] ELSE th[u]
    BY <1>4
  <2> QED
    BY <2>1, <2>2 DEF HandlerFields
<1> HIDE DEF others
<1>6. Fact(n, control, enc)
  <2>1. kind = "load" => c \in Windows
    BY DEF Arguments, PerCore
  <2>2. kind \in {"core_run", "core_stop"} => c \in Cores
    BY DEF Arguments, PerCore
  <2>3. Fresh(n, control)
    BY <1>3, <2>1, <2>2 DEF Fresh
  <2>4. Within(n, control)
    BY <1>3 DEF Within, Was
  <2>5. Arming(n, enc)
    <3>1. Len(EncSeq) \in Nat /\ Len(EncSeq) >= 1
      BY WiringAssumption
    <3>2. 1 \in 1 .. Len(EncSeq) /\ 1 .. 1 - 1 = {}
      BY <3>1
    <3> QED
      BY <1>3, <3>2 DEF Arming
  <2>6. <<>> \in Seq(Windows)
    OBVIOUS
  <2> QED
    BY <1>3, <2>3, <2>4, <2>5, <2>6 DEF Fact
<1>7. Known'
  <2> SUFFICES ASSUME NEW u \in Threads, Busy(u)', th'[u].alone
               PROVE  Fact(th[u], control, enc)'
    BY DEF Known
  <2>1. u = t
    BY <1>5 DEF Busy
  <2>2. Fact(th'[t], control', enc')
    BY <1>2, <1>6
  <2> QED
    BY <1>2, <2>1, <2>2, FactPrimed
<1>8. Quiet'
  BY <1>2, <1>3, <1>5 DEF Quiet, Busy, XInv
<1>9. Wired'
  BY <1>2 DEF XInv, Wired, Running, Effective, CoreRunning
<1>10. IInv'
  BY RequestIInv DEF XInv
<1> QED
  BY <1>2, <1>5, <1>7, <1>8, <1>9, <1>10 DEF XInv

\* Trace that overflows, the demo bus, and time that passes.
LEMMA OutsideXInv ==
  ASSUME XInv, (\E c \in Cores : Overflow(c)) \/ DemoTick \/ UNCHANGED vars
  PROVE  XInv' /\ th' = th
<1>1. th' = th /\ control' = control /\ build' = build /\ protocol' = protocol
  BY DEF Overflow, DemoTick, vars, scenario
<1>2. \A e \in Encs : /\ enc'[e].act = enc[e].act /\ enc'[e].en = enc[e].en /\ enc'[e].it = enc[e].it
                      /\ enc'[e].fields = enc[e].fields /\ enc'[e].src = enc[e].src
  <2>1. CASE \E c \in Cores : Overflow(c)
    BY <2>1 DEF Overflow, XInv, IInv, Shape, AreWords, WordFields
  <2>2. CASE DemoTick \/ UNCHANGED vars
    BY <2>2 DEF DemoTick, vars
  <2> QED BY <2>1, <2>2
<1>3. ASSUME NEW h, Arming(h, enc) PROVE Arming(h, enc')
  <2>1. /\ EncAt(h) \in Encs
        /\ \A i \in 1 .. h.pos - 1 : EncSeq[i] \in Encs
    BY <1>3, EncAtIs DEF Arming
  <2>2. \A i \in 1 .. h.pos - 1 : Ready(enc[EncSeq[i]]) => Ready(enc'[EncSeq[i]])
    BY <1>2, <2>1 DEF Ready
  <2>3. /\ enc'[EncAt(h)].act = enc[EncAt(h)].act /\ enc'[EncAt(h)].en = enc[EncAt(h)].en
        /\ enc'[EncAt(h)].fields = enc[EncAt(h)].fields /\ enc'[EncAt(h)].src = enc[EncAt(h)].src
    BY <1>2, <2>1
  <2> QED
    BY <1>3, <2>2, <2>3 DEF Arming
<1>4. Known'
  <2> SUFFICES ASSUME NEW u \in Threads, Busy(u)', th'[u].alone
               PROVE  Fact(th[u], control, enc)'
    BY DEF Known
  <2>1. Fact(th[u], control, enc)
    BY <1>1 DEF XInv, Known, Busy
  <2>2. Fact(th[u], control, enc')
    BY <1>3, <2>1 DEF Fact
  <2>3. Fact(th'[u], control', enc')
    BY <1>1, <2>2
  <2> QED
    BY <1>1, <2>3, FactPrimed
<1>5. Quiet'
  BY <1>1 DEF Quiet, Busy, XInv
<1>6. Wired'
  <2>1. Running' = Running
    BY <1>1 DEF Running, Effective, CoreRunning
  <2>2. mirror' = mirror \/ build = "demo"
    BY DEF Overflow, DemoTick, vars
  <2> QED
    BY <1>1, <2>1, <2>2 DEF XInv, Wired
<1>7. IInv'
  <2>2. AreWords(enc')
    BY DEF XInv, IInv, Shape, AreWords, WordFields, Overflow, DemoTick, vars
  <2>3. Running' = Running
    BY <1>1 DEF Running, Effective, CoreRunning
  <2> QED
    BY <1>1, <2>2, <2>3 DEF XInv, IInv, Shape, Apart, Held, NoHang, Busy
<1> QED
  BY <1>1, <1>4, <1>5, <1>6, <1>7 DEF XInv

LEMMA InitXInv == Init => XInv
<1> SUFFICES ASSUME Init PROVE XInv
  OBVIOUS
<1>1. \A t \in Threads : ~Busy(t) /\ th[t].kind = "none"
  BY DEF Init, Idle, Busy
<1>2. Wired
  BY DEF Init, Wired, MirrorOf, Running
<1> QED
  BY <1>1, <1>2, InitIInv DEF XInv, Known, Quiet

LEMMA NextXInv == XInv /\ [Next]_vars => XInv'
BY StepXInv, RequestXInv, OutsideXInv DEF Next

LEMMA XInvHolds == Spec => []XInv
BY InitXInv, NextXInv, PTL DEF Spec

\* What runs within a request that came into an unmixed server is unmixed.
LEMMA WithinUnmixed ==
  ASSUME NEW h, NEW x, Within(h, x), h.kind # "cva6_run", ~Mixed(Was(h))
  PROVE  ~Mixed(Effective(x))
<1>0. Effective(x) \subseteq Cores /\ Was(h) \subseteq Cores
  BY EffectiveCores DEF Was
<1>1. CASE ~(Cardinality(Protocols) > 1)
  BY <1>0, <1>1, UniformUnmixed
<1>2. CASE Effective(x) \subseteq Was(h)
  <2>1. \A a, b \in Effective(x) : protocol[a] = protocol[b]
    BY <1>0, <1>2, UnmixedIs
  <2> QED
    BY <1>0, <2>1, MixedIs
<1>3. CASE /\ Cardinality(Protocols) > 1 /\ h.core \in Cores /\ ClashFree(h)
           /\ Effective(x) \subseteq Was(h) \cup {h.core}
  <2>1. \A k \in Was(h) : protocol[k] = protocol[h.core]
    BY <1>0, <1>3, EffectiveIs DEF ClashFree, Was, CoreRunning
  <2>2. \A a, b \in Effective(x) : protocol[a] = protocol[b]
    BY <1>3, <2>1
  <2> QED
    BY <1>0, <2>2, MixedIs
<1> QED
  BY <1>1, <1>2, <1>3 DEF Within

\* A request about one core changes the run state of no other (set_core_run,
\* load_program).
LEMMA OneCoreTouchedHolds == XInv => OneCoreTouched
BY DEF XInv, Known, Quiet, Fact, PerOne, OneCoreTouched

LEMMA InterlockStep ==
  XInv /\ [Next]_vars =>
    [\A t \in Threads :
       /\ Busy(t) /\ th'[t] # th[t] /\ th[t].alone /\ th[t].kind # "cva6_run"
       /\ ~Mixed(Effective(th[t].base))
       => ~Mixed(Effective(control)')]_vars
<1> SUFFICES ASSUME XInv, [Next]_vars, NEW t \in Threads, Busy(t), th'[t] # th[t], th[t].alone,
                    th[t].kind # "cva6_run", ~Mixed(Effective(th[t].base))
             PROVE  ~Mixed(Effective(control)')
  OBVIOUS
<1>1. CASE \E u \in Threads : Step(u)
  <2>1. PICK u \in Threads : Step(u)
    BY <1>1
  <2>2. u = t /\ After(t) /\ build' = build /\ protocol' = protocol
    BY <2>1, StepXInv, StepWired DEF XInv
  <2>3. ~Mixed(Effective(control'))
    BY <2>2, WithinUnmixed DEF After, Was
  <2> QED
    BY <2>2, <2>3, EffectivePrimed
<1>2. CASE \E u \in Threads : Request(u)
  <2>1. control' = control /\ build' = build
    BY <1>2, RequestXInv
  <2>2. ~Mixed(Effective(control))
    BY WithinUnmixed DEF XInv, Known, Fact, Was
  <2> QED
    BY <2>1, <2>2, EffectivePrimed
<1>3. CASE (\E c \in Cores : Overflow(c)) \/ DemoTick \/ UNCHANGED vars
  BY <1>3, OutsideXInv
<1> QED
  BY <1>1, <1>2, <1>3 DEF Next

LEMMA ExactStep ==
  XInv /\ [Next]_vars =>
    [\A t \in Threads :
       LET h == th[t]  g == th'[t]
       IN Busy(t) /\ g.pc = "idle" /\ h.alone =>
            /\ Effective(control)' \in ExpectedRun(h, g.note)
            /\ control' \cap Pulses \subseteq h.base
            /\ h.kind = "trace_on" =>
                 \A e \in Encs : /\ enc'[e].act /\ enc'[e].en /\ enc'[e].it /\ enc'[e].fields
                                 /\ MultiSource => enc'[e].src]_vars
<1> SUFFICES ASSUME XInv, [Next]_vars, NEW t \in Threads, Busy(t), th'[t].pc = "idle", th[t].alone
             PROVE  /\ Effective(control)' \in ExpectedRun(th[t], th'[t].note)
                    /\ control' \cap Pulses \subseteq th[t].base
                    /\ th[t].kind = "trace_on" =>
                         \A e \in Encs : /\ enc'[e].act /\ enc'[e].en /\ enc'[e].it /\ enc'[e].fields
                                         /\ MultiSource => enc'[e].src
  OBVIOUS
<1>1. \E u \in Threads : Step(u)
  <2>1. CASE \E u \in Threads : Request(u)
    BY <2>1, RequestXInv DEF Busy
  <2>2. CASE (\E c \in Cores : Overflow(c)) \/ DemoTick \/ UNCHANGED vars
    BY <2>2, OutsideXInv DEF Busy
  <2> QED
    BY <2>1, <2>2 DEF Next
<1>2. PICK u \in Threads : Step(u)
  BY <1>1
<1>3. u = t /\ After(t) /\ build' = build
  <2>1. u = t
    BY <1>2, StepXInv DEF Busy
  <2> QED
    BY <1>2, <2>1, StepXInv, StepWired DEF XInv
<1>4. Verdict(th[t], th'[t].note, control', enc')
  BY <1>3 DEF After
<1> QED
  BY <1>3, <1>4, EffectivePrimed DEF Verdict

\* A request that has the server to itself does what it says and no more: it
\* touches the core it names, never mixes protocols, and leaves the rest of the
\* register as it was, on every bitstream the bus can be.
THEOREM RequestsExactTheorem == Spec => RequestsExact
<1>1. Spec => []OneCoreTouched
  BY XInvHolds, OneCoreTouchedHolds, PTL
<1>2. Spec => InterlockHolds
  BY XInvHolds, InterlockStep, PTL DEF Spec, InterlockHolds
<1>3. Spec => AloneIsExact
  BY XInvHolds, ExactStep, PTL DEF Spec, AloneIsExact
<1> QED
  BY <1>1, <1>2, <1>3 DEF RequestsExact
=============================================================================
