----------------------------- MODULE TeInstGen -----------------------------
(***************************************************************************)
(* ct_L2_te_inst_gen: the eTIP messages of the composer become E-Trace     *)
(* te_inst packets.  A message is taken whole: Accept gives the registers  *)
(* it leaves and the packets it queues.  `w` is the beat-local state of    *)
(* the code: the registers to be (s), the packets (q), and the running map,*)
(* differential base and decoder position.                                 *)
(***************************************************************************)
EXTENDS Integers, Sequences, SequencesExt

CONSTANTS
    MapMax,     \* branches of a full map: 31
    JtcSize,    \* TE_JTC_ENTRIES
    Opts        \* run-time enables [ir, jtc, bp]

None == [valid |-> FALSE]

NewGenerator ==
    [started |-> FALSE, map |-> <<>>, last |-> 0, pos |-> 0,
     ta |-> None, taStart |-> FALSE, pu |-> None, rsync |-> FALSE, ovf |-> FALSE,
     jtc |-> <<>>, bp |-> <<>>, countMode |-> FALSE, count |-> 0, predOk |-> <<>>,
     next |-> 0, lastRet |-> 0, retSince |-> FALSE]

-----------------------------------------------------------------------------
(* Beat classification *)

IsDrain(b) == b.rcode = "drain"
IsOff(b) == b.rcode = "off"
HasSync(b) == b.rcode = "none" /\ b.sync # "none"
SyncOvf(b) == HasSync(b) /\ b.sync = "ovf"
CfBranch(b) == b.itype \in {"TAKEN", "NOT_TAKEN"}
CfTrap(b) == b.itype \in {"EXCEPTION", "INTERRUPT"}
NeedsNia(b) == b.itype \notin {"OTHER", "NOT_TAKEN"}
ReturnIsPredicted(b) == Opts.ir /\ b.itype = "RETURN" /\ b.rcode = "none" /\ b.pred
CfUpdiscon(b) == ~ReturnIsPredicted(b) /\ b.itype \in {"MRET", "UJUMP", "UCALL", "RETURN"}
TakenBit(b) == b.itype = "TAKEN"
\* The branch field of a synchronization: not a taken branch.
SyncTaken(b) == b.itype = "TAKEN"

JtcSlot(a) == a % JtcSize
Put(f, k, v) == [x \in DOMAIN f \cup {k} |-> IF x = k THEN v ELSE f[x]]
JtcHit(s) == JtcSlot(s.pu.tgt) \in DOMAIN s.jtc /\ s.jtc[JtcSlot(s.pu.tgt)] = s.pu.tgt
Installed(s) == IF Opts.jtc THEN Put(s.jtc, JtcSlot(s.pu.tgt), s.pu.tgt) ELSE s.jtc

BpCounter(s, a) == IF a \in DOMAIN s.bp THEN s.bp[a] ELSE 1
BpCorrect(s, b) == (BpCounter(s, b.iaddr) >= 2) <=> TakenBit(b)
BpNext(s, b) ==
    LET c == BpCounter(s, b.iaddr)
    IN  IF ~(Opts.bp /\ CfBranch(b)) THEN s.bp
        ELSE Put(s.bp, b.iaddr, IF TakenBit(b) THEN (IF c = 3 THEN 3 ELSE c + 1)
                                ELSE (IF c = 0 THEN 0 ELSE c - 1))

-----------------------------------------------------------------------------
(* Packets *)

Packet == [k |-> "F2", addr |-> 0, updiscon |-> FALSE, branch |-> FALSE, intr |-> FALSE,
           th0 |-> FALSE, map |-> <<>>, count |-> 0, idx |-> 0, qual |-> "none", opts |-> Opts]
\* A differential address that flushes the map or the branch count.
Flush(counting, count, map, target, base) ==
    [Packet EXCEPT !.k = IF counting THEN "F00A" ELSE IF map # <<>> THEN "F1A" ELSE "F2",
                   !.count = IF counting THEN count ELSE 0,
                   !.map = IF counting THEN <<>> ELSE map,
                   !.addr = target - base]
F30(a, taken) == [Packet EXCEPT !.k = "F30", !.addr = a, !.branch = taken]
F31(a, taken, intr, th0) ==
    [Packet EXCEPT !.k = "F31", !.addr = a, !.branch = taken, !.intr = intr, !.th0 = th0]
F33(qual) == [Packet EXCEPT !.k = "F33", !.qual = qual]

\* A packet that names an address moves the base and the decoder.
Send(w, p, a) == [w EXCEPT !.q = Append(w.q, p), !.last = a, !.pos = a, !.sent = TRUE]
Queue(w, p) == [w EXCEPT !.q = Append(w.q, p)]

-----------------------------------------------------------------------------
(* What a beat resolves before it is itself looked at *)

\* Mutant of TargetUnretired: a trace-off is not looked at.
TargetUnretiredOnTrap(b) == CfTrap(b) /\ b.icnt = 0

SegLast(s, b) == s.next + b.icnt - 1
FlushTgt(s, b) == IF b.icnt # 0 THEN SegLast(s, b) ELSE s.lastRet
TargetUnretired(b) == (CfTrap(b) \/ IsOff(b)) /\ b.icnt = 0

\* The deferred report of an uninferable discontinuity: its target once that
\* retired, its own address when it never did, nothing when the decoder is
\* there already.  `short` says whether the cache index is shorter.
SentPu(s, own, at, short, w) ==
    IF ~s.pu.counting /\ ~own /\ Opts.jtc /\ JtcHit(s) /\ short
    THEN Send(w, [Packet EXCEPT !.k = "F01", !.map = s.pu.map, !.idx = JtcSlot(at)], at)
    ELSE [Send(w, [Flush(s.pu.counting, s.pu.count, s.pu.map, at, w.last) EXCEPT !.updiscon = ~own], at)
            EXCEPT !.s.jtc = IF own THEN s.jtc ELSE Installed(s)]
ResolvePu(s, b, short, w) ==
    LET own == TargetUnretired(b)
        v == [w EXCEPT !.s.pu = None, !.own = own]
    IN  IF ~s.pu.valid THEN w
        ELSE IF ~s.pu.counting /\ own /\ s.pu.own = w.pos THEN v
        ELSE SentPu(s, own, IF own THEN s.pu.own ELSE s.pu.tgt, short, v)

ArmRsync(s, b, w) ==
    IF HasSync(b) /\ s.started /\ ~SyncOvf(b) /\ ~s.ovf THEN [w EXCEPT !.s.rsync = TRUE] ELSE w

TaHitBranch(s, b) ==
    s.ta.valid /\ CfBranch(b) /\ ~HasSync(b) /\ b.rcode = "none" /\ b.iaddr = s.ta.addr

\* The deferred anchor of a trap: its branch field is the outcome of the
\* handler's first instruction.
ResolveTa(s, b, w) ==
    LET taken == TaHitBranch(s, b) /\ TakenBit(b)
        p == IF s.taStart THEN F30(s.ta.addr, taken) ELSE F31(s.ta.addr, taken, s.ta.intr, FALSE)
    IN  IF ~s.ta.valid THEN w
        ELSE [Send(w, p, s.ta.addr) EXCEPT !.map = <<>>, !.s.ta = None, !.s.ovf = FALSE, !.s.started = TRUE]

\* A pending anchor, after a loss or a synchronization, waits for a beat that
\* says what its instruction is.
Conclusive(s, b) == ~IsOff(b) /\ ~IsDrain(b) /\ ~CfTrap(b) /\ ~s.ta.valid
ResolveOvf(s, b, w) ==
    IF s.ovf /\ Conclusive(s, b) /\ ~SyncOvf(b) /\ b.itype # "OTHER"
    THEN [Send(w, F30(b.iaddr, SyncTaken(b)), b.iaddr)
            EXCEPT !.map = <<>>, !.s.ovf = FALSE, !.s.rsync = FALSE, !.s.started = TRUE, !.ate = CfBranch(b)]
    ELSE w
ResolveRsync(s, b, w) ==
    IF /\ s.rsync /\ s.started /\ Conclusive(s, b) /\ ~HasSync(b)
       /\ ~(Opts.bp /\ s.countMode) /\ w.map = <<>> /\ b.iaddr # w.pos
    THEN [Send(w, F30(b.iaddr, SyncTaken(b)), b.iaddr)
            EXCEPT !.s.rsync = FALSE, !.ate = w.ate \/ CfBranch(b)]
    ELSE w

-----------------------------------------------------------------------------
(* The beat itself *)

Cold(w) == [w EXCEPT !.s.jtc = <<>>, !.s.bp = <<>>, !.s.countMode = FALSE, !.s.count = 0,
                     !.s.predOk = <<>>, !.s.rsync = FALSE, !.map = <<>>]

\* A flush only when it moves the decoder.
FlushNeeded(s, b) == s.retSince \/ b.icnt # 0
Moves(s, b, w) == w.map # <<>> \/ (FlushNeeded(s, b) /\ FlushTgt(s, b) # w.pos)
FlushPending(s, b, w) ==
    IF Moves(s, b, w)
    THEN Send(w, Flush(Opts.bp /\ s.countMode, s.count, w.map, FlushTgt(s, b), w.last), FlushTgt(s, b))
    ELSE w

TakeOff(s, b, w) ==
    LET v == IF w.own \/ s.ovf THEN w ELSE FlushPending(s, b, w)
    IN  Cold([(IF s.started THEN Queue(v, F33("ended")) ELSE v) EXCEPT !.s.started = FALSE, !.s.ovf = FALSE])

TakeOverrun(w) == Queue([Cold(w) EXCEPT !.s.ovf = TRUE], F33("lost"))

StartAt(b, w) == Send(Queue(w, F33("no_change")), F30(b.iaddr, SyncTaken(b)), b.iaddr)
StartOn(b, w) ==
    IF CfUpdiscon(b) THEN Send(w, [Packet EXCEPT !.addr = b.nia - b.iaddr], b.nia) ELSE w
TakeStart(b, w) ==
    StartOn(b, StartAt(b, [w EXCEPT !.s.rsync = FALSE, !.s.predOk = <<>>, !.s.started = TRUE, !.map = <<>>]))

\* In COUNT mode right predictions only count; a full map of right ones begins it.
TakeBranch(s, b, w) ==
    IF Opts.bp /\ s.countMode
    THEN IF BpCorrect(s, b) THEN [w EXCEPT !.s.count = s.count + 1]
         ELSE Queue([w EXCEPT !.pos = b.iaddr, !.s.countMode = FALSE, !.s.count = 0],
                    [Packet EXCEPT !.k = "F00N", !.count = s.count])
    ELSE IF Len(w.map) = MapMax - 1
    THEN IF Opts.bp /\ BpCorrect(s, b) /\ \A k \in DOMAIN s.predOk : s.predOk[k]
         THEN [w EXCEPT !.map = <<>>, !.s.predOk = <<>>, !.s.countMode = TRUE, !.s.count = 0]
         ELSE Queue([w EXCEPT !.map = <<>>, !.s.predOk = <<>>, !.pos = b.iaddr],
                    [Packet EXCEPT !.k = "F1N", !.map = Append(w.map, TakenBit(b))])
    ELSE [w EXCEPT !.map = Append(w.map, TakenBit(b)),
                   !.s.predOk = IF Opts.bp THEN Append(SubSeq(s.predOk, 1, Len(w.map)), BpCorrect(s, b)) ELSE <<>>]

DeferUpdiscon(s, b, w) ==
    [w EXCEPT !.s.pu = [valid |-> TRUE, own |-> b.iaddr, tgt |-> b.nia, map |-> w.map,
                        counting |-> Opts.bp /\ s.countMode, count |-> s.count],
              !.s.countMode = FALSE, !.s.count = 0, !.map = <<>>]

\* A trap on the unretired target of what was reported last names its address
\* without moving the decoder; else what retired is flushed first.
TakeTrap(s, b, w) ==
    LET still == s.started /\ ~FlushNeeded(s, b) /\ w.map = <<>>
        v == IF w.own \/ s.ovf THEN [w EXCEPT !.s.taStart = FALSE]
             ELSE IF still
             THEN [Queue(w, F31(w.pos, FALSE, b.itype = "INTERRUPT", TRUE)) EXCEPT !.s.taStart = TRUE]
             ELSE [(IF s.started THEN FlushPending(s, b, w) ELSE w) EXCEPT !.s.taStart = FALSE]
    IN  [v EXCEPT !.map = <<>>, !.s.predOk = <<>>, !.s.countMode = FALSE, !.s.count = 0,
                  !.s.ta = [valid |-> TRUE, addr |-> b.nia, intr |-> b.itype = "INTERRUPT"]]

Take(s, b, w) ==
    IF TaHitBranch(s, b) \/ IsDrain(b) THEN w
    ELSE IF IsOff(b) THEN TakeOff(s, b, w)
    ELSE IF SyncOvf(b) THEN TakeOverrun(w)
    ELSE IF HasSync(b) /\ ~s.started THEN TakeStart(b, w)
    ELSE IF CfBranch(b) /\ ~w.ate THEN TakeBranch(s, b, w)
    ELSE IF CfUpdiscon(b) THEN DeferUpdiscon(s, b, w)
    ELSE IF CfTrap(b) THEN TakeTrap(s, b, w)
    ELSE w

\* Where the next retirement is expected, and which was the last.
NextAddr(s, b) ==
    IF HasSync(b) /\ (SyncOvf(b) \/ ~s.started) THEN (IF NeedsNia(b) THEN b.nia - 1 ELSE b.iaddr)
    ELSE IF NeedsNia(b) THEN b.nia
    ELSE s.next + b.icnt

Begun(s, b) == [s |-> [s EXCEPT !.bp = BpNext(s, b)], q |-> <<>>, map |-> s.map, last |-> s.last,
                pos |-> s.pos, sent |-> FALSE, own |-> FALSE, ate |-> FALSE]
Finished(s, b, w) ==
    [q |-> w.q,
     s |-> [w.s EXCEPT !.map = w.map, !.last = w.last, !.pos = w.pos,
                       !.retSince = ~w.sent /\ (s.retSince \/ b.icnt # 0),
                       !.lastRet = IF b.icnt # 0 THEN SegLast(s, b) ELSE s.lastRet,
                       !.next = NextAddr(s, b)]]
Accept(s, b, short) ==
    Finished(s, b, Take(s, b, ResolveRsync(s, b, ResolveOvf(s, b, ResolveTa(s, b,
                       ArmRsync(s, b, ResolvePu(s, b, short, Begun(s, b))))))))
=============================================================================
