----------------------------- MODULE TeDecoder -----------------------------
(***************************************************************************)
(* The E-Trace reference decoder (decoder_model.py of the vendored         *)
(* riscv-trace-spec) with the extensions of etrace_common.py: implicit     *)
(* returns, the jump target cache and branch prediction, each a mirror of  *)
(* the encoder's.  Operators on the state of a decoder.  An instruction is *)
(* one address long, and a packet is a record: its bits are not modelled.  *)
(***************************************************************************)
EXTENDS Integers, Sequences, SequencesExt

CONSTANTS
    Prog,       \* address -> [op, to]: the program, which is the listing
    MapMax,     \* branches of a full map: 31
    JtcSize,    \* JTC_ENTRIES
    WalkMax     \* bound: instructions followed for a packet

\* Branch outcomes are TRUE when taken.
NewDecoder ==
    [start |-> TRUE, pc |-> -1, last |-> -1, address |-> 0,
     map |-> <<>>, stopLast |-> FALSE, inferred |-> FALSE, updiscon |-> FALSE,
     ir |-> FALSE, useJtc |-> FALSE, useBp |-> FALSE,
     stack |-> <<>>, jtc |-> <<>>, bp |-> <<>>, pending |-> 0, fail |-> FALSE,
     out |-> <<>>, err |-> "none"]

IsBranch(a) == Prog[a].op = "BRANCH"
IsUninferableDiscon(a) == Prog[a].op \in {"UJUMP", "UCALL", "RETURN", "MRET"}
IsCall(a) == Prog[a].op \in {"CALL", "UCALL"}
IsImplicitReturn(d, a) == d.ir /\ Prog[a].op = "RETURN" /\ d.stack # <<>>
JtcIdx(a) == a % JtcSize
Set(f, k, v) == [x \in DOMAIN f \cup {k} |-> IF x = k THEN v ELSE f[x]]
Fail(d, why) == [d EXCEPT !.err = IF d.err = "none" THEN why ELSE d.err]
Report(d) == [d EXCEPT !.out = Append(d.out, d.pc)]
BranchLimit(d) == IF IsBranch(d.pc) THEN 1 ELSE 0

\* The two-bit counter of the predictor, weakly not taken at first.
Counter(bp, a) == IF a \in DOMAIN bp THEN bp[a] ELSE 1
Predicted(bp, a) == Counter(bp, a) >= 2
Trained(bp, a, taken) ==
    LET c == Counter(bp, a)
    IN  Set(bp, a, IF taken THEN (IF c = 3 THEN 3 ELSE c + 1) ELSE (IF c = 0 THEN 0 ELSE c - 1))

\* is_taken_branch: a map bit outranks the count of a Format 0, and of that the
\* predicted branches come before the one that failed.
FromMap(d) ==
    [d |-> IF d.map = <<>> THEN Fail(d, "cannot resolve branch") ELSE [d EXCEPT !.map = Tail(d.map)],
     taken |-> d.map # <<>> /\ Head(d.map)]
Resolved(d, predicted) ==
    IF ~d.useBp \/ d.map # <<>> THEN FromMap(d)
    ELSE IF d.pending > 0 THEN [d |-> [d EXCEPT !.pending = d.pending - 1], taken |-> predicted]
    ELSE IF d.fail THEN [d |-> [d EXCEPT !.fail = FALSE], taken |-> ~predicted]
    ELSE FromMap(d)
Training(d, b) == IF d.useBp THEN [b EXCEPT !.d.bp = Trained(d.bp, d.pc, b.taken)] ELSE b
Branch(d) == Training(d, Resolved(d, Predicted(d.bp, d.pc)))

\* next_pc: one instruction executed; an uninferable one goes to the address
\* reported.
Taking(d, b, to) == [d |-> [b.d EXCEPT !.pc = IF b.taken THEN to ELSE d.pc + 1], stop |-> b.taken /\ to = d.pc]
Went(d, address) ==
    LET i == Prog[d.pc]
    IN  IF i.op \in {"JUMP", "CALL"}
          THEN [d |-> [d EXCEPT !.pc = i.to], stop |-> i.to = d.pc]
        ELSE IF IsImplicitReturn(d, d.pc)
          THEN [d |-> [d EXCEPT !.pc = Last(d.stack), !.stack = Front(d.stack)], stop |-> FALSE]
        ELSE IF IsUninferableDiscon(d.pc)
          THEN [d |-> IF d.stopLast THEN Fail(d, "unexpected discontinuity") ELSE [d EXCEPT !.pc = address],
                stop |-> TRUE]
        ELSE IF IsBranch(d.pc) THEN Taking(d, Branch(d), i.to)
        ELSE [d |-> [d EXCEPT !.pc = d.pc + 1], stop |-> FALSE]
\* The extension: what is installed, and where a fold stops.
Extended(d, address, e, stop) ==
    LET fold == IsImplicitReturn(d, d.pc)
        installs == /\ stop /\ ~fold /\ d.useJtc /\ e.pc = address /\ IsUninferableDiscon(d.pc)
        atFold == fold /\ e.pc = address /\ ~e.stopLast /\ Len(e.map) <= BranchLimit(e)
    IN  IF e.err # "none" \/ e.pc \notin DOMAIN Prog
        THEN [d |-> Fail([e EXCEPT !.pc = d.pc], "left the listing"), stop |-> TRUE]
        ELSE [d |-> IF installs THEN [e EXCEPT !.jtc = Set(e.jtc, JtcIdx(address), address)] ELSE e,
              stop |-> stop \/ atFold]
Pushed(d, e) == [e EXCEPT !.last = d.pc,
                          !.stack = IF IsCall(d.pc) /\ d.ir THEN Append(e.stack, d.pc + 1) ELSE e.stack]
Settled(d, address, went) == Extended(d, address, Pushed(d, went.d), went.stop)
NextPc(d, address) == Settled(d, address, Went(d, address))

\* follow_execution_path: one turn of its loop on [d, done].
Followed(w, n, d, address, sync) ==
    LET \* reached the last branch of a full map, not knowing if it retires
        lastBranch == Len(d.map) = 1 /\ IsBranch(d.pc) /\ d.stopLast
        resolved == Len(d.map) = BranchLimit(d)
        linear == /\ ~sync /\ d.pc = address /\ ~d.stopLast
                  /\ ~IsUninferableDiscon(d.last) /\ ~d.updiscon /\ resolved
    IN  IF n.d.err # "none" THEN [d |-> n.d, done |-> TRUE]
        ELSE IF w.d.inferred THEN [d |-> IF n.stop THEN [d EXCEPT !.inferred = FALSE] ELSE d, done |-> FALSE]
        ELSE IF lastBranch THEN [d |-> [d EXCEPT !.stopLast = FALSE], done |-> TRUE]
        ELSE IF n.stop THEN [d |-> IF Len(d.map) > BranchLimit(d) THEN Fail(d, "unprocessed branches") ELSE d,
                             done |-> TRUE]
        ELSE IF linear THEN [d |-> [d EXCEPT !.inferred = TRUE], done |-> TRUE]
        ELSE [d |-> d, done |-> sync /\ d.pc = address /\ resolved]
Reporting(w, n, address, sync) == Followed(w, n, Report(n.d), address, sync)
FollowStep(w, address, sync, prev) ==
    Reporting(w, NextPc(w.d, IF w.d.inferred THEN prev ELSE address), address, sync)
Ended(r) == IF r.done THEN r.d ELSE Fail(r.d, "ran away")
Follow(d, address, sync) ==
    Ended(FoldLeft(LAMBDA w, k : IF w.done THEN w ELSE FollowStep(w, address, sync, d.pc),
                   [d |-> d, done |-> FALSE], [k \in 1 .. WalkMax |-> k]))
\* The walk to the address the packet led to.
FollowAddress(d) == Follow(d, d.address, FALSE)

\* The packets after SUPPORT and the synchronizations: what the map gains, where
\* the address leads.
WithMap(d, p) == [d EXCEPT !.map = d.map \o p.map]
Address(d, p) == [d EXCEPT !.address = d.address + p.addr, !.stopLast = FALSE, !.updiscon = p.updiscon]

\* _process_f00 without an address: the predicted branches and the failed one.
InRun(n) == IF n.stop THEN Fail(n.d, "discontinuity in a run") ELSE Report(n.d)
Exhausted(d) == d.pending = 0 /\ ~d.fail
RunEnded(d) == IF Exhausted(d) THEN d ELSE Fail(d, "ran away")
WalkFailed(d) ==
    RunEnded(FoldLeft(LAMBDA e, k : IF Exhausted(e) \/ e.err # "none" THEN e ELSE InRun(NextPc(e, 0)),
                      d, [k \in 1 .. WalkMax |-> k]))

\* exception_address: to name the EPC, the instruction the decoder stands at is
\* executed, its effects on the mirrors included.
ExceptionAddress(d, p) ==
    IF p.intr \/ (IsUninferableDiscon(d.pc) /\ p.th0) THEN d ELSE NextPc(d, d.pc).d

\* The map at an anchor: what is left of it, and the outcome of a branch there.
Anchored(d, p) ==
    [d EXCEPT !.inferred = FALSE, !.address = p.addr,
              !.map = (IF p.k = "F31" \/ d.start THEN <<>> ELSE d.map)
                      \o (IF IsBranch(p.addr) THEN <<p.branch>> ELSE <<>>)]
Moved(d, p) == [Report([d EXCEPT !.pc = p.addr]) EXCEPT !.last = p.addr, !.start = FALSE]
SynchronizeTrap(d, p) == IF p.th0 THEN d ELSE Moved(Anchored(d, p), p)
Synchronize(d, p) ==
    IF p.k = "F31" THEN SynchronizeTrap(ExceptionAddress(d, p), p)
    ELSE IF d.start THEN Moved(Anchored(d, p), p)
    ELSE [Follow(Anchored(d, p), p.addr, TRUE) EXCEPT !.start = FALSE]

\* process_support: options; and a restart clears the mirrors.
Support(d, p) ==
    LET e == [d EXCEPT !.ir = p.opts.ir, !.useJtc = p.opts.jtc, !.useBp = p.opts.bp]
    IN  IF p.qual = "none" THEN e
        ELSE [e EXCEPT !.start = TRUE, !.jtc = <<>>, !.bp = <<>>, !.pending = 0, !.fail = FALSE,
                       !.stack = <<>>]

\* process_te_inst.
Process(d, p) ==
    IF d.err # "none" THEN d
    ELSE IF p.k = "F33" THEN Support(d, p)
    ELSE IF p.k \in {"F30", "F31"} THEN Synchronize(d, p)
    ELSE IF d.start THEN Fail(d, "no anchor")
    ELSE IF p.k = "F1N" THEN FollowAddress([WithMap(d, p) EXCEPT !.stopLast = TRUE, !.updiscon = FALSE])
    ELSE IF p.k \in {"F1A", "F2"} THEN FollowAddress(WithMap(Address(d, p), p))
    ELSE IF p.k = "F01"
      THEN IF p.idx \notin DOMAIN d.jtc THEN Fail(d, "not in decoder cache")
           ELSE FollowAddress(WithMap([d EXCEPT !.updiscon = TRUE, !.stopLast = FALSE,
                                                !.address = d.jtc[p.idx]], p))
    ELSE IF p.k = "F00N" THEN WalkFailed([d EXCEPT !.pending = d.pending + p.count + MapMax, !.fail = TRUE])
    ELSE FollowAddress(Address([d EXCEPT !.pending = d.pending + p.count + MapMax], p))
Decode(d, q) == FoldLeft(Process, d, q)
=============================================================================
