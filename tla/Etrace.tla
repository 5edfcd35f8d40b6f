------------------------------- MODULE Etrace -------------------------------
(***************************************************************************)
(* Instruction trace end to end in E-Trace mode: a hart runs Prog, the  *)
(* composer makes eTIP messages of it, ct_L2_te_inst_gen makes te_inst     *)
(* packets of those, and the decoder of etrace_common.py reads them as     *)
(* they come.  The decoder must name the instructions the hart retired.    *)
(* One instruction retires per step and is one address long.               *)
(***************************************************************************)
EXTENDS TeDecoder

CONSTANTS
    Handler,    \* address of the trap handler
    RetDepth,   \* RET_STACK_DEPTH
    IcntCap,    \* 2 ** NEXUS_MSG_I_CNT_WIDTH
    Options,    \* combinations of ir, jtc and bp to run with
    Uninferable,\* where an uninferable jump or call may go
    MaxOwed,    \* bound: instructions retired and not yet named
    MaxEvents,  \* bound: traps, synchronizations, pauses and losses
    Corners     \* situations let in, of AllCorners

AllCorners == {"deep calls", "diverted return", "interrupt behind mirror",
               "sync on handler branch", "anchor on jump", "flush in count mode", "stop at reported address", "behind failed prediction", "lost trap at target", "flush onto branch", "exception after loss", "exception at target", "off after trap"}

VARIABLES
    opts,       \* run-time enables
    hart,       \* pc, epc, frames
    active, anchor,     \* tracing; the anchor it owes: "none", "reset", "enable"
    icnt, stack,        \* composer: ICntCum, RetStack
    prev,               \* the last retirement: [iaddr, cf, trap]
    episode,            \* an overflow episode: messages are dropped
    gen,                \* ct_L2_te_inst_gen
    dec,                \* the decoder
    owed,               \* retired, in order, and not yet named
    lost,               \* since a loss: "no", "yes", "trap"
    ahead,              \* named before it retires, behind a failed prediction
    events,             \* of those so far
    bad                 \* what the decoder got wrong first

vars == <<opts, hart, active, anchor, icnt, stack, prev, episode, gen, dec, owed, lost, ahead, events, bad>>

Gen(o) == INSTANCE TeInstGen WITH Opts <- o

Init ==
    /\ opts \in Options
    /\ hart = [pc |-> 0, epc |-> -1, frames |-> <<>>]
    /\ active = TRUE /\ anchor = "reset"
    /\ icnt = 0 /\ stack = <<>> /\ episode = FALSE
    /\ prev = [iaddr |-> 0, cf |-> FALSE, trap |-> FALSE]
    /\ gen = Gen(opts)!NewGenerator
    /\ dec = NewDecoder /\ owed = <<>> /\ lost = "no" /\ ahead = -1 /\ events = 0 /\ bad = "none"

-----------------------------------------------------------------------------
(* The hart and the composer *)

Frames == hart.frames
Changing == {"TAKEN", "JUMP", "CALL", "UJUMP", "UCALL", "RETURN", "MRET", "EXCEPTION", "INTERRUPT"}
IsCf(itype) == itype # "OTHER"

Itypes(op) == CASE op = "OP" -> {"OTHER"} [] op = "BRANCH" -> {"TAKEN", "NOT_TAKEN"} [] OTHER -> {op}
Successors(itype) ==
    CASE itype \in {"OTHER", "NOT_TAKEN"} -> {hart.pc + 1}
      [] itype \in {"TAKEN", "JUMP", "CALL"} -> {Prog[hart.pc].to}
      [] itype \in {"UJUMP", "UCALL"} -> Uninferable
      [] itype = "RETURN" -> (IF Frames = <<>> THEN {} ELSE {Last(Frames)})
                             \cup (IF "diverted return" \in Corners THEN Uninferable ELSE {})
      [] itype = "MRET" -> IF hart.epc = -1 THEN {} ELSE {hart.epc}
FramesAfter(itype) ==
    CASE itype \in {"CALL", "UCALL"} -> Append(Frames, hart.pc + 1)
      [] itype = "RETURN" /\ Frames # <<>> -> Front(Frames)
      [] OTHER -> Frames

Message(itype, iaddr, n, nia, sync, rcode, pred) ==
    [itype |-> itype, iaddr |-> iaddr, icnt |-> n, nia |-> nia, sync |-> sync,
     rcode |-> rcode, pred |-> pred]

\* DecPos is the failed branch when the decoder has gone behind it.
Behind == gen.started /\ ~gen.countMode /\ dec.pc # gen.pos

\* With branch prediction a synchronization avoids branches (sync_anchor_ok).
SyncOk(itype) ==
    /\ opts.bp => itype \notin {"TAKEN", "NOT_TAKEN"}
    /\ "sync on handler branch" \notin Corners => ~(gen.ta.valid /\ itype \in {"TAKEN", "NOT_TAKEN"})
    /\ "anchor on jump" \notin Corners => anchor = "none" \/ itype \notin Changing
Syncs(itype) ==
    {"none"} \cup (IF active /\ SyncOk(itype) THEN {IF anchor = "none" THEN "mid" ELSE anchor} ELSE {})

\* The gap anchors leave the return stack alone.
Gap(sync) == sync \in {"reset", "enable"}
Traced(sync) == active /\ (anchor = "none" \/ Gap(sync))
Emits(itype, sync) == Traced(sync) /\ (IsCf(itype) \/ sync # "none")
Exclusive(itype, sync) == sync # "none" /\ (itype \notin Changing \/ sync = "reset")
Drains == icnt + 1 >= IcntCap
Counted == IF Drains THEN 1 ELSE icnt + 1
StackAfter(itype, sync) ==
    IF ~Emits(itype, sync) \/ Gap(sync) THEN stack
    ELSE IF itype \in {"CALL", "UCALL"} /\ Len(stack) < RetDepth THEN Append(stack, hart.pc + 1)
    ELSE IF itype = "RETURN" /\ stack # <<>> THEN Front(stack)
    ELSE stack
RetPredicted(itype, sync, to) == ~Gap(sync) /\ itype = "RETURN" /\ stack # <<>> /\ Last(stack) = to

Messages(itype, sync, to) ==
    LET drain == IF Traced(sync) /\ Drains
                 THEN <<Message("OTHER", hart.pc, icnt, to, "none", "drain", FALSE)>> ELSE <<>>
        cf == IF Emits(itype, sync)
              THEN <<Message(itype, hart.pc, IF Exclusive(itype, sync) THEN Counted - 1 ELSE Counted,
                             to, sync, "none", RetPredicted(itype, sync, to))>>
              ELSE <<>>
    IN  drain \o cf

-----------------------------------------------------------------------------
(* Messages through the generator and the decoder; what was named *)

Fed(w, r) == [gen |-> r.s, dec |-> Decode(w.dec, r.q)]
Run(ms, short) ==
    FoldLeft(LAMBDA w, m : Fed(w, Gen(opts)!Accept(w.gen, m, short)), [gen |-> gen, dec |-> dec], ms)

\* pcs retired before these messages were read: what is named must be their
\* prefix.  A session ends with all named, a loss forgets the rest; `after` is
\* lost unless something is named.
Deliver(ms, pcs, ends, after) ==
    \E short \in IF opts.jtc THEN BOOLEAN ELSE {FALSE} : \E r \in {Run(ms, short)} :
        LET out == r.dec.out
            named == IsPrefix(out, pcs)
            early == /\ ms # <<>> /\ out # <<>> /\ Front(out) = pcs /\ Last(out) = r.dec.pc
                     /\ opts.bp /\ gen.countMode
        IN  /\ gen' = r.gen /\ dec' = [r.dec EXCEPT !.out = <<>>]
            /\ owed' = IF named /\ ends = "no" THEN SubSeq(pcs, Len(out) + 1, Len(pcs)) ELSE <<>>
            /\ ahead' = IF early /\ ~named THEN r.dec.pc ELSE -1
            /\ bad' = IF r.dec.err # "none" THEN r.dec.err
                      ELSE IF ~named /\ ~early THEN "wrong instruction"
                      ELSE IF ends = "off" /\ Len(out) < Len(pcs) THEN "instructions missing"
                      ELSE bad
            /\ lost' = IF out # <<>> /\ ends = "no" THEN "no" ELSE after
            /\ Len(owed') <= MaxOwed

\* After a loss naming begins again at the message the anchor rides on, or at
\* the handler of a trap before it.
PcsAfter(pc) == IF lost = "yes" THEN <<pc>> ELSE IF ahead = pc THEN owed ELSE Append(owed, pc)

Retires(itype, to) ==
    /\ hart' = [pc |-> to, epc |-> IF itype = "MRET" THEN -1 ELSE hart.epc, frames |-> FramesAfter(itype)]
    /\ prev' = [iaddr |-> hart.pc, cf |-> itype \in Changing, trap |-> FALSE]
Traps == /\ hart.epc = -1
         /\ hart' = [hart EXCEPT !.pc = Handler, !.epc = hart.pc]
         /\ prev' = [prev EXCEPT !.trap = TRUE]
Disturbs == events < MaxEvents /\ events' = events + 1

\* One instruction retires.
Retire(itype, sync, to) ==
    LET traced == Traced(sync)
    IN  /\ "deep calls" \notin Corners =>
              ~(itype \in {"CALL", "UCALL"} /\ Len(Frames) = RetDepth)
        /\ "behind failed prediction" \notin Corners => ~(Behind /\ (gen.rsync \/ sync # "none"))
        /\ ~episode /\ Retires(itype, to)
        /\ IF sync = "mid" THEN Disturbs ELSE UNCHANGED events
        /\ icnt' = IF ~traced THEN icnt
                   ELSE IF ~Emits(itype, sync) THEN Counted
                   ELSE IF Exclusive(itype, sync) THEN 1 ELSE 0
        /\ stack' = StackAfter(itype, sync)
        /\ anchor' = IF Gap(sync) THEN "none" ELSE anchor
        /\ IF traced THEN Deliver(Messages(itype, sync, to), PcsAfter(hart.pc), "no", lost)
           ELSE UNCHANGED <<gen, dec, owed, lost, ahead, bad>>
        /\ UNCHANGED <<opts, active, episode>>
Step == \E itype \in Itypes(Prog[hart.pc].op) : \E sync \in Syncs(itype), to \in Successors(itype) :
            Retire(itype, sync, to)

\* FlushTgt of the generator for a trap or the end of a session now; and the
\* situations in which the decoder loses its way on that flush.
LastRetired == IF icnt # 0 THEN gen.next + icnt - 1 ELSE gen.lastRet
Unflushed == /\ gen.started /\ icnt = 0 /\ ~gen.retSince /\ gen.map = <<>> /\ ~gen.pu.valid
OntoBranch == Len(gen.map) = 1 /\ IsBranch(gen.pos) /\ LastRetired = gen.pos
Mirrored == \/ opts.ir /\ Prog[prev.iaddr].op \in {"CALL", "UCALL", "RETURN"}
            \/ opts.bp /\ Prog[prev.iaddr].op = "BRANCH"
Flushes ==
    /\ "flush in count mode" \notin Corners => ~gen.countMode
    /\ "behind failed prediction" \notin Corners => ~Behind
    /\ "flush onto branch" \notin Corners => ~OntoBranch

\* The instruction at pc does not retire; one level of traps.
Trap(itype) ==
    /\ Traps /\ Disturbs /\ ~episode /\ Flushes
    /\ "stop at reported address" \notin Corners => ~Unflushed
    /\ "exception at target" \notin Corners =>
          ~(itype = "EXCEPTION" /\ opts.jtc /\ gen.pu.valid /\ icnt = 0)
    /\ "exception after loss" \notin Corners => ~(itype = "EXCEPTION" /\ gen.ovf)
    /\ "interrupt behind mirror" \notin Corners => ~(itype = "INTERRUPT" /\ Mirrored)
    /\ IF active /\ anchor = "none"
       THEN /\ icnt' = 0
            /\ Deliver(<<Message(itype, hart.pc, icnt, Handler, "none", "none", FALSE)>>,
                       IF lost = "no" THEN owed ELSE <<>>, "no", IF lost = "no" THEN "no" ELSE "trap")
       ELSE UNCHANGED <<icnt, gen, dec, owed, lost, ahead, bad>>
    /\ UNCHANGED <<opts, active, anchor, stack, episode>>

\* Tracing paused and resumed.
Off ==
    /\ active /\ ~episode /\ anchor = "none" /\ Flushes /\ Disturbs
    /\ "stop at reported address" \notin Corners => ~(Unflushed /\ owed # <<>>)
    /\ "off after trap" \notin Corners => ~gen.ta.valid
    /\ active' = FALSE /\ icnt' = 0 /\ stack' = <<>>
    /\ Deliver(<<Message("OTHER", hart.pc, icnt, hart.pc, "none", "off", FALSE)>>,
               IF lost = "no" THEN owed ELSE <<>>, "off", "no")
    /\ UNCHANGED <<opts, hart, anchor, prev, episode>>
On ==
    /\ ~active /\ active' = TRUE /\ anchor' = "enable"
    /\ UNCHANGED <<opts, hart, icnt, stack, prev, episode, gen, dec, owed, lost, ahead, events, bad>>

\* A message does not fit: the hart goes on, until the marker with its anchor
\* stands for what was lost, where the next instruction is known.
Lose ==
    /\ active /\ anchor = "none" /\ ~episode /\ Disturbs
    /\ episode' = TRUE
    /\ UNCHANGED <<opts, hart, active, anchor, icnt, stack, prev, gen, dec, owed, lost, ahead, bad>>
Unseen ==
    /\ episode
    /\ \/ \E itype \in Itypes(Prog[hart.pc].op) : \E to \in Successors(itype) :
            /\ Len(FramesAfter(itype)) <= RetDepth
            /\ Retires(itype, to) /\ UNCHANGED events
            /\ owed' = IF Len(owed) <= MaxOwed THEN Append(owed, hart.pc) ELSE owed
       \/ /\ Traps /\ Disturbs
          /\ "lost trap at target" \notin Corners => ~(gen.pu.valid /\ prev.cf)
          /\ UNCHANGED owed
    /\ UNCHANGED <<opts, active, anchor, icnt, stack, episode, gen, dec, lost, ahead, bad>>
Recover ==
    /\ episode /\ ~prev.cf /\ ~prev.trap
    /\ episode' = FALSE /\ icnt' = 0 /\ stack' = <<>>
    /\ Deliver(<<Message("OTHER", prev.iaddr + 1, 0, 0, "ovf", "none", FALSE)>>, owed, "lost", "yes")
    /\ UNCHANGED <<opts, hart, active, anchor, prev, events>>

Next == bad = "none" /\ (Step \/ Trap("EXCEPTION") \/ Trap("INTERRUPT") \/ Off \/ On \/ Lose \/ Unseen \/ Recover)
Spec == Init /\ [][Next]_vars

\* The decoder names the retired instructions, in order, none twice, none that
\* did not retire; and all of them by the end of a session.
Exact == bad = "none"
=============================================================================
