------------------------------- MODULE Capture -------------------------------
(***************************************************************************)
(* Reading a recorded trace while the recording goes on: dump_bytes,       *)
(* trace_tail and dump_cap_arg of the dashboard server against the on-chip *)
(* trace ring and the DDR sink, and DemoBus in their place                 *)
(* (examples/dashboard/server.py).  The hardware (external) counts bytes   *)
(* and beats; every register and block access is one step.  A byte is      *)
(* <<era, number>>: the number is its place in the recording since the     *)
(* clear that began the era.                                               *)
(***************************************************************************)
EXTENDS Integers, Sequences

CONSTANTS
  Beat,               \* bytes of one beat: 4
  Burst,              \* bytes of one burst of the DDR sink: 32
  Depth,              \* bytes of the ring, or of the buffer in DDR (DDR_SIZE)
  CapDefault, CapMax, \* DUMP_CAP_DEFAULT, DUMP_CAP_MAX
  Asked,              \* ?max= of a dump, ?tail= of packets and livepc: <<>> or <<n>>
  MaxBytes, MaxEras   \* bounds: bytes of an era, clears

VARIABLES
  sink,               \* "uram" or "ddr", circular or one shot, demo or board
  mem, sent, got,     \* buffer; bytes recorded; bytes of whole beats recorded
  wrap,               \* SINK_STAT.wrapped of the DDR sink
  epoch,              \* clears so far
  dump                \* the request under way, or the answered one

recording == <<sink, mem, sent, got, wrap, epoch>>
vars == <<recording, dump>>

Least(a, b) == IF a < b THEN a ELSE b
NoDump == [pc |-> "idle", kind |-> "none", cap |-> 0, n |-> 0, end |-> 0, segs |-> <<>>,
           out |-> <<>>, held |-> 0, cut |-> 0, spoilt |-> FALSE]

Init ==
  /\ sink \in [kind : {"uram", "ddr"}, circ : BOOLEAN, demo : BOOLEAN]
  /\ mem = [a \in 0 .. Depth - 1 |-> <<0, 0>>]
  /\ sent = 0 /\ got = 0 /\ wrap = FALSE /\ epoch = 0
  /\ dump = NoDump

-----------------------------------------------------------------------------
\* Recorded: k bytes of one beat arrive.  Only the beat that ends a flushed
\* recording is short, and only the ring keeps short beats.
Ended == sent < got
Full == ~sink.circ /\ got >= Depth

Record(k) ==
  /\ ~sink.demo /\ ~Ended /\ ~Full
  /\ k = Beat \/ sink.kind = "uram"
  /\ got + Beat <= MaxBytes
  /\ mem' = [a \in 0 .. Depth - 1 |->
       LET lane == (a - got) % Depth IN IF lane < Beat THEN <<epoch, got + lane + 1>> ELSE mem[a]]
  /\ got' = got + Beat /\ sent' = sent + k
  /\ wrap' = (wrap \/ (sink.circ /\ (got + Beat) % Depth = 0))
  /\ UNCHANGED <<sink, epoch, dump>>

\* DemoBus._tick: any number of bytes at once; the words they touch are stored.
DemoTick(k) ==
  /\ sink.demo /\ sent + k <= MaxBytes
  /\ LET stop == IF sink.circ THEN sent + k ELSE Least(sent + k, Depth)
         low == sent - (sent % Beat)
         last(a) == stop - 1 - ((stop - 1 - a) % Depth)
     IN /\ sent' = stop /\ got' = stop
        /\ mem' = [a \in 0 .. Depth - 1 |->
             IF last(a) >= low /\ stop > sent THEN <<epoch, last(a) + 1>> ELSE mem[a]]
  /\ UNCHANGED <<sink, wrap, epoch, dump>>

\* trace_clear and ddr_clear zero the counters, not the buffer.
Clear ==
  /\ epoch < MaxEras
  /\ sent' = 0 /\ got' = 0 /\ wrap' = FALSE /\ epoch' = epoch + 1
  /\ dump' = [dump EXCEPT !.spoilt = dump.pc # "idle"]
  /\ UNCHANGED <<sink, mem>>

-----------------------------------------------------------------------------
\* dump_cap_arg: nothing asked for, 0 for as much as allowed, or a number.
DumpCap(q) == IF q = <<>> THEN CapDefault
              ELSE IF q[1] = 0 THEN CapMax ELSE Least(q[1], CapMax)

Seg(a, n) == [i \in 1 .. n |-> a + i - 1]
Tail_(s, n) == IF Len(s) > n THEN SubSeq(s, Len(s) - n + 1, Len(s)) ELSE s

Begin(kind, q) ==
  /\ dump.pc = "idle"
  /\ kind = "dump" \/ (sink.kind = "uram" /\ q # <<>>)
  /\ dump' = [NoDump EXCEPT !.pc = IF sink.demo THEN "demo" ELSE "bytes", !.kind = kind,
                            !.cap = IF kind = "dump" THEN DumpCap(q) ELSE q[1]]
  /\ UNCHANGED recording

\* uram_dump and ddr_dump of the demo: the newest bytes of the simulated stream.
DumpDemo ==
  LET held == Least(sent, Depth)
  IN /\ dump.pc = "demo"
     /\ dump' = [dump EXCEPT !.pc = "done", !.end = sent, !.held = held,
                   !.out = Tail_([i \in 1 .. held |-> <<epoch, sent - held + i>>], dump.cap)]
     /\ UNCHANGED recording

\* TRACE_BYTES, or DDR_WPTR, is read first.
DumpBytes ==
  LET counter == IF sink.kind = "uram" THEN sent ELSE got
      held == Least(counter, Depth)
      n == Least(held, dump.cap)
  IN /\ dump.pc = "bytes"
     /\ dump' = [dump EXCEPT !.n = counter, !.held = held, !.end = counter,
          !.pc = IF n = 0 THEN "done"
                 ELSE IF sink.kind = "ddr" THEN "stat"
                 ELSE IF dump.kind = "tail" \/ counter > Depth THEN "beats" ELSE "blocks",
          !.segs = IF dump.kind = "dump" THEN <<Seg(0, held)>> ELSE <<>>,
          !.cut = n]
     /\ UNCHANGED recording

\* Mutant: the byte counter gives the write position.
WritePosBytes == sent % Depth

\* TRACE_BEATS gives the place of the next beat in the ring.
WritePos == ((got \div Beat) % (Depth \div Beat)) * Beat

\* The ring in order of time, all of it, or for trace_tail the words of the tail.
DumpBeats ==
  LET wr == WritePos
      n == dump.cut
      start == IF dump.n > Depth THEN (wr - n) % Depth ELSE dump.held - n
      a0 == start - (start % Beat)
      n0 == Least(n + (start - a0), Depth - a0)
      words == ((n0 + Beat - 1) \div Beat) * Beat
      first == Least(n, words - (start - a0))
  IN /\ dump.pc = "beats"
     /\ dump' = [dump EXCEPT !.pc = "blocks", !.end = IF dump.n > Depth THEN got ELSE @,
          !.segs = IF dump.kind = "dump" THEN <<Seg(wr, Depth - wr), Seg(0, wr)>>
                   ELSE <<Seg(start, first), Seg(0, n - first)>>]
     /\ UNCHANGED recording

\* Mutant: the start is rounded down, towards older bytes.
RoundUpDown(v) == (v \div Burst) * Burst

\* The start of a capped window moves up to the edge of a burst.
RoundUp(v) == ((v + Burst - 1) \div Burst) * Burst

\* SINK_STAT tells whether the buffer has wrapped.
DumpStat ==
  LET off == dump.n % Depth
      n == dump.cut
      start == RoundUp((off - n) % Depth) % Depth
      m == IF (off - start) % Depth = 0 THEN n ELSE (off - start) % Depth
      from == RoundUp(dump.held - n)
  IN /\ dump.pc = "stat"
     /\ dump' = [dump EXCEPT !.pc = "blocks", !.cut = Depth,
          !.segs = IF sink.circ /\ wrap
                   THEN IF n >= dump.held THEN <<Seg(off, Depth - off), Seg(0, off)>>
                        ELSE IF start + m <= Depth THEN <<Seg(start, m)>>
                        ELSE <<Seg(start, Depth - start), Seg(0, m - (Depth - start))>>
                   ELSE IF n >= dump.held THEN <<Seg(0, dump.held)>>
                        ELSE <<Seg(from, dump.held - from)>>]
     /\ UNCHANGED recording

\* One block read after the other, while the sink goes on.
DumpBlock ==
  /\ dump.pc = "blocks" /\ dump.segs # <<>>
  /\ dump' = [dump EXCEPT !.segs = Tail(@),
        !.out = @ \o [i \in DOMAIN dump.segs[1] |-> mem[dump.segs[1][i]]]]
  /\ UNCHANGED recording

DumpDone ==
  /\ dump.pc = "blocks" /\ dump.segs = <<>>
  /\ dump' = [dump EXCEPT !.pc = "done", !.out = Tail_(@, dump.cut)]
  /\ UNCHANGED recording

Answer == dump.pc = "done" /\ dump' = NoDump /\ UNCHANGED recording

Next ==
  \/ \E k \in 1 .. Beat : Record(k)
  \/ \E k \in 1 .. Depth : DemoTick(k)
  \/ Clear
  \/ \E kind \in {"dump", "tail"}, q \in Asked : Begin(kind, q)
  \/ DumpDemo \/ DumpBytes \/ DumpBeats \/ DumpStat \/ DumpBlock \/ DumpDone \/ Answer

Spec == Init /\ [][Next]_vars

-----------------------------------------------------------------------------
\* Byte i of the answer is the one of its place in the recording, or a newer one
\* that has meanwhile taken its place in the buffer.
InPlace(i) ==
  LET r == Len(dump.out)
      due == dump.end - r + i
      b == dump.out[i]
  IN /\ b[1] = epoch
     /\ b[2] >= due /\ (b[2] - due) % Depth = 0 /\ b[2] <= got
     /\ b[2] <= sent \/ (Ended /\ sent > Depth)

\* How much of it is answered: what is held, but not more than asked for; less
\* than a burst is missing where the DDR window is capped, and all of the buffer
\* comes when its first lap ends between the read of DDR_WPTR and of SINK_STAT.
Enough ==
  LET due == Least(dump.held, dump.cap) r == Len(dump.out)
  IN \/ sink.kind = "ddr" /\ ~sink.demo /\ dump.cap < dump.held /\ due - Burst < r /\ r <= due
     \/ r = due
     \/ sink.kind = "ddr" /\ wrap /\ dump.n < Depth /\ r = Depth

\* Whatever the sink does between the accesses of a dump, a tail or a capped DDR
\* window, the answer is the newest part of the recording, in order, and from
\* one recording (dump_bytes, trace_tail, DemoBus).  The stale lanes of a short
\* last beat show only once the ring has wrapped.
DumpIsNewest ==
  dump.pc = "done" /\ ~dump.spoilt =>
    Enough /\ \A i \in DOMAIN dump.out : InPlace(i)
=============================================================================
