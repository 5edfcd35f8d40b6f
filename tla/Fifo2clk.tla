------------------------------ MODULE Fifo2clk ------------------------------
(***************************************************************************)
(* fifo2clk_fwft: the dual-clock first-word-fall-through FIFO.  Each side  *)
(* keeps its own pointer, sees the other one through a two-stage           *)
(* synchronizer and registers its own full or empty flag.  A clock edge of *)
(* a side is one step; the edges of the two clocks interleave freely.      *)
(*                                                                         *)
(* A pointer is a position in the Gray cycle of length 2 * Depth.          *)
(* Fifo2clkMC has the code itself, and checks that on it the full          *)
(* comparison, the memory address and the capacities are Opposite, Slot    *)
(* and Dist.                                                               *)
(* Neighbouring codes differ in one bit, so a synchronizer that samples a  *)
(* pointer while it changes sees the old or the new position: these are    *)
(* the two orders of the two edges.                                        *)
(***************************************************************************)
EXTENDS Integers, Sequences, FiniteSets

CONSTANTS Data,     \* the words that travel
          Depth,    \* 2**A_BITS, words of memory
          Latency,  \* READOUT_LATENCY, registers behind the memory
          Idle      \* not a word: content of registers never loaded

ASSUME Fifo2clkAssumption == /\ Depth \in Nat /\ Depth >= 4
                             /\ Latency \in Nat \ {0}
                             /\ Idle \notin Data

VARIABLES
  wrst, rrst,    \* reset input of the write and of the read side
  wclr, rclr,    \* has the side seen a clock edge under this reset?
  mem,           \* Mem
  wptr, rptr,    \* WPtr and RPtr
  rsync, wsync,  \* RPtr_sync and WPtr_sync: <<oldest stage, youngest stage>>
  full, empty,   \* Full and Empty
  vld, reg,      \* Vld and ReadReg, stage 0 is the output
  taken          \* the word the sink took last (what q promised)

resetVars == <<wrst, rrst, wclr, rclr>>
writeVars == <<mem, wptr, rsync, full>>
readVars  == <<rptr, wsync, empty, vld, reg, taken>>
vars      == <<resetVars, writeVars, readVars>>

Cycle  == 2 * Depth
Ptr    == 0 .. Cycle - 1
Stages == 0 .. Latency - 1

SuccNoWrap(p) == p + 1  \* seeded fault
Succ(p)     == IF p = Cycle - 1 THEN 0 ELSE p + 1
Opposite(p) == IF p < Depth THEN p + Depth ELSE p - Depth
Slot(p)     == IF p < Depth THEN p ELSE p - Depth
\* Steps from a to b along the cycle.
Dist(a, b)  == IF a <= b THEN b - a ELSE b - a + Cycle

TypeOK == /\ {wrst, rrst, wclr, rclr, full, empty} \subseteq BOOLEAN
          /\ mem \in [0 .. Depth - 1 -> Data \cup {Idle}]
          /\ wptr \in Ptr /\ rptr \in Ptr
          /\ rsync \in Ptr \X Ptr /\ wsync \in Ptr \X Ptr
          /\ vld \in [Stages -> BOOLEAN]
          /\ reg \in [Stages -> Data \cup {Idle}]
          /\ taken \in Data \cup {Idle}

\* Power-up: both flags are raised, both sides are empty.
Init == /\ wrst = FALSE /\ rrst = FALSE /\ wclr = FALSE /\ rclr = FALSE
        /\ mem = [i \in 0 .. Depth - 1 |-> Idle]
        /\ wptr = 0 /\ rptr = 0
        /\ rsync = <<0, 0>> /\ wsync = <<0, 0>>
        /\ full = TRUE /\ empty = TRUE
        /\ vld = [i \in Stages |-> FALSE]
        /\ reg = [i \in Stages |-> Idle]
        /\ taken = Idle

-----------------------------------------------------------------------------
(* Write side, clock d.clk *)

\* A word is written: d.wr && !Full.  The seeded fault trusts the source.
WriteEnableUnguarded(wr) == wr
WriteEnable(wr) == wr /\ ~full

\* Full looks ahead to the pointer this edge moves to; comparing the current
\* pointer is the classical off-by-one.
FullNextStale(we) == wptr = Opposite(rsync[1])
FullNextSticky(we) == full \/ (IF we THEN Succ(wptr) ELSE wptr) = Opposite(rsync[1])
FullNext(we) == (IF we THEN Succ(wptr) ELSE wptr) = Opposite(rsync[1])

\* Free space as reported to the source (d.cnt_avail).
Space == Dist(wptr, Opposite(rsync[1]))

WriteEdge(wr, v) ==
  LET we == WriteEnable(wr) IN
  /\ ~wrst
  /\ rsync' = <<rsync[2], rptr>>
  /\ wptr' = IF we THEN Succ(wptr) ELSE wptr
  /\ mem' = IF we THEN [mem EXCEPT ![Slot(wptr)] = v] ELSE mem
  /\ full' = FullNext(we)
  /\ UNCHANGED <<resetVars, readVars>>

\* What a write-side reset edge leaves in the synchronizer.
ClearedRsync == <<0, 0>>

WriteResetEdge ==
  /\ wrst
  /\ wclr' = TRUE
  /\ rsync' = ClearedRsync /\ wptr' = 0 /\ full' = TRUE
  /\ UNCHANGED <<wrst, rrst, rclr, mem, readVars>>

-----------------------------------------------------------------------------
(* Read side, clock q.clk *)

\* Stage i of the read-out pipeline accepts a word: |{~Vld[i:0], q.ack}.
Load(i, ack) == ack \/ \E j \in 0 .. i : ~vld[j]

\* A word leaves the memory: !Empty && load[top].
ReadEnable(ack) == ~empty /\ Load(Latency - 1, ack)

EmptyNextSticky(re) == empty \/ (IF re THEN Succ(rptr) ELSE rptr) = wsync[1]
EmptyNext(re) == (IF re THEN Succ(rptr) ELSE rptr) = wsync[1]

\* Words available as reported to the sink (q.cnt_avail).
Avail == Dist(rptr, wsync[1])

ReadEdge(ack) ==
  LET re == ReadEnable(ack)
      top == Latency - 1 IN
  /\ ~rrst
  /\ wsync' = <<wsync[2], wptr>>
  /\ rptr' = IF re THEN Succ(rptr) ELSE rptr
  /\ empty' = EmptyNext(re)
  /\ vld' = [i \in Stages |->
               ~Load(i, ack) \/ IF i = top THEN ~empty ELSE vld[i + 1]]
  /\ reg' = [i \in Stages |->
               IF i = top THEN IF re THEN mem[Slot(rptr)] ELSE reg[i]
                          ELSE IF Load(i, ack) THEN reg[i + 1] ELSE reg[i]]
  /\ taken' = IF vld[0] /\ ack THEN reg[0] ELSE taken
  /\ UNCHANGED <<resetVars, writeVars>>

ReadResetEdge ==
  /\ rrst
  /\ rclr' = TRUE
  /\ wsync' = <<0, 0>> /\ rptr' = 0 /\ empty' = TRUE
  /\ vld' = [i \in Stages |-> FALSE]
  /\ UNCHANGED <<wrst, rrst, wclr, reg, taken, writeVars>>

-----------------------------------------------------------------------------
(* Resets.  SAFE_RESETS = 0: cross_reset raises both sides together, keeps *)
(* the latch until both have acknowledged an edge, and holds the write     *)
(* side until the read side is released (hold = {1'b0, rrst}).             *)

AssertBoth == /\ wrst' = TRUE /\ rrst' = TRUE
              /\ wclr' = FALSE /\ rclr' = FALSE
              /\ UNCHANGED <<writeVars, readVars>>

ReleaseReadEarly == rrst
ReleaseReadReady == rrst /\ wclr /\ rclr

ReleaseRead == /\ ReleaseReadReady
               /\ rrst' = FALSE
               /\ UNCHANGED <<wrst, wclr, rclr, writeVars, readVars>>

ReleaseWrite == /\ wrst /\ ~rrst
                /\ wrst' = FALSE
                /\ UNCHANGED <<rrst, wclr, rclr, writeVars, readVars>>

(* SAFE_RESETS = 1: the two reset inputs are used as they come.  The       *)
(* formatter and the packetizers connect proc_rst and the ATB reset, which *)
(* an integrator may drive independently.                                  *)

AssertWrite == /\ ~wrst /\ wrst' = TRUE /\ wclr' = FALSE
               /\ UNCHANGED <<rrst, rclr, writeVars, readVars>>
AssertRead  == /\ ~rrst /\ rrst' = TRUE /\ rclr' = FALSE
               /\ UNCHANGED <<wrst, wclr, writeVars, readVars>>
DropWrite   == /\ wrst /\ wclr /\ wrst' = FALSE
               /\ UNCHANGED <<rrst, wclr, rclr, writeVars, readVars>>
DropRead    == /\ rrst /\ rclr /\ rrst' = FALSE
               /\ UNCHANGED <<wrst, wclr, rclr, writeVars, readVars>>

-----------------------------------------------------------------------------
Clocks == \/ \E wr \in BOOLEAN, v \in Data : WriteEdge(wr, v)
          \/ WriteResetEdge
          \/ \E ack \in BOOLEAN : ReadEdge(ack)
          \/ ReadResetEdge

CrossedResets     == AssertBoth \/ ReleaseRead \/ ReleaseWrite
IndependentResets == AssertWrite \/ AssertRead \/ DropWrite \/ DropRead

Next            == Clocks \/ CrossedResets
NextIndependent == Clocks \/ IndependentResets

\* Both clocks run, the sink accepts again and again, a reset ends.
Fairness == /\ WF_vars(\E wr \in BOOLEAN, v \in Data : WriteEdge(wr, v))
            /\ WF_vars(ReadEdge(TRUE))
            /\ WF_vars(WriteResetEdge) /\ WF_vars(ReadResetEdge)
            /\ WF_vars(ReleaseRead) /\ WF_vars(ReleaseWrite)

Spec            == Init /\ [][Next]_vars
FairSpec        == Spec /\ Fairness
SpecIndependent == Init /\ [][NextIndependent]_vars

-----------------------------------------------------------------------------
\* The always_comb assertion of the source: the space shown to the source and
\* the words shown to the sink never exceed the memory together, however
\* stale the two synchronized pointers are.
CapacityNotExceeded == ~wrst /\ ~rrst => Space + Avail <= Depth

\* A write never reaches a word that was not read: the pointers stay within
\* one memory of each other although Full is computed from a stale RPtr.
NoOverrun == ~wrst /\ ~rrst => Dist(rptr, wptr) <= Depth

\* No side passes the other, whatever stale copy of a pointer it decides on.
PointersSound == TypeOK /\ NoOverrun

-----------------------------------------------------------------------------
(* The FIFO as a queue *)

\* The stages that hold a word, and how many of them are closer to the output.
Held == {i \in Stages : vld[i]}
Ahead(i) == Cardinality({j \in Held : j < i})

\* The word k steps behind the read pointer.
Pending(k) == mem[Slot(IF rptr + k < Cycle THEN rptr + k ELSE rptr + k - Cycle)]

\* The words inside: the read-out registers from the output backwards, then
\* the memory from the read to the write pointer.
Inside ==
  LET out == Cardinality(Held) IN
  [n \in 1 .. out + Dist(rptr, wptr) |->
     IF n <= out THEN reg[CHOOSE i \in Held : Ahead(i) = n - 1] ELSE Pending(n - out - 1)]

\* A FIFO under reset promises nothing: what was inside is dropped.
Abstract == INSTANCE StreamFifo WITH
              queue <- IF wrst \/ rrst THEN <<>> ELSE Inside,
              Capacity <- Depth + Latency

\* Order, loss, duplication: words leave as they were accepted although each
\* side decides on a stale copy of the other side's pointer.
ImplementsFifo == Abstract!FifoInit /\ [][Abstract!FifoNext]_(Abstract!fifoVars)
=============================================================================
