----------------------------- MODULE Fifo2clkMC -----------------------------
(***************************************************************************)
(* The dual-clock FIFO on bounded data: its Gray-coded pointers bit by     *)
(* bit, and its progress.                                                  *)
(***************************************************************************)
EXTENDS Fifo2clk

-----------------------------------------------------------------------------
(* The code of the pointers, for 2^w words of memory                       *)

Bit(n, k) == (n \div 2^k) % 2 = 1

\* bin2gray over w + 1 bits: a pointer of a FIFO with 2^w words.
Gray(n, w) == [k \in 0 .. w |-> Bit(n, k) # Bit(n, k + 1)]

\* gray2bin: from the top bit down.
Binary(g, w) ==
  LET r[k \in 0 .. w] == IF k = w THEN g[w] ELSE r[k + 1] # g[k]
      value[k \in 0 .. w] ==
        (IF k = 0 THEN 0 ELSE value[k - 1]) + (IF r[k] THEN 2^k ELSE 0)
  IN value[w]

\* What WPtr is compared with for Full: RPtr with its top two bits inverted.
FullImage(g, w) == [k \in 0 .. w |-> IF k >= w - 1 THEN ~g[k] ELSE g[k]]

\* The memory address: the top two bits joined by XOR, the rest as it is.
AddressLowBits(g, w) == [k \in 0 .. w - 1 |-> g[k]]  \* seeded fault: without the XOR
Address(g, w) ==
  [k \in 0 .. w - 1 |-> IF k = w - 1 THEN g[w] # g[w - 1] ELSE g[k]]

-----------------------------------------------------------------------------
(* Properties *)

\* fifo2clk_fwft.sv:107-113: on the codes themselves, every step changes one
\* bit, the full comparison and the memory address mean what Opposite and Slot
\* say, and the two reported capacities are the distances of the positions.
GrayPointers ==
  LET w == CHOOSE n \in 2 .. Depth : 2^n = Depth
      g(p) == Gray(p, w)
      ahead == FullImage(g(rsync[1]), w)
      Apart(high, low) == (Binary(high, w) - Binary(low, w)) % Cycle
  IN /\ \A p \in {wptr, rptr} : Cardinality({k \in 0 .. w : g(p)[k] # g(Succ(p))[k]}) = 1
     /\ g(wptr) = ahead <=> wptr = Opposite(rsync[1])
     /\ Address(g(wptr), w) = Address(g(rptr), w) <=> Slot(wptr) = Slot(rptr)
     /\ Apart(ahead, g(wptr)) = Space /\ Apart(g(wsync[1]), g(rptr)) = Avail

\* Progress past the stale pointers: while the sink accepts, the word at the
\* read pointer leaves the memory unless a reset intervenes.
MemoryDrains == \A p \in Ptr : (rptr = p /\ wptr # p) ~> (rptr # p \/ rrst)

\* A source is not refused for ever: full is withdrawn once the sink drains.
FullEnds == full ~> (~full \/ wrst)

\* The promise in time: the memory empties towards a willing sink and takes again
\* from a waiting source.
FifoServes == MemoryDrains /\ FullEnds
=============================================================================
