--------------------------- MODULE Fifo2clkProofs ---------------------------
(***************************************************************************)
(* The dual-clock FIFO is safe for every depth and every read-out latency. *)
(*                                                                         *)
(* Measured from the oldest copy of the read pointer, the six pointers the *)
(* two sides hold are always in the order in which they were copied:       *)
(*                                                                         *)
(*   rsync[1] <= rsync[2] <= rptr <= wsync[1] <= wsync[2] <= wptr          *)
(*                                                                         *)
(* and the whole span is at most Depth.  Under a crossed reset the order   *)
(* is suspended until both sides were cleared, and is restored at zero.    *)
(***************************************************************************)
EXTENDS Fifo2clk, FiniteSetTheorems, SequenceTheorems, TLAPS

Chain ==
  /\ Dist(rsync[1], rsync[2]) <= Dist(rsync[1], rptr)
  /\ Dist(rsync[1], rptr) <= Dist(rsync[1], wsync[1])
  /\ Dist(rsync[1], wsync[1]) <= Dist(rsync[1], wsync[2])
  /\ Dist(rsync[1], wsync[2]) <= Dist(rsync[1], wptr)
  /\ Dist(rsync[1], wptr) <= Depth
  /\ ~full => Dist(rsync[1], wptr) < Depth
  /\ ~empty => rptr # wsync[1]

PtrTypeOK ==
  /\ wrst \in BOOLEAN /\ rrst \in BOOLEAN /\ wclr \in BOOLEAN /\ rclr \in BOOLEAN
  /\ full \in BOOLEAN /\ empty \in BOOLEAN
  /\ wptr \in Ptr /\ rptr \in Ptr
  /\ rsync = <<rsync[1], rsync[2]>> /\ rsync[1] \in Ptr /\ rsync[2] \in Ptr
  /\ wsync = <<wsync[1], wsync[2]>> /\ wsync[1] \in Ptr /\ wsync[2] \in Ptr

WriteCleared == wptr = 0 /\ rsync = <<0, 0>> /\ full
ReadCleared  == rptr = 0 /\ wsync = <<0, 0>> /\ empty

Clearing == wrst /\ rrst /\ ~(wclr /\ rclr)

IInv == /\ PtrTypeOK
        /\ rrst => wrst
        /\ wrst /\ ~rrst => wclr
        /\ wrst /\ wclr => WriteCleared
        /\ rrst /\ rclr => ReadCleared
        /\ Clearing \/ Chain

\* The power-up state satisfies the inductive invariant.
LEMMA InitIInv == Init => IInv
<1> SUFFICES ASSUME Init PROVE IInv
  OBVIOUS
<1>1. /\ wptr = 0 /\ rptr = 0 /\ rsync = <<0, 0>> /\ wsync = <<0, 0>>
      /\ wrst = FALSE /\ rrst = FALSE /\ wclr = FALSE /\ rclr = FALSE
      /\ full = TRUE /\ empty = TRUE
  BY DEF Init
<1>2. PtrTypeOK
  <2>1. rsync[1] = 0 /\ rsync[2] = 0 /\ wsync[1] = 0 /\ wsync[2] = 0
    BY <1>1
  <2>2. rsync = <<rsync[1], rsync[2]>> /\ wsync = <<wsync[1], wsync[2]>>
    BY <1>1, <2>1, Zenon
  <2>3. 0 \in Ptr
    BY Fifo2clkAssumption DEF Ptr, Cycle
  <2> QED
    BY <1>1, <2>1, <2>2, <2>3, Zenon DEF PtrTypeOK
<1>3. Chain
  BY <1>1, Fifo2clkAssumption DEF Chain, Dist, Cycle
<1> QED
  BY <1>1, <1>2, <1>3 DEF IInv

\* A write-side clock edge keeps the order: the new write pointer is at most
\* one further, and only when the stale read pointer leaves room.
LEMMA WriteStep ==
  ASSUME IInv, NEW wr \in BOOLEAN, NEW v \in Data, WriteEdge(wr, v)
  PROVE  IInv'
<1> USE Fifo2clkAssumption
<1>1. ~wrst /\ ~rrst /\ Chain /\ PtrTypeOK
  BY DEF IInv, WriteEdge, Clearing
<1>2. /\ rsync' = <<rsync[2], rptr>>
      /\ UNCHANGED <<wrst, rrst, wclr, rclr, rptr, wsync, empty>>
  BY DEF WriteEdge, resetVars, readVars
<1>3. /\ wptr' = (IF wr /\ ~full THEN Succ(wptr) ELSE wptr)
      /\ full' = ((IF wr /\ ~full THEN Succ(wptr) ELSE wptr) = Opposite(rsync[1]))
  BY DEF WriteEdge, WriteEnable, FullNext
<1>4. rsync'[1] = rsync[2] /\ rsync'[2] = rptr
  BY <1>2
<1>5. PtrTypeOK'
  BY <1>1, <1>2, <1>3, <1>4 DEF PtrTypeOK, Ptr, Cycle, Succ
<1>6. Chain'
  BY <1>1, <1>2, <1>3, <1>4
  DEF Chain, PtrTypeOK, Ptr, Cycle, Succ, Opposite, Dist
<1> QED
  BY <1>1, <1>2, <1>5, <1>6 DEF IInv

\* A read-side clock edge keeps the order: the read pointer moves only below
\* the stale write pointer.
LEMMA ReadStep ==
  ASSUME IInv, NEW ack \in BOOLEAN, ReadEdge(ack)
  PROVE  IInv'
<1> USE Fifo2clkAssumption
<1> DEFINE re == ReadEnable(ack)
<1>1. ~rrst /\ Chain /\ PtrTypeOK
  BY DEF IInv, ReadEdge, Clearing
<1>2. /\ wsync' = <<wsync[2], wptr>>
      /\ UNCHANGED <<wrst, rrst, wclr, rclr, wptr, rsync, full>>
  BY DEF ReadEdge, resetVars, writeVars
<1>3. /\ rptr' = (IF re THEN Succ(rptr) ELSE rptr)
      /\ empty' = ((IF re THEN Succ(rptr) ELSE rptr) = wsync[1])
  BY DEF ReadEdge, EmptyNext
<1>4. re \in BOOLEAN /\ (re => ~empty)
  BY DEF ReadEnable
<1>5. wsync'[1] = wsync[2] /\ wsync'[2] = wptr
  BY <1>2
<1> HIDE DEF re
<1>6. PtrTypeOK'
  BY <1>1, <1>2, <1>3, <1>4, <1>5 DEF PtrTypeOK, Ptr, Cycle, Succ
<1>7. Chain'
  BY <1>1, <1>2, <1>3, <1>4, <1>5
  DEF Chain, PtrTypeOK, Ptr, Cycle, Succ, Dist
<1> QED
  BY <1>1, <1>2, <1>6, <1>7 DEF IInv, WriteCleared

\* A reset edge clears its side; when the second side is cleared the order is
\* restored with every pointer at zero.
LEMMA ResetEdgeStep ==
  ASSUME IInv, WriteResetEdge \/ ReadResetEdge
  PROVE  IInv'
<1> USE Fifo2clkAssumption
<1>1. CASE WriteResetEdge
  <2>1. /\ wrst /\ wclr' = TRUE /\ WriteCleared'
        /\ UNCHANGED <<wrst, rrst, rclr, rptr, wsync, empty>>
    BY <1>1 DEF WriteResetEdge, ClearedRsync, WriteCleared, readVars
  <2>2. PtrTypeOK'
    BY <2>1 DEF IInv, PtrTypeOK, WriteCleared, Ptr, Cycle
  <2>3. Clearing' \/ Chain'
    <3>1. CASE rrst /\ ~rclr
      BY <2>1, <3>1 DEF Clearing
    <3>2. CASE rrst /\ rclr
      BY <2>1, <3>2 DEF IInv, ReadCleared, WriteCleared, Chain, Dist, Ptr, Cycle
    <3>3. CASE ~rrst
      BY <2>1, <3>3 DEF IInv, Clearing, WriteCleared, Chain
    <3> QED BY <3>1, <3>2, <3>3 DEF IInv, PtrTypeOK
  <2> QED BY <2>1, <2>2, <2>3 DEF IInv, ReadCleared
<1>2. CASE ReadResetEdge
  <2>1. /\ rrst /\ rclr' = TRUE /\ ReadCleared'
        /\ UNCHANGED <<wrst, rrst, wclr, wptr, rsync, full>>
    BY <1>2 DEF ReadResetEdge, ReadCleared, writeVars
  <2>2. PtrTypeOK'
    BY <2>1 DEF IInv, PtrTypeOK, ReadCleared, Ptr, Cycle
  <2>3. Clearing' \/ Chain'
    BY <2>1 DEF IInv, Clearing, ReadCleared, WriteCleared, Chain, Dist, Ptr, Cycle
  <2> QED BY <2>1, <2>2, <2>3 DEF IInv, WriteCleared
<1> QED BY <1>1, <1>2

\* The crossed resets raise both sides together and release them only when
\* both were cleared.
LEMMA CrossedResetStep ==
  ASSUME IInv, CrossedResets
  PROVE  IInv'
<1>1. UNCHANGED <<wptr, rsync, full, rptr, wsync, empty>>
  BY DEF CrossedResets, AssertBoth, ReleaseRead, ReleaseWrite, writeVars, readVars
<1>2. Chain' = Chain /\ WriteCleared' = WriteCleared /\ ReadCleared' = ReadCleared
  BY <1>1 DEF Chain, WriteCleared, ReadCleared
<1>3. CASE AssertBoth
  BY <1>1, <1>3 DEF IInv, AssertBoth, PtrTypeOK, Clearing
<1>4. CASE ReleaseRead
  BY <1>1, <1>2, <1>4 DEF IInv, ReleaseRead, ReleaseReadReady, PtrTypeOK, Clearing
<1>5. CASE ReleaseWrite
  BY <1>1, <1>2, <1>5 DEF IInv, ReleaseWrite, PtrTypeOK, Clearing
<1> QED BY <1>3, <1>4, <1>5 DEF CrossedResets

\* The inductive invariant is kept by every step.
LEMMA NextIInv == IInv /\ [Next]_vars => IInv'
<1> SUFFICES ASSUME IInv, [Next]_vars PROVE IInv'
  OBVIOUS
<1>1. CASE \E wr \in BOOLEAN, v \in Data : WriteEdge(wr, v)
  BY <1>1, WriteStep
<1>2. CASE \E ack \in BOOLEAN : ReadEdge(ack)
  BY <1>2, ReadStep
<1>3. CASE WriteResetEdge \/ ReadResetEdge
  BY <1>3, ResetEdgeStep
<1>4. CASE CrossedResets
  BY <1>4, CrossedResetStep
<1>5. CASE UNCHANGED vars
  BY <1>5 DEF IInv, PtrTypeOK, Chain, WriteCleared, ReadCleared, Clearing,
     vars, resetVars, writeVars, readVars
<1> QED BY <1>1, <1>2, <1>3, <1>4, <1>5 DEF Next, Clocks

\* In every reachable state the copied pointers are in order within Depth.
THEOREM Fifo2clkInvariant == Spec => []IInv
  BY InitIInv, NextIInv, PTL DEF Spec

\* The capacity assertion of fifo2clk_fwft holds for every depth.
THEOREM CapacityTheorem == Spec => []CapacityNotExceeded
<1>1. IInv => CapacityNotExceeded
  BY Fifo2clkAssumption
  DEF IInv, Clearing, Chain, PtrTypeOK, CapacityNotExceeded, Space, Avail,
      Opposite, Dist, Ptr, Cycle
<1> QED BY <1>1, Fifo2clkInvariant, PTL

\* A write never overtakes the read pointer, for every depth.
THEOREM NoOverrunTheorem == Spec => []NoOverrun
<1>1. IInv => NoOverrun
  BY Fifo2clkAssumption
  DEF IInv, Clearing, Chain, PtrTypeOK, NoOverrun, Dist, Ptr, Cycle
<1> QED BY <1>1, Fifo2clkInvariant, PTL

-----------------------------------------------------------------------------
(* The queue: the stages that hold a word, ranked from the output, and the *)
(* words of the memory behind them.                                        *)

Lower(S, i) == {j \in S : j < i}
Rank(S, i) == Cardinality(Lower(S, i))
\* r is read at the ranked elements of S, then t from 1 to m.
Row(S, r, t, m) ==
  [n \in 1 .. Cardinality(S) + m |->
     IF n <= Cardinality(S) THEN r[CHOOSE i \in S : Rank(S, i) = n - 1] ELSE t[n - Cardinality(S)]]

\* Ranks count from 0, and a larger element has a larger rank.
LEMMA RankRange ==
  ASSUME NEW S \in SUBSET Nat, IsFiniteSet(S), NEW i \in S
  PROVE  /\ Rank(S, i) \in 0 .. Cardinality(S) - 1
         /\ IsFiniteSet(Lower(S, i))
         /\ Cardinality(S) \in Nat
         /\ \A k \in S : i < k => Rank(S, i) < Rank(S, k)
<1>1. /\ IsFiniteSet(Lower(S, i)) /\ Cardinality(Lower(S, i)) \in Nat /\ Cardinality(S) \in Nat
      /\ Cardinality(Lower(S, i)) <= Cardinality(S)
      /\ Cardinality(S) = Cardinality(Lower(S, i)) => S = Lower(S, i)
  <2>1. Lower(S, i) \in SUBSET S
    BY DEF Lower
  <2> QED BY <2>1, FS_Subset, FS_CardinalityType
<1>2. i \in S /\ i \notin Lower(S, i)
  BY DEF Lower
<1>3. ASSUME NEW k \in S, i < k
      PROVE  Rank(S, i) < Rank(S, k)
  <2>1. Lower(S, k) \in SUBSET S /\ Lower(S, i) \in SUBSET Lower(S, k) /\ i \in Lower(S, k)
    <3>1. \A j \in S : j \in Nat /\ (j < i => j < k)
      BY <1>3
    <3> QED BY <1>3, <3>1 DEF Lower
  <2>2. IsFiniteSet(Lower(S, k)) /\ Cardinality(Lower(S, k)) \in Nat
    BY <2>1, FS_Subset, FS_CardinalityType
  <2>3. /\ Cardinality(Lower(S, i)) <= Cardinality(Lower(S, k))
        /\ Cardinality(Lower(S, k)) = Cardinality(Lower(S, i)) => Lower(S, k) = Lower(S, i)
    BY <2>1, <2>2, FS_Subset
  <2> QED BY <1>1, <1>2, <2>1, <2>2, <2>3 DEF Rank
<1> QED BY <1>1, <1>2, <1>3 DEF Rank

\* Every rank is taken: ranks are an injection into as many numbers.
LEMMA RankTaken ==
  ASSUME NEW S \in SUBSET Nat, IsFiniteSet(S), NEW n \in 1 .. Cardinality(S)
  PROVE  \E i \in S : Rank(S, i) = n - 1
<1> DEFINE c == Cardinality(S)
           f == [i \in S |-> Rank(S, i)]
<1>1. c \in Nat
  BY FS_CardinalityType
<1>2. f \in [S -> 0 .. c - 1]
  BY RankRange
<1>3. \A i, k \in S : f[i] = f[k] => i = k
  <2>1. ASSUME NEW i \in S, NEW k \in S, f[i] = f[k], i # k
        PROVE  FALSE
    <3>1. i \in Nat /\ k \in Nat /\ (i < k \/ k < i)
      BY <2>1
    <3>2. Rank(S, i) = Rank(S, k)
      BY <2>1
    <3>3. Rank(S, i) \in 0 .. c - 1 /\ Rank(S, k) \in 0 .. c - 1
      BY RankRange
    <3>4. (i < k => Rank(S, i) < Rank(S, k)) /\ (k < i => Rank(S, k) < Rank(S, i))
      BY RankRange
    <3> QED BY <1>1, <3>1, <3>2, <3>3, <3>4
  <2> QED BY <2>1
<1>4. f \in Injection(S, 0 .. c - 1)
  BY <1>2, <1>3 DEF Injection, IsInjective
<1>5. IsFiniteSet(0 .. c - 1) /\ Cardinality(0 .. c - 1) = c
  <2>1. 0 \in Int /\ c - 1 \in Int /\ c > 0
    BY <1>1
  <2>2. /\ IsFiniteSet(0 .. c - 1)
        /\ Cardinality(0 .. c - 1) = IF 0 > c - 1 THEN 0 ELSE (c - 1) - 0 + 1
    BY <2>1, FS_Interval
  <2> QED BY <1>1, <2>1, <2>2
<1>6. f \in Surjection(S, 0 .. c - 1)
  BY <1>4, <1>5, FS_Injection
<1>7. n - 1 \in 0 .. c - 1
  BY <1>1
<1>8. \E i \in S : f[i] = n - 1
  BY <1>6, <1>7, Zenon DEF Surjection
<1> QED BY <1>8

\* What stands where in a row.
LEMMA RowAt ==
  ASSUME NEW S \in SUBSET Nat, IsFiniteSet(S), NEW r, NEW t, NEW m \in Nat
  PROVE  /\ Cardinality(S) \in Nat
         /\ \A i \in S : Rank(S, i) + 1 \in 1 .. Cardinality(S) /\ Row(S, r, t, m)[Rank(S, i) + 1] = r[i]
         /\ \A k \in 1 .. m : Row(S, r, t, m)[Cardinality(S) + k] = t[k]
<1>1. Cardinality(S) \in Nat
  BY FS_CardinalityType
<1>2. ASSUME NEW i \in S
      PROVE  Rank(S, i) + 1 \in 1 .. Cardinality(S) /\ Row(S, r, t, m)[Rank(S, i) + 1] = r[i]
  <2> DEFINE n == Rank(S, i) + 1
             h == CHOOSE k \in S : Rank(S, k) = n - 1
  <2>1. Rank(S, i) \in 0 .. Cardinality(S) - 1
    BY RankRange
  <2>2. n \in 1 .. Cardinality(S) /\ Rank(S, i) = n - 1
    BY <1>1, <2>1
  <2>3. h \in S /\ Rank(S, h) = n - 1
    BY <2>2
  <2>4. h = i
    <3>1. (h < i => Rank(S, h) < Rank(S, i)) /\ (i < h => Rank(S, i) < Rank(S, h))
      BY <2>3, RankRange
    <3>2. Rank(S, h) = Rank(S, i) /\ Rank(S, i) \in Nat
      BY <2>1, <2>2, <2>3
    <3> QED BY <2>3, <3>1, <3>2
  <2>5. n \in 1 .. Cardinality(S) + m
    BY <1>1, <2>2
  <2>6. Row(S, r, t, m)[n] = r[h]
    BY <2>2, <2>5 DEF Row
  <2> QED BY <2>2, <2>4, <2>6
<1>3. ASSUME NEW k \in 1 .. m
      PROVE  Row(S, r, t, m)[Cardinality(S) + k] = t[k]
  <2> DEFINE c == Cardinality(S)
             n == c + k
  <2>1. n \in 1 .. c + m /\ ~(n <= c) /\ n - c = k
    BY <1>1
  <2> HIDE DEF n
  <2>2. Row(S, r, t, m)[n] = t[n - c]
    BY <2>1 DEF Row
  <2> QED BY <2>1, <2>2 DEF n
<1> QED BY <1>1, <1>2, <1>3

\* Nothing else stands in it: a sequence of that length which agrees at the
\* ranks and behind them is the row.
IsRow(q, S, r, t, m, c) ==
  /\ S \in SUBSET Nat /\ IsFiniteSet(S) /\ m \in Nat /\ c \in Nat /\ c = Cardinality(S)
  /\ q = [n \in 1 .. c + m |-> q[n]]
  /\ \A i \in S : q[Rank(S, i) + 1] = r[i]
  /\ \A k \in 1 .. m : q[c + k] = t[k]

LEMMA RowIs ==
  ASSUME NEW q, NEW S, NEW r, NEW t, NEW m, NEW c, IsRow(q, S, r, t, m, c)
  PROVE  q = Row(S, r, t, m)
<1>0. /\ S \in SUBSET Nat /\ IsFiniteSet(S) /\ m \in Nat /\ c \in Nat /\ c = Cardinality(S)
      /\ q = [n \in 1 .. c + m |-> q[n]]
      /\ \A i \in S : q[Rank(S, i) + 1] = r[i]
      /\ \A k \in 1 .. m : q[c + k] = t[k]
  BY DEF IsRow
<1> DEFINE w == Row(S, r, t, m)
<1>1. w = [n \in 1 .. c + m |-> w[n]]
  BY <1>0 DEF Row
<1>2. ASSUME NEW n \in 1 .. c + m
      PROVE  q[n] = w[n]
  <2>1. CASE n <= c
    <3>1. PICK i \in S : Rank(S, i) = n - 1
      BY <1>0, <2>1, RankTaken
    <3>2. Rank(S, i) + 1 = n
      BY <1>0, <3>1
    <3>3. w[Rank(S, i) + 1] = r[i]
      BY <1>0, RowAt
    <3> QED BY <1>0, <3>2, <3>3
  <2>2. CASE ~(n <= c)
    <3>1. n - c \in 1 .. m /\ c + (n - c) = n
      BY <1>0, <2>2
    <3>2. w[Cardinality(S) + (n - c)] = t[n - c]
      BY <1>0, <3>1, RowAt
    <3>3. q[c + (n - c)] = t[n - c]
      BY <1>0, <3>1
    <3> QED BY <1>0, <3>1, <3>2, <3>3
  <2> QED BY <2>1, <2>2
<1> HIDE DEF w
<1> QED
  BY <1>0, <1>1, <1>2, Zenon DEF w

\* A one-to-one correspondence keeps the size of a finite set.
LEMMA SameSize ==
  ASSUME NEW S, IsFiniteSet(S), NEW T, NEW f \in [S -> T],
         \A i, k \in S : f[i] = f[k] => i = k,
         \A y \in T : \E i \in S : f[i] = y
  PROVE  IsFiniteSet(T) /\ Cardinality(T) = Cardinality(S)
<1>1. f \in Bijection(S, T)
  BY DEF Bijection, Injection, IsInjective, Surjection
<1>2. ExistsBijection(S, T)
  BY <1>1 DEF ExistsBijection
<1> QED BY <1>2, FS_Bijection

\* The first k words of q behind its first; the first k words of q with v behind them.
Dropped(q, k) == [n \in 1 .. k |-> q[n + 1]]
Added(q, k, v) == [n \in 1 .. k + 1 |-> IF n <= k THEN q[n] ELSE v]

\* Without its first element the row starts one later.
LEMMA RowTail ==
  ASSUME NEW S \in SUBSET Nat, IsFiniteSet(S), 0 \in S, NEW r, NEW t, NEW m \in Nat,
         NEW c \in Nat, c = Cardinality(S), NEW R, R = S \ {0}
  PROVE  /\ c > 0 /\ Row(S, r, t, m)[1] = r[0] /\ Cardinality(R) = c - 1
         /\ Row(R, r, t, m) = Dropped(Row(S, r, t, m), c - 1 + m)
<1>0. \A n \in 1 .. m : Row(S, r, t, m)[c + n] = t[n]
  <2>1. \A n \in 1 .. m : Row(S, r, t, m)[Cardinality(S) + n] = t[n]
    BY ONLY RowAt, S \in SUBSET Nat, IsFiniteSet(S), m \in Nat
  <2> QED BY <2>1
<1> DEFINE w == Row(S, r, t, m)
           q == [n \in 1 .. c - 1 + m |-> w[n + 1]]
<1>1. IsFiniteSet(R) /\ Cardinality(R) = c - 1 /\ R \in SUBSET Nat
  BY FS_RemoveElement
<1>2. c > 0 /\ c - 1 \in Nat
  <2>1. Rank(S, 0) \in 0 .. c - 1
    BY RankRange
  <2> QED BY <2>1
<1>3. w[1] = r[0]
  <2>1. Lower(S, 0) = {}
    <3>1. \A j \in S : j \in Nat /\ ~(j < 0)
      OBVIOUS
    <3> QED BY <3>1 DEF Lower
  <2>2. Rank(S, 0) = 0
    BY <2>1, FS_EmptySet DEF Rank
  <2>3. w[Rank(S, 0) + 1] = r[0]
    BY RowAt
  <2> QED BY <2>2, <2>3
<1>4. ASSUME NEW i \in R
      PROVE  q[Rank(R, i) + 1] = r[i]
  <2>1. i \in S /\ 0 \in Lower(S, i) /\ Lower(R, i) = Lower(S, i) \ {0}
    BY DEF Lower
  <2>2. IsFiniteSet(Lower(S, i)) /\ Rank(S, i) \in 0 .. c - 1
    BY <2>1, RankRange
  <2>3. Rank(R, i) = Rank(S, i) - 1
    <3>1. Cardinality(Lower(S, i) \ {0}) = IF 0 \in Lower(S, i) THEN Cardinality(Lower(S, i)) - 1
                                                               ELSE Cardinality(Lower(S, i))
      BY <2>2, FS_RemoveElement
    <3> QED BY <2>1, <3>1 DEF Rank
  <2>4. w[Rank(S, i) + 1] = r[i]
    BY <2>1, RowAt
  <2>5. Rank(R, i) \in 0 .. c - 1 - 1
    BY <1>1, RankRange
  <2>6. Rank(R, i) + 1 \in 1 .. c - 1 + m
    BY <1>2, <2>5
  <2>7. q[Rank(R, i) + 1] = w[(Rank(R, i) + 1) + 1]
    BY <2>6
  <2> QED BY <2>2, <2>3, <2>4, <2>7
<1>5. ASSUME NEW k \in 1 .. m
      PROVE  q[c - 1 + k] = t[k]
  <2>1. w[c + k] = t[k]
    BY <1>0
  <2>2. c - 1 + k \in 1 .. c - 1 + m /\ (c - 1 + k) + 1 = c + k
    BY <1>2
  <2>3. q[c - 1 + k] = w[(c - 1 + k) + 1]
    BY <2>2
  <2> QED BY <2>1, <2>2, <2>3
<1>6. q = [n \in 1 .. c - 1 + m |-> q[n]]
  OBVIOUS
<1> HIDE DEF w, q
<1>7. q = Row(R, r, t, m)
  <2>1. IsRow(q, R, r, t, m, c - 1)
    BY <1>1, <1>2, <1>4, <1>5, <1>6 DEF IsRow
  <2> QED BY <2>1, RowIs
<1> QED BY <1>1, <1>2, <1>3, <1>7 DEF w, q, Dropped

\* Moving the elements without changing their order leaves the row alone.
IsMove(S, r, R, r2, f) ==
  /\ S \in SUBSET Nat /\ IsFiniteSet(S) /\ f \in [S -> Nat] /\ R = {f[i] : i \in S}
  /\ \A i, k \in S : i < k => f[i] < f[k]
  /\ \A i \in S : r2[f[i]] = r[i]

LEMMA RowMoved ==
  ASSUME NEW S, NEW r, NEW R, NEW r2, NEW f, IsMove(S, r, R, r2, f), NEW t, NEW m \in Nat
  PROVE  /\ IsFiniteSet(R) /\ Cardinality(R) = Cardinality(S)
         /\ Row(R, r2, t, m) = Row(S, r, t, m)
<1> DEFINE c == Cardinality(S)
           w == Row(S, r, t, m)
<1> S \in SUBSET Nat /\ IsFiniteSet(S) /\ f \in [S -> Nat] /\ R = {f[i] : i \in S}
  BY DEF IsMove
<1>0. /\ \A i, k \in S : i < k => f[i] < f[k]
      /\ \A i \in S : r2[f[i]] = r[i]
  BY DEF IsMove
<1>1. c \in Nat /\ R \in SUBSET Nat
  BY FS_CardinalityType
<1>2. \A i, k \in S : (f[i] < f[k] => i < k) /\ (f[i] = f[k] => i = k)
  <2>1. \A i \in S : i \in Nat /\ f[i] \in Nat
    OBVIOUS
  <2>2. ASSUME NEW i \in S, NEW k \in S
        PROVE  (f[i] < f[k] => i < k) /\ (f[i] = f[k] => i = k)
    <3>1. i \in Nat /\ k \in Nat /\ f[i] \in Nat /\ f[k] \in Nat
      BY <2>1
    <3>2. (i < k => f[i] < f[k]) /\ (k < i => f[k] < f[i])
      BY <1>0
    <3> QED BY <3>1, <3>2
  <2> QED BY <2>2
<1>3. IsFiniteSet(R) /\ Cardinality(R) = c
  <2>1. f \in [S -> R] /\ \A y \in R : \E i \in S : f[i] = y
    OBVIOUS
  <2>2. \A i, k \in S : f[i] = f[k] => i = k
    BY <1>2
  <2>3. IsFiniteSet(R) /\ Cardinality(R) = Cardinality(S)
    BY <2>1, <2>2, SameSize, Zenon
  <2> QED BY <2>3
<1>4. ASSUME NEW i \in S
      PROVE  Rank(R, f[i]) = Rank(S, i)
  <2> DEFINE L == Lower(S, i)
             g == [j \in L |-> f[j]]
  <2>1. IsFiniteSet(L)
    BY RankRange
  <2>2. g \in [L -> Lower(R, f[i])]
    <3>1. \A j \in L : j \in S /\ f[j] \in R /\ f[j] < f[i]
      BY <1>0 DEF Lower
    <3> QED BY <1>0, <3>1 DEF Lower
  <2>3. \A y \in Lower(R, f[i]) : \E j \in L : g[j] = y
    <3>1. ASSUME NEW y \in Lower(R, f[i]) PROVE \E j \in L : g[j] = y
      <4>1. y \in R /\ y < f[i]
        BY DEF Lower
      <4>2. PICK j \in S : f[j] = y
        BY <4>1
      <4>3. j \in L
        BY <1>2, <4>1, <4>2 DEF Lower
      <4> QED BY <4>2, <4>3
    <3> QED BY <3>1
  <2>4. \A j, k \in L : g[j] = g[k] => j = k
    BY <1>2 DEF Lower
  <2> HIDE DEF L, g
  <2>5. Cardinality(Lower(R, f[i])) = Cardinality(L)
    BY <2>1, <2>2, <2>3, <2>4, SameSize
  <2> QED BY <2>5 DEF Rank, L
<1>5. \A y \in R : w[Rank(R, y) + 1] = r2[y]
  <2>1. ASSUME NEW y \in R PROVE w[Rank(R, y) + 1] = r2[y]
    <3>1. PICK i \in S : y = f[i]
      OBVIOUS
    <3>2. w[Rank(S, i) + 1] = r[i]
      BY RowAt
    <3> QED BY <1>0, <1>4, <3>1, <3>2
  <2> QED BY <2>1
<1>6. \A k \in 1 .. m : w[c + k] = t[k]
  BY RowAt
<1>7. w = [n \in 1 .. c + m |-> w[n]]
  BY DEF Row
<1> HIDE DEF w, c
<1>8. w = Row(R, r2, t, m)
  <2>1. IsRow(w, R, r2, t, m, c)
    BY <1>1, <1>3, <1>5, <1>6, <1>7 DEF IsRow
  <2> QED BY <2>1, RowIs
<1> QED BY <1>3, <1>8 DEF w, c

\* The first word behind may join at the end.
IsFetch(S, r, t, m, t2, top) ==
  /\ S \in SUBSET Nat /\ IsFiniteSet(S) /\ m \in Nat /\ m > 0 /\ top \in Nat
  /\ \A i \in S : i < top
  /\ r[top] = t[1]
  /\ \A k \in 1 .. m - 1 : t2[k] = t[k + 1]

LEMMA RowFetch ==
  ASSUME NEW S, NEW r, NEW t, NEW m, NEW t2, NEW top, IsFetch(S, r, t, m, t2, top),
         NEW R, R = S \cup {top}
  PROVE  /\ IsFiniteSet(R) /\ Cardinality(R) = Cardinality(S) + 1
         /\ Row(R, r, t2, m - 1) = Row(S, r, t, m)
<1> DEFINE c == Cardinality(S)
           w == Row(S, r, t, m)
<1> /\ S \in SUBSET Nat /\ IsFiniteSet(S) /\ m \in Nat /\ m > 0 /\ top \in Nat
    /\ \A i \in S : i < top
    /\ r[top] = t[1]
    /\ \A k \in 1 .. m - 1 : t2[k] = t[k + 1]
  BY DEF IsFetch
<1>1. c \in Nat /\ R \in SUBSET Nat /\ top \notin S
  BY FS_CardinalityType
<1>2. IsFiniteSet(R) /\ Cardinality(R) = c + 1
  BY <1>1, FS_AddElement
<1>3. ASSUME NEW i \in S PROVE w[Rank(R, i) + 1] = r[i]
  <2>1. i \in Nat /\ ~(top < i)
    OBVIOUS
  <2>2. Lower(R, i) = Lower(S, i)
    BY <2>1 DEF Lower
  <2>3. w[Rank(S, i) + 1] = r[i]
    BY RowAt
  <2> QED BY <2>2, <2>3 DEF Rank
<1>4. w[Rank(R, top) + 1] = r[top]
  <2>1. ~(top < top)
    OBVIOUS
  <2>2. Lower(R, top) = S
    BY <2>1 DEF Lower
  <2>3. w[c + 1] = t[1]
    <3>1. 1 \in 1 .. m
      OBVIOUS
    <3> QED BY <3>1, RowAt
  <2> QED BY <2>2, <2>3 DEF Rank
<1>5. ASSUME NEW k \in 1 .. m - 1 PROVE w[(c + 1) + k] = t2[k]
  <2>1. k + 1 \in 1 .. m /\ (c + 1) + k = c + (k + 1)
    BY <1>1
  <2>2. w[c + (k + 1)] = t[k + 1]
    BY <2>1, RowAt
  <2> QED BY <2>1, <2>2
<1>6. w = [n \in 1 .. (c + 1) + (m - 1) |-> w[n]]
  <2>1. (c + 1) + (m - 1) = c + m
    BY <1>1
  <2>2. w = [n \in 1 .. c + m |-> w[n]]
    BY DEF Row
  <2> QED BY <2>1, <2>2
<1> HIDE DEF w, c
<1>7. \A i \in R : w[Rank(R, i) + 1] = r[i]
  BY <1>3, <1>4
<1>8. m - 1 \in Nat /\ c + 1 \in Nat
  BY <1>1
<1>9. w = Row(R, r, t2, m - 1)
  <2>1. IsRow(w, R, r, t2, m - 1, c + 1)
    BY <1>1, <1>2, <1>5, <1>6, <1>7, <1>8 DEF IsRow
  <2> QED BY <2>1, RowIs
<1> QED BY <1>2, <1>9 DEF w, c

\* A word that comes last is appended.
LEMMA RowAppend ==
  ASSUME NEW S \in SUBSET Nat, IsFiniteSet(S), NEW r, NEW t, NEW m \in Nat, NEW v,
         NEW t2, \A k \in 1 .. m : t2[k] = t[k], t2[m + 1] = v,
         NEW c \in Nat, c = Cardinality(S)
  PROVE  Row(S, r, t2, m + 1) = Added(Row(S, r, t, m), c + m, v)
<1> DEFINE w == Row(S, r, t, m)
           q == [n \in 1 .. c + m + 1 |-> IF n <= c + m THEN w[n] ELSE v]
<1>1. ASSUME NEW i \in S PROVE q[Rank(S, i) + 1] = r[i]
  <2>1. Rank(S, i) + 1 \in 1 .. c /\ w[Rank(S, i) + 1] = r[i]
    BY RowAt
  <2> DEFINE n == Rank(S, i) + 1
  <2>2. n \in 1 .. c + m + 1 /\ n <= c + m
    BY <2>1
  <2> HIDE DEF n
  <2>3. q[n] = w[n]
    BY <2>2
  <2> QED BY <2>1, <2>3 DEF n
<1>2. ASSUME NEW k \in 1 .. m + 1 PROVE q[c + k] = t2[k]
  <2>1. CASE k \in 1 .. m
    <3>1. w[c + k] = t[k]
      BY <2>1, RowAt
    <3>2. q[c + k] = w[c + k]
      BY <2>1
    <3> QED BY <2>1, <3>1, <3>2
  <2>2. CASE k = m + 1
    BY <2>2
  <2> QED BY <2>1, <2>2
<1>3. q = [n \in 1 .. c + (m + 1) |-> q[n]]
  OBVIOUS
<1> HIDE DEF w, q
<1>4. q = Row(S, r, t2, m + 1)
  <2> DEFINE e == m + 1
  <2>1. e \in Nat
    OBVIOUS
  <2>2. q = [n \in 1 .. c + e |-> q[n]]
    BY <1>3
  <2>3. \A k \in 1 .. e : q[c + k] = t2[k]
    BY <1>2
  <2> HIDE DEF e
  <2>4. IsRow(q, S, r, t2, e, c)
    BY <1>1, <2>1, <2>2, <2>3 DEF IsRow
  <2> QED BY <2>4, RowIs DEF e
<1> QED BY <1>4 DEF w, q, Added

-----------------------------------------------------------------------------
(* The FIFO implements the queue *)

Drained == \A i \in Stages : ~vld[i]

DataTypeOK == /\ mem \in [0 .. Depth - 1 -> Data \cup {Idle}]
              /\ vld \in [Stages -> BOOLEAN]
              /\ reg \in [Stages -> Data \cup {Idle}]
              /\ taken \in Data \cup {Idle}

\* A read side that was cleared stays empty until the write side is released.
QInv == /\ IInv
        /\ DataTypeOK
        /\ wrst /\ (rrst => rclr) => ReadCleared /\ Drained

LEMMA StageRange == /\ Stages \in SUBSET Nat /\ IsFiniteSet(Stages) /\ Cardinality(Stages) = Latency
                    /\ Latency - 1 \in Stages /\ 0 \in Stages
                    /\ \A i \in Stages : i <= Latency - 1 /\ (i # Latency - 1 => i + 1 \in Stages)
<1>1. /\ IsFiniteSet(0 .. Latency - 1)
      /\ Cardinality(0 .. Latency - 1) = IF 0 > Latency - 1 THEN 0 ELSE (Latency - 1) - 0 + 1
  <2>1. 0 \in Int /\ Latency - 1 \in Int
    BY Fifo2clkAssumption
  <2> QED BY <2>1, FS_Interval
<1> QED BY <1>1, Fifo2clkAssumption DEF Stages

\* A read-side edge moves words towards the output and keeps the types.
LEMMA ReadEdgeQ ==
  ASSUME QInv, NEW ack \in BOOLEAN, ReadEdge(ack)
  PROVE  QInv'
<1>1. IInv'
  BY ReadStep DEF QInv
<1>2. /\ mem' = mem /\ UNCHANGED <<wrst, rrst, rclr>> /\ ~rrst
      /\ vld' = [i \in Stages |->
               ~Load(i, ack) \/ IF i = Latency - 1 THEN ~empty ELSE vld[i + 1]]
      /\ reg' = [i \in Stages |->
               IF i = Latency - 1 THEN IF ReadEnable(ack) THEN mem[Slot(rptr)] ELSE reg[i]
                          ELSE IF Load(i, ack) THEN reg[i + 1] ELSE reg[i]]
      /\ taken' = IF vld[0] /\ ack THEN reg[0] ELSE taken
  BY DEF ReadEdge, resetVars, writeVars
<1>3. DataTypeOK'
  <2>1. Slot(rptr) \in 0 .. Depth - 1
    BY Fifo2clkAssumption DEF QInv, IInv, PtrTypeOK, Ptr, Cycle, Slot
  <2>2. vld' \in [Stages -> BOOLEAN]
    BY <1>2
  <2>3. reg' \in [Stages -> Data \cup {Idle}]
    BY <1>2, <2>1, StageRange DEF QInv, DataTypeOK
  <2>4. taken' \in Data \cup {Idle}
    BY <1>2, StageRange DEF QInv, DataTypeOK
  <2> QED BY <1>2, <2>2, <2>3, <2>4 DEF QInv, DataTypeOK
<1>4. ASSUME wrst PROVE ReadCleared' /\ Drained'
  <2>1. ReadCleared /\ Drained /\ wptr = 0
    BY <1>2, <1>4 DEF QInv, IInv, WriteCleared
  <2>2. wsync' = <<wsync[2], wptr>> /\ ~ReadEnable(ack) /\ rptr' = rptr /\ empty' = (rptr = wsync[1])
    BY <2>1 DEF ReadEdge, ReadEnable, EmptyNext, ReadCleared
  <2>3. ReadCleared'
    BY <2>1, <2>2 DEF ReadCleared
  <2>4. \A i \in Stages : Load(i, ack)
    BY <2>1, StageRange DEF Drained, Load
  <2>5. Drained'
    BY <1>2, <2>1, <2>4, StageRange DEF Drained, ReadCleared
  <2> QED BY <2>3, <2>5
<1> QED BY <1>1, <1>2, <1>3, <1>4 DEF QInv

LEMMA WriteEdgeQ ==
  ASSUME QInv, NEW wr \in BOOLEAN, NEW v \in Data, WriteEdge(wr, v)
  PROVE  QInv'
<1>1. IInv'
  BY WriteStep DEF QInv
<1>2. /\ ~wrst /\ UNCHANGED <<wrst, vld, reg, taken>>
      /\ mem' = IF wr /\ ~full THEN [mem EXCEPT ![Slot(wptr)] = v] ELSE mem
  BY DEF WriteEdge, WriteEnable, resetVars, readVars
<1>3. DataTypeOK'
  BY <1>2 DEF QInv, DataTypeOK
<1> QED BY <1>1, <1>2, <1>3 DEF QInv

LEMMA ResetsQ ==
  ASSUME QInv, WriteResetEdge \/ ReadResetEdge \/ CrossedResets
  PROVE  QInv'
<1>1. IInv'
  BY ResetEdgeStep, CrossedResetStep DEF QInv
<1>2. mem' = mem /\ reg' = reg /\ taken' = taken /\ vld' \in [Stages -> BOOLEAN]
  <2>1. CASE ReadResetEdge
    BY <2>1 DEF ReadResetEdge, writeVars
  <2>2. CASE WriteResetEdge \/ CrossedResets
    BY <2>2 DEF WriteResetEdge, CrossedResets, AssertBoth, ReleaseRead, ReleaseWrite,
       writeVars, readVars, QInv, DataTypeOK
  <2> QED BY <2>1, <2>2
<1>3. DataTypeOK'
  BY <1>2 DEF QInv, DataTypeOK
<1>4. wrst' /\ (rrst' => rclr') => ReadCleared' /\ Drained'
  <2>1. CASE ReadResetEdge
    BY <2>1 DEF ReadResetEdge, ReadCleared, Drained
  <2>2. CASE WriteResetEdge \/ CrossedResets
    <3>1. UNCHANGED <<rptr, wsync, empty, vld>>
      BY <2>2 DEF WriteResetEdge, CrossedResets, AssertBoth, ReleaseRead, ReleaseWrite, readVars
    <3>2. wrst' /\ (rrst' => rclr') => wrst /\ (rrst => rclr)
      BY <2>2 DEF WriteResetEdge, CrossedResets, AssertBoth, ReleaseRead, ReleaseReadReady,
         ReleaseWrite, QInv, IInv, PtrTypeOK
    <3> QED BY <3>1, <3>2 DEF QInv, ReadCleared, Drained
  <2> QED BY <2>1, <2>2
<1> QED BY <1>1, <1>3, <1>4 DEF QInv

LEMMA InitQ == Init => QInv
<1> SUFFICES ASSUME Init PROVE QInv
  OBVIOUS
<1>1. DataTypeOK
  BY DEF Init, DataTypeOK
<1> QED BY <1>1, InitIInv DEF QInv, Init

LEMMA NextQ == QInv /\ [Next]_vars => QInv'
<1> SUFFICES ASSUME QInv, [Next]_vars PROVE QInv'
  OBVIOUS
<1>1. CASE \E wr \in BOOLEAN, v \in Data : WriteEdge(wr, v)
  BY <1>1, WriteEdgeQ
<1>2. CASE \E ack \in BOOLEAN : ReadEdge(ack)
  BY <1>2, ReadEdgeQ
<1>3. CASE WriteResetEdge \/ ReadResetEdge \/ CrossedResets
  BY <1>3, ResetsQ
<1>4. CASE UNCHANGED vars
  <2>1. IInv'
    BY <1>4, NextIInv DEF QInv
  <2> QED BY <1>4, <2>1 DEF QInv, DataTypeOK, ReadCleared, Drained, vars, resetVars, writeVars, readVars
<1> QED BY <1>1, <1>2, <1>3, <1>4 DEF Next, Clocks

THEOREM QueueInvariant == Spec => []QInv
  BY InitQ, NextQ, PTL DEF Spec

\* Every word stays in its place and no side passes the other, for every
\* depth and read-out latency.
THEOREM PointersSoundTheorem == Spec => []PointersSound
<1>1. QInv => TypeOK
  <2> SUFFICES ASSUME QInv PROVE TypeOK
    OBVIOUS
  <2>1. rsync \in Ptr \X Ptr /\ wsync \in Ptr \X Ptr
    <3>1. <<rsync[1], rsync[2]>> \in Ptr \X Ptr /\ <<wsync[1], wsync[2]>> \in Ptr \X Ptr
      BY DEF QInv, IInv, PtrTypeOK
    <3>2. rsync = <<rsync[1], rsync[2]>> /\ wsync = <<wsync[1], wsync[2]>>
      BY DEF QInv, IInv, PtrTypeOK
    <3> QED BY <3>1, <3>2, Zenon
  <2> QED BY <2>1 DEF QInv, IInv, PtrTypeOK, DataTypeOK, TypeOK
<1> QED BY <1>1, QueueInvariant, NoOverrunTheorem, PTL DEF PointersSound

-----------------------------------------------------------------------------
(* Every step is a step of the queue                                       *)

Word  == Data \cup {Idle}
Count == Dist(rptr, wptr)
\* The words of the memory, oldest first.
Stored == [k \in 1 .. Count |-> Pending(k - 1)]

LEMMA FunSeq ==
  ASSUME NEW W, NEW n \in Nat, NEW q, q = [i \in 1 .. n |-> q[i]], \A i \in 1 .. n : q[i] \in W
  PROVE  q \in Seq(W) /\ Len(q) = n
<1>1. q \in [1 .. n -> W]
  OBVIOUS
<1> QED BY <1>1

LEMMA CountRange == QInv => Count \in Nat /\ (~Clearing => Count <= Depth)
  BY Fifo2clkAssumption
  DEF QInv, IInv, Chain, PtrTypeOK, Count, Dist, Ptr, Cycle

\* What the refinement mapping calls Inside is the row of the stages that hold
\* a word, followed by what is stored.
InsideShape ==
  /\ Held \in SUBSET Nat /\ IsFiniteSet(Held)
  /\ Cardinality(Held) \in Nat /\ Cardinality(Held) <= Latency
  /\ Inside = Row(Held, reg, Stored, Count)
  /\ Inside = [n \in 1 .. Cardinality(Held) + Count |-> Inside[n]]
  /\ Inside \in Seq(Word) /\ Len(Inside) = Cardinality(Held) + Count

LEMMA InsideIsRow == QInv => InsideShape
<1> SUFFICES ASSUME QInv PROVE InsideShape
  OBVIOUS
<1> DEFINE c == Cardinality(Held)
<1>1. /\ Held \in SUBSET Nat /\ IsFiniteSet(Held) /\ c \in Nat /\ c <= Latency
  <2>1. Held \in SUBSET Stages
    BY DEF Held
  <2> QED BY <2>1, StageRange, FS_Subset, FS_CardinalityType
<1>2. Count \in Nat
  BY CountRange
<1>3. Inside = [n \in 1 .. c + Count |->
                  IF n <= c THEN reg[CHOOSE i \in Held : Rank(Held, i) = n - 1]
                            ELSE Pending(n - c - 1)]
  BY DEF Inside, Count, Ahead, Rank, Lower
<1>4. Row(Held, reg, Stored, Count) =
        [n \in 1 .. c + Count |->
           IF n <= c THEN reg[CHOOSE i \in Held : Rank(Held, i) = n - 1] ELSE Stored[n - c]]
  BY DEF Row
<1>5. \A n \in 1 .. c + Count : ~(n <= c) => Stored[n - c] = Pending(n - c - 1)
  <2>1. \A n \in 1 .. c + Count : ~(n <= c) => n - c \in 1 .. Count
    BY <1>1, <1>2
  <2> HIDE DEF c
  <2> QED BY <2>1 DEF Stored
<1> HIDE DEF c
<1>6. Inside = Row(Held, reg, Stored, Count)
  BY <1>3, <1>4, <1>5
<1>7. \A n \in 1 .. c + Count : Inside[n] \in Word
  <2>1. ASSUME NEW n \in 1 .. c + Count, n <= c PROVE Inside[n] \in Word
    <3>1. \E i \in Held : Rank(Held, i) = n - 1
      BY <1>1, <2>1, RankTaken DEF c
    <3>2. (CHOOSE i \in Held : Rank(Held, i) = n - 1) \in Stages
      BY <3>1 DEF Held
    <3>3. Inside[n] = reg[CHOOSE i \in Held : Rank(Held, i) = n - 1]
      BY <1>3, <2>1
    <3> QED BY <3>2, <3>3 DEF QInv, DataTypeOK, Word
  <2>2. ASSUME NEW n \in 1 .. c + Count, ~(n <= c) PROVE Inside[n] \in Word
    <3>1. n - c - 1 \in 0 .. Count - 1
      BY <1>1, <1>2, <2>2
    <3>2. \A k \in 0 .. Count - 1 : Pending(k) \in Word
      <4>1. /\ rptr \in 0 .. Cycle - 1 /\ wptr \in 0 .. Cycle - 1 /\ Cycle = 2 * Depth
            /\ mem \in [0 .. Depth - 1 -> Word]
        BY DEF QInv, IInv, PtrTypeOK, DataTypeOK, Ptr, Cycle, Word
      <4>2. ASSUME NEW k \in 0 .. Count - 1 PROVE Pending(k) \in Word
        <5> DEFINE p == IF rptr + k < Cycle THEN rptr + k ELSE rptr + k - Cycle
        <5>1. Slot(p) \in 0 .. Depth - 1
          BY <4>1, Fifo2clkAssumption DEF Count, Dist, Slot
        <5> HIDE DEF p
        <5>2. mem[Slot(p)] \in Word
          BY <4>1, <5>1
        <5> QED BY <5>2 DEF p, Pending
      <4> QED BY <4>2
    <3>3. Inside[n] = Pending(n - c - 1)
      BY <1>3, <2>2
    <3> QED BY <3>1, <3>2, <3>3
  <2> QED BY <2>1, <2>2
<1>8. Inside = [n \in 1 .. c + Count |-> Inside[n]]
  BY <1>3
<1>9. c + Count \in Nat
  BY <1>1, <1>2
<1>10. Inside \in Seq(Word) /\ Len(Inside) = c + Count
  BY <1>7, <1>8, <1>9, FunSeq
<1> QED BY <1>1, <1>6, <1>8, <1>10 DEF c, InsideShape

LEMMA EmptyInside == QInv /\ Drained /\ rptr = wptr => Inside = <<>>
<1> SUFFICES ASSUME QInv, Drained, rptr = wptr PROVE Inside = <<>>
  OBVIOUS
<1>1. Held = {} /\ Count = 0
  BY DEF Held, Drained, Count, Dist, QInv, IInv, PtrTypeOK, Ptr
<1>2. Inside \in Seq(Word) /\ Len(Inside) = 0
  BY <1>1, InsideIsRow, FS_EmptySet DEF InsideShape
<1> QED BY <1>2, EmptySeq

\* The same of the state a step leads to.
LEMMA InsideNext ==
  ASSUME QInv'
  PROVE  /\ Inside' = Row(Held', reg', Stored', Count')
         /\ Inside' \in Seq(Word) /\ Len(Inside') = Cardinality(Held') + Count'
<1>1. QInv' => InsideShape'
  BY InsideIsRow, PTL
<1> QED BY <1>1 DEF InsideShape

\* Where the word of stage i is after a read-side edge.
Moved(i, ack) == IF i > 0 /\ Load(i - 1, ack) THEN i - 1 ELSE i
Moves(T, ack) == {Moved(i, ack) : i \in T}

\* The read-out pipeline after a read-side edge: the sink took the output
\* word if it acknowledged one, the words behind moved up without changing
\* their order, and a word fetched from the memory is the last one.
LEMMA PipelineMoves ==
  ASSUME QInv, NEW ack \in BOOLEAN, ReadEdge(ack),
         NEW T, T = IF vld[0] /\ ack THEN Held \ {0} ELSE Held
  PROVE  /\ \A i \in T : Moved(i, ack) \in Stages /\ reg'[Moved(i, ack)] = reg[i]
         /\ \A i, k \in T : i < k => Moved(i, ack) < Moved(k, ack)
         /\ ReadEnable(ack) =>
              /\ Held' = Moves(T, ack) \cup {Latency - 1} /\ reg'[Latency - 1] = mem[Slot(rptr)]
              /\ \A i \in T : Moved(i, ack) < Latency - 1
         /\ ~ReadEnable(ack) => Held' = Moves(T, ack)
<1> DEFINE top == Latency - 1
           M == {Moved(i, ack) : i \in T}
<1>1. /\ vld' = [i \in Stages |->
               ~Load(i, ack) \/ IF i = Latency - 1 THEN ~empty ELSE vld[i + 1]]
      /\ reg' = [i \in Stages |->
               IF i = Latency - 1 THEN IF ReadEnable(ack) THEN mem[Slot(rptr)] ELSE reg[i]
                          ELSE IF Load(i, ack) THEN reg[i + 1] ELSE reg[i]]
  BY DEF ReadEdge
<1>2. /\ \A i \in Stages : i \in Nat /\ i <= top /\ (i # top => i + 1 \in Stages)
      /\ \A i \in Stages : i > 0 => i - 1 \in Stages /\ i - 1 # top
      /\ top \in Stages /\ 0 \in Stages
  BY Fifo2clkAssumption DEF Stages
<1>3. /\ \A i \in T : i \in Stages /\ vld[i]
      /\ \A i \in Stages : vld[i] /\ (i # 0 \/ ~ack) => i \in T
      /\ 0 \in T => ~ack
  BY <1>2 DEF Held
\* A stage that does not load holds a word, as do all before it.
<1>4. /\ \A i \in Stages : ~Load(i, ack) => ~ack /\ vld[i]
      /\ \A i \in Stages : i > 0 /\ ~Load(i, ack) => ~Load(i - 1, ack)
      /\ \A i \in Stages : i > 0 /\ ~Load(i - 1, ack) /\ vld[i] => ~Load(i, ack)
      /\ vld[0] /\ ~ack => ~Load(0, ack)
  BY <1>2 DEF Load, Stages
\* A word that does not move sits in a stage that does not load.
<1>5. \A i \in T : (i > 0 /\ Load(i - 1, ack) /\ Moved(i, ack) = i - 1)
                \/ (~Load(i, ack) /\ Moved(i, ack) = i)
  BY <1>2, <1>3, <1>4 DEF Moved
<1>6. \A i \in T : Moved(i, ack) \in Stages /\ reg'[Moved(i, ack)] = reg[i]
  <2>1. ASSUME NEW i \in T, i > 0, Load(i - 1, ack), Moved(i, ack) = i - 1
        PROVE  Moved(i, ack) \in Stages /\ reg'[Moved(i, ack)] = reg[i]
    <3>1. i \in Stages /\ i \in Nat
      BY <1>2, <1>3
    <3> DEFINE j == i - 1
    <3>2. j \in Stages /\ j # Latency - 1 /\ Load(j, ack) /\ j + 1 = i
      BY <1>2, <2>1, <3>1
    <3> HIDE DEF j
    <3>3. reg'[j] = reg[j + 1]
      BY <1>1, <3>2
    <3> QED BY <2>1, <3>2, <3>3 DEF j
  <2>2. ASSUME NEW i \in T, ~Load(i, ack), Moved(i, ack) = i
        PROVE  Moved(i, ack) \in Stages /\ reg'[Moved(i, ack)] = reg[i]
    <3>1. i = top => ~ReadEnable(ack)
      BY <2>2 DEF ReadEnable
    <3> QED BY <1>1, <1>3, <2>2, <3>1
  <2> QED BY <1>5, <2>1, <2>2
<1>7. \A i, k \in T : i < k => Moved(i, ack) < Moved(k, ack)
  <2>1. ASSUME NEW i \in T, NEW k \in T, i < k
        PROVE  Moved(i, ack) < Moved(k, ack)
    <3>1. i \in Nat /\ k \in Nat
      BY <1>2, <1>3
    <3>2. (~Load(i, ack) /\ Load(k - 1, ack)) => i # k - 1
      OBVIOUS
    <3> QED BY <1>5, <2>1, <3>1, <3>2
  <2> QED BY <2>1
<1>8. \A i \in T : Load(top, ack) => Moved(i, ack) < top
  <2>1. ASSUME NEW i \in T, Load(top, ack) PROVE Moved(i, ack) < top
    <3>1. i \in Nat /\ i <= top
      BY <1>2, <1>3
    <3>2. ~Load(i, ack) => i # top
      BY <2>1
    <3> QED BY <1>2, <1>5, <3>1, <3>2
  <2> QED BY <2>1
<1>9. \A y \in Stages : vld'[y] <=> ~Load(y, ack) \/ (y = top /\ ~empty) \/ (y # top /\ vld[y + 1])
  BY <1>1
<1>10. \A i \in T : vld'[Moved(i, ack)]
  <2>1. ASSUME NEW i \in T, i > 0, Load(i - 1, ack), Moved(i, ack) = i - 1
        PROVE  vld'[Moved(i, ack)]
    <3> DEFINE j == i - 1
    <3>1. j \in Stages /\ j # top /\ j + 1 = i /\ vld[i]
      BY <1>2, <1>3, <2>1
    <3> HIDE DEF j
    <3>2. vld'[j]
      BY <1>9, <3>1
    <3> QED BY <2>1, <3>2 DEF j
  <2>2. ASSUME NEW i \in T, ~Load(i, ack), Moved(i, ack) = i
        PROVE  vld'[Moved(i, ack)]
    BY <1>3, <1>9, <2>2
  <2> QED BY <1>5, <2>1, <2>2
<1>11. \A y \in Stages : vld'[y] => y \in M \/ (y = top /\ ReadEnable(ack))
  <2>1. ASSUME NEW y \in Stages, vld'[y], ~Load(y, ack) PROVE y \in M
    <3>1. y \in T
      BY <1>3, <1>4, <2>1
    <3>2. Moved(y, ack) = y
      BY <1>2, <1>4, <2>1 DEF Moved
    <3> QED BY <3>1, <3>2
  <2>2. ASSUME NEW y \in Stages, Load(y, ack), y # top, vld[y + 1] PROVE y \in M
    <3> DEFINE i == y + 1
    <3>1. i \in Stages /\ i # 0 /\ i > 0 /\ i - 1 = y
      BY <1>2, <2>2
    <3> HIDE DEF i
    <3>2. i \in T
      BY <1>3, <2>2, <3>1 DEF i
    <3>3. Moved(i, ack) = y
      BY <2>2, <3>1 DEF Moved
    <3> QED BY <3>2, <3>3
  <2>3. ASSUME NEW y \in Stages, Load(y, ack), y = top, ~empty PROVE ReadEnable(ack)
    BY <2>3 DEF ReadEnable
  <2> QED BY <1>9, <2>1, <2>2, <2>3
<1>12. ReadEnable(ack) => vld'[top] /\ reg'[top] = mem[Slot(rptr)] /\ Load(top, ack)
  BY <1>1, <1>2, <1>9 DEF ReadEnable
<1>13. Held' = {y \in Stages : vld'[y]}
  BY DEF Held
<1>14. ReadEnable(ack) => Held' = M \cup {top}
  BY <1>2, <1>6, <1>10, <1>11, <1>12, <1>13
<1>15. ~ReadEnable(ack) => Held' = M
  BY <1>6, <1>10, <1>11, <1>13
<1> QED BY <1>6, <1>7, <1>8, <1>12, <1>14, <1>15 DEF Moves

\* A read-side edge leaves the words that were not taken as they were.
LEMMA ReadKeepsRow ==
  ASSUME QInv, ~wrst, NEW ack \in BOOLEAN, ReadEdge(ack),
         NEW T, T = IF vld[0] /\ ack THEN Held \ {0} ELSE Held
  PROVE  Inside' = Row(T, reg, Stored, Count)
<1> DEFINE f == [i \in T |-> Moved(i, ack)]
           M == Moves(T, ack)
           re == ReadEnable(ack)
<1>1. T \in SUBSET Nat /\ IsFiniteSet(T) /\ Count \in Nat
  <2>1. T \in SUBSET Held
    OBVIOUS
  <2> QED BY <2>1, InsideIsRow, CountRange, FS_Subset DEF InsideShape
<1>2. /\ \A i \in T : Moved(i, ack) \in Stages /\ reg'[Moved(i, ack)] = reg[i]
      /\ \A i, k \in T : i < k => Moved(i, ack) < Moved(k, ack)
  BY PipelineMoves
<1>3. M = {f[i] : i \in T} /\ \A y \in M : \E i \in T : y = Moved(i, ack)
  BY DEF Moves
<1>4. /\ re => /\ Held' = M \cup {Latency - 1} /\ reg'[Latency - 1] = mem[Slot(rptr)]
               /\ \A i \in M : i < Latency - 1
      /\ ~re => Held' = M
  <2>1. /\ re => /\ Held' = M \cup {Latency - 1} /\ reg'[Latency - 1] = mem[Slot(rptr)]
                 /\ \A i \in T : Moved(i, ack) < Latency - 1
        /\ ~re => Held' = M
    BY PipelineMoves
  <2> HIDE DEF M, re
  <2> QED BY <1>3, <2>1
<1>5. f \in [T -> Nat] /\ M \in SUBSET Nat
  BY <1>2, <1>3, StageRange
<1>6. /\ \A i, k \in T : i < k => f[i] < f[k]
      /\ \A i \in T : reg'[f[i]] = reg[i]
  BY <1>2
<1> HIDE DEF f, M, re
<1>7. IsFiniteSet(M) /\ Row(M, reg', Stored, Count) = Row(T, reg, Stored, Count)
  <2>1. IsMove(T, reg, M, reg', f)
    BY <1>1, <1>3, <1>5, <1>6 DEF IsMove
  <2>2. IsFiniteSet(M) /\ Row(M, reg', Stored, Count) = Row(T, reg, Stored, Count)
    BY <1>1, <2>1, RowMoved
  <2> QED BY <2>2
<1>8. Inside' = Row(Held', reg', Stored', Count')
  BY ReadEdgeQ, InsideNext
<1>9. /\ mem' = mem /\ wptr' = wptr
      /\ rptr' = IF re THEN Succ(rptr) ELSE rptr
      /\ re => ~empty
  BY DEF ReadEdge, writeVars, ReadEnable, re
<1>10. CASE ~re
  <2>1. Count' = Count /\ Stored' = Stored
    BY <1>9, <1>10 DEF Count, Stored, Pending
  <2> QED BY <1>4, <1>7, <1>8, <1>10, <2>1
<1>11. CASE re
  <2>1. /\ rptr \in 0 .. Cycle - 1 /\ wptr \in 0 .. Cycle - 1 /\ rptr # wptr /\ Cycle \in Nat
    BY <1>9, <1>11, Fifo2clkAssumption
    DEF QInv, IInv, Clearing, Chain, PtrTypeOK, Dist, Ptr, Cycle
  <2>2. Count > 0 /\ Count' = Count - 1
    BY <1>9, <1>11, <2>1 DEF Count, Dist, Succ
  <2>3. \A k \in 1 .. Count - 1 : Stored'[k] = Stored[k + 1]
    <3>1. ASSUME NEW k \in 1 .. Count - 1 PROVE Stored'[k] = Stored[k + 1]
      <4>1. k \in 1 .. Count' /\ k + 1 \in 1 .. Count
        BY <1>1, <2>2
      <4>2. Stored'[k] = Pending(k - 1)' /\ Stored[k + 1] = Pending((k + 1) - 1)
        BY <4>1 DEF Stored
      <4>3. Count <= Cycle - 1
        BY <2>1 DEF Count, Dist
      <4>4. Pending(k - 1)' = Pending(k)
        BY <1>1, <1>9, <1>11, <2>1, <4>3 DEF Pending, Succ
      <4> QED BY <4>2, <4>4
    <3> QED BY <3>1
  <2>4. Stored[1] = mem[Slot(rptr)]
    <3>1. 1 \in 1 .. Count
      BY <1>1, <2>2
    <3>2. Stored[1] = Pending(0)
      BY <3>1 DEF Stored
    <3> QED BY <2>1, <3>2 DEF Pending
  <2>5. Latency - 1 \in Nat
    BY Fifo2clkAssumption
  <2>6. Row(Held', reg', Stored', Count - 1) = Row(M, reg', Stored, Count)
    <3>1. IsFetch(M, reg', Stored, Count, Stored', Latency - 1)
      BY <1>1, <1>4, <1>5, <1>7, <1>11, <2>2, <2>3, <2>4, <2>5 DEF IsFetch
    <3> QED BY <1>4, <1>11, <3>1, RowFetch
  <2> QED BY <1>7, <1>8, <2>2, <2>6
<1> QED BY <1>10, <1>11

\* What the refinement mapping calls the queue.
Queue == IF wrst \/ rrst THEN <<>> ELSE Inside

\* A read-side edge delivers the oldest word or changes nothing.
LEMMA ReadImplements ==
  ASSUME QInv, NEW ack \in BOOLEAN, ReadEdge(ack)
  PROVE  \/ Queue # <<>> /\ taken' = Head(Queue) /\ Queue' = Tail(Queue)
         \/ Queue' = Queue /\ taken' = taken
<1>1. /\ UNCHANGED <<wrst, rrst>> /\ ~rrst
      /\ taken' = IF vld[0] /\ ack THEN reg[0] ELSE taken
  BY DEF ReadEdge, resetVars
<1>2. CASE wrst
  <2>1. ~vld[0]
    BY <1>1, <1>2, StageRange DEF QInv, Drained
  <2> QED BY <1>1, <1>2, <2>1 DEF Queue
<1>3. CASE ~wrst /\ ~(vld[0] /\ ack)
  <2>1. Inside' = Row(Held, reg, Stored, Count)
    BY <1>3, ReadKeepsRow
  <2> QED BY <1>1, <1>3, <2>1, InsideIsRow DEF Queue, InsideShape
<1>4. CASE ~wrst /\ vld[0] /\ ack
  <2> DEFINE c == Cardinality(Held)
             R == Held \ {0}
  <2>1. Inside' = Row(R, reg, Stored, Count)
    BY <1>4, ReadKeepsRow
  <2>2. 0 \in Held
    BY <1>4, StageRange DEF Held
  <2>3. Count \in Nat /\ c \in Nat /\ Held \in SUBSET Nat /\ IsFiniteSet(Held)
    BY CountRange, InsideIsRow DEF InsideShape
  <2>4. /\ c > 0 /\ Row(Held, reg, Stored, Count)[1] = reg[0] /\ Cardinality(R) = c - 1
        /\ Row(R, reg, Stored, Count) = Dropped(Row(Held, reg, Stored, Count), c - 1 + Count)
    BY <2>2, <2>3, RowTail
  <2>5. Inside = Row(Held, reg, Stored, Count) /\ Inside \in Seq(Word) /\ Len(Inside) = c + Count
    BY InsideIsRow DEF InsideShape
  <2> HIDE DEF c, R
  <2>6. Inside # <<>> /\ Head(Inside) = reg[0]
    BY <2>3, <2>4, <2>5, EmptySeq
  <2>7. Tail(Inside) = [n \in 1 .. c - 1 + Count |-> Inside[n + 1]]
    <3>1. Tail(Inside) \in Seq(Word) /\ Len(Tail(Inside)) = c - 1 + Count
          /\ \A i \in 1 .. Len(Tail(Inside)) : Tail(Inside)[i] = Inside[i + 1]
      BY <2>3, <2>5, <2>6, HeadTailProperties
    <3>2. Tail(Inside) = [n \in 1 .. c - 1 + Count |-> Tail(Inside)[n]]
      BY <3>1, LenProperties
    <3> QED BY <3>1, <3>2
  <2>8. Inside' = Tail(Inside)
    BY <2>1, <2>4, <2>5, <2>7 DEF Dropped
  <2> QED BY <1>1, <1>4, <2>6, <2>8 DEF Queue
<1> QED BY <1>2, <1>3, <1>4

\* A write-side edge accepts one word at the end or changes nothing.
LEMMA WriteImplements ==
  ASSUME QInv, NEW wr \in BOOLEAN, NEW v \in Data, WriteEdge(wr, v)
  PROVE  \/ Len(Queue) < Depth + Latency /\ Queue' = Append(Queue, v) /\ taken' = taken
         \/ Queue' = Queue /\ taken' = taken
<1> DEFINE we == wr /\ ~full
           c == Cardinality(Held)
<1>1. /\ ~wrst /\ ~rrst /\ UNCHANGED <<wrst, rrst, rptr, vld, reg, taken>>
      /\ wptr' = IF we THEN Succ(wptr) ELSE wptr
      /\ mem' = IF we THEN [mem EXCEPT ![Slot(wptr)] = v] ELSE mem
  BY DEF WriteEdge, WriteEnable, resetVars, readVars, QInv, IInv
<1>2. Held' = Held
  BY <1>1 DEF Held
<1>3. /\ c \in Nat /\ c <= Latency /\ Held \in SUBSET Nat /\ IsFiniteSet(Held)
      /\ Inside = Row(Held, reg, Stored, Count)
      /\ Inside \in Seq(Word) /\ Len(Inside) = c + Count
      /\ Inside' = Row(Held, reg, Stored', Count')
      /\ Count \in Nat
  BY <1>1, <1>2, WriteEdgeQ, InsideIsRow, InsideNext, CountRange DEF InsideShape
<1>4. CASE ~we
  <2>1. Count' = Count /\ Stored' = Stored
    BY <1>1, <1>4 DEF Count, Stored, Pending
  <2> QED BY <1>1, <1>3, <2>1 DEF Queue
<1>5. CASE we
  <2>1. Count < Depth
    <3> DEFINE a == rsync[1]
    <3>1. /\ Dist(a, rptr) <= Dist(a, wsync[1]) /\ Dist(a, wsync[1]) <= Dist(a, wsync[2])
          /\ Dist(a, wsync[2]) <= Dist(a, wptr) /\ Dist(a, wptr) < Depth
      BY <1>1, <1>5 DEF QInv, IInv, Clearing, Chain
    <3>2. /\ a \in Ptr /\ rptr \in Ptr /\ wptr \in Ptr /\ wsync[1] \in Ptr /\ wsync[2] \in Ptr
      BY DEF QInv, IInv, PtrTypeOK
    <3> HIDE DEF a
    <3>3. \A p \in Ptr : Dist(a, p) \in Nat
      BY <3>2, Fifo2clkAssumption DEF Dist, Ptr, Cycle
    <3>4. Dist(a, rptr) <= Dist(a, wptr) /\ Dist(a, wptr) < Depth
      BY <3>1, <3>2, <3>3, Fifo2clkAssumption
    <3> QED BY <3>2, <3>4, Fifo2clkAssumption DEF Count, Dist, Ptr, Cycle
  <2>2. /\ rptr \in 0 .. Cycle - 1 /\ wptr \in 0 .. Cycle - 1 /\ Cycle = 2 * Depth
        /\ mem \in [0 .. Depth - 1 -> Word] /\ Slot(wptr) \in 0 .. Depth - 1
    BY SMTT(30), Fifo2clkAssumption DEF QInv, IInv, PtrTypeOK, DataTypeOK, Ptr, Cycle, Slot, Word
  <2>3. Count' = Count + 1
    BY <1>1, <1>5, <2>1, <2>2, Fifo2clkAssumption DEF Count, Dist, Succ
  <2>4. ASSUME NEW k \in 0 .. Count - 1 PROVE Pending(k)' = Pending(k)
    <3> DEFINE p == IF rptr + k < Cycle THEN rptr + k ELSE rptr + k - Cycle
    <3>1. p \in 0 .. Cycle - 1 /\ Slot(p) # Slot(wptr) /\ Slot(p) \in 0 .. Depth - 1
      BY <2>1, <2>2, Fifo2clkAssumption DEF Count, Dist, Slot
    <3>2. Pending(k) = mem[Slot(p)] /\ Pending(k)' = mem'[Slot(p)]
      BY <1>1 DEF Pending
    <3> HIDE DEF p
    <3> QED BY <1>1, <1>5, <2>2, <3>1, <3>2
  <2>5. ASSUME NEW k \in Nat, k = Count PROVE Pending(k)' = v
    <3> DEFINE p == IF rptr + k < Cycle THEN rptr + k ELSE rptr + k - Cycle
    <3>1. p = wptr
      BY <1>3, <2>1, <2>2, <2>5, Fifo2clkAssumption DEF Count, Dist
    <3>2. Pending(k)' = mem'[Slot(p)]
      BY <1>1 DEF Pending
    <3> HIDE DEF p
    <3> QED BY <1>1, <1>5, <2>2, <3>1, <3>2
  <2>6. /\ \A k \in 1 .. Count : Stored'[k] = Stored[k]
        /\ Stored'[Count + 1] = v
    <3>1. ASSUME NEW k \in 1 .. Count PROVE Stored'[k] = Stored[k]
      <4>1. k \in 1 .. Count' /\ k - 1 \in 0 .. Count - 1
        BY <1>3, <2>3
      <4>2. Pending(k - 1)' = Pending(k - 1)
        BY <2>4, <4>1
      <4> QED BY <4>1, <4>2 DEF Stored
    <3>2. ASSUME NEW k \in Nat, k = Count PROVE Stored'[k + 1] = v
      <4>1. k + 1 \in 1 .. Count' /\ (k + 1) - 1 = k
        BY <1>3, <2>3, <3>2
      <4>2. Stored'[k + 1] = Pending((k + 1) - 1)'
        BY <4>1 DEF Stored
      <4>3. Pending((k + 1) - 1)' = v
        BY <2>5, <3>2, <4>1
      <4> QED BY <4>2, <4>3
    <3> QED BY <1>3, <3>1, <3>2
  <2>7. Inside' = [n \in 1 .. c + Count + 1 |-> IF n <= c + Count THEN Inside[n] ELSE v]
    <3>1. Row(Held, reg, Stored', Count + 1) = Added(Row(Held, reg, Stored, Count), c + Count, v)
      <4> HIDE DEF c
      <4>1. c = Cardinality(Held)
        BY DEF c
      <4> DEFINE s2 == Stored'
                 s1 == Stored
      <4>2. Count \in Nat /\ (\A k \in 1 .. Count : s2[k] = s1[k]) /\ s2[Count + 1] = v
        BY <1>3, <2>6
      <4> HIDE DEF s1, s2
      <4>3. Held \in SUBSET Nat /\ IsFiniteSet(Held) /\ c \in Nat
        BY <1>3, <4>1
      <4>4. Row(Held, reg, s2, Count + 1) = Added(Row(Held, reg, s1, Count), c + Count, v)
        BY ONLY <4>1, <4>2, <4>3, RowAppend
      <4> QED BY <4>4 DEF s1, s2
    <3> QED BY <1>3, <2>3, <3>1 DEF Added
  <2>8. Append(Inside, v) = [n \in 1 .. c + Count + 1 |-> IF n <= c + Count THEN Inside[n] ELSE v]
    <3> HIDE DEF c
    <3> DEFINE a == Append(Inside, v)
    <3>1. /\ a \in Seq(Word) /\ Len(a) = c + Count + 1
          /\ \A i \in 1 .. c + Count : a[i] = Inside[i]
          /\ a[c + Count + 1] = v
      BY <1>3, AppendProperties DEF Word
    <3>2. a = [n \in 1 .. c + Count + 1 |-> a[n]]
      BY <3>1, LenProperties
    <3> HIDE DEF a
    <3>3. \A n \in 1 .. c + Count + 1 : n <= c + Count \/ n = c + Count + 1
      BY <1>3
    <3>4. \A n \in 1 .. c + Count + 1 : a[n] = IF n <= c + Count THEN Inside[n] ELSE v
      BY <1>3, <3>1, <3>3
    <3>5. a = [n \in 1 .. c + Count + 1 |-> IF n <= c + Count THEN Inside[n] ELSE v]
      BY <3>2, <3>4
    <3> QED BY <3>5 DEF a
  <2>9. Len(Inside) < Depth + Latency
    BY <1>3, <2>1, Fifo2clkAssumption
  <2> QED BY <1>1, <2>7, <2>8, <2>9 DEF Queue
<1> QED BY <1>4, <1>5

\* The edges of a reset clock and the resets themselves drop what is inside;
\* when both sides are released again the FIFO is empty.
LEMMA ResetImplements ==
  ASSUME QInv, WriteResetEdge \/ ReadResetEdge \/ CrossedResets
  PROVE  (Queue' = <<>> \/ Queue' = Queue) /\ taken' = taken
<1>1. taken' = taken
  BY DEF WriteResetEdge, ReadResetEdge, CrossedResets, AssertBoth, ReleaseRead,
     ReleaseWrite, readVars
<1>2. CASE wrst' \/ rrst'
  BY <1>1, <1>2 DEF Queue
<1>3. CASE ~(wrst' \/ rrst')
  <2>1. ReleaseWrite
    BY <1>3 DEF WriteResetEdge, ReadResetEdge, CrossedResets, AssertBoth, ReleaseRead,
       ReleaseReadReady, QInv, IInv, PtrTypeOK
  <2>2. Drained /\ rptr = wptr
    BY <2>1 DEF ReleaseWrite, QInv, IInv, ReadCleared, WriteCleared
  <2>3. Inside = <<>>
    BY <2>2, EmptyInside
  <2>4. Inside' = Inside
    BY <2>1 DEF ReleaseWrite, writeVars, readVars, Inside, Held, Ahead, Pending
  <2> QED BY <1>1, <1>3, <2>3, <2>4 DEF Queue
<1> QED BY <1>1, <1>2, <1>3

\* The initial states are initial states of the queue.
LEMMA InitImplements == Init => Queue = <<>> /\ taken = Idle
<1> SUFFICES ASSUME Init PROVE Queue = <<>> /\ taken = Idle
  OBVIOUS
<1>1. QInv
  BY InitQ
<1>2. Drained /\ rptr = wptr /\ taken = Idle
  BY DEF Init, Drained
<1>3. Inside = <<>>
  BY <1>1, <1>2, EmptyInside
<1> QED BY <1>2, <1>3 DEF Queue

\* For every depth and every read-out latency the FIFO is a queue: what goes
\* in comes out in order, once, whatever stale pointer each side decides on,
\* and a crossed reset leaves no word behind.
THEOREM Fifo2clkImplementsFifo == Spec => ImplementsFifo
<1>1. Init => Abstract!FifoInit
  BY InitImplements DEF Queue, Abstract!FifoInit
<1>2. QInv /\ [Next]_vars => [Abstract!FifoNext]_(Abstract!fifoVars)
  <2> SUFFICES ASSUME QInv, [Next]_vars
               PROVE  Abstract!FifoNext \/ UNCHANGED Abstract!fifoVars
    OBVIOUS
  <2>1. CASE \E wr \in BOOLEAN, v \in Data : WriteEdge(wr, v)
    <3>1. PICK wr \in BOOLEAN, v \in Data : WriteEdge(wr, v)
      BY <2>1
    <3>2. \/ Len(Queue) < Depth + Latency /\ Queue' = Append(Queue, v) /\ taken' = taken
          \/ Queue' = Queue /\ taken' = taken
      BY <3>1, WriteImplements
    <3> QED BY <3>2 DEF Queue, Abstract!FifoNext, Abstract!Accept, Abstract!fifoVars
  <2>2. CASE \E ack \in BOOLEAN : ReadEdge(ack)
    <3>1. \/ Queue # <<>> /\ taken' = Head(Queue) /\ Queue' = Tail(Queue)
          \/ Queue' = Queue /\ taken' = taken
      BY <2>2, ReadImplements
    <3> QED BY <3>1 DEF Queue, Abstract!FifoNext, Abstract!Deliver, Abstract!fifoVars
  <2>3. CASE WriteResetEdge \/ ReadResetEdge \/ CrossedResets
    <3>1. (Queue' = <<>> \/ Queue' = Queue) /\ taken' = taken
      BY <2>3, ResetImplements
    <3> QED BY <3>1 DEF Queue, Abstract!FifoNext, Abstract!Drop, Abstract!fifoVars
  <2>4. CASE UNCHANGED vars
    <3>1. Queue' = Queue /\ taken' = taken
      BY <2>4 DEF Queue, Inside, Held, Ahead, Pending, vars, resetVars, writeVars, readVars
    <3> QED BY <3>1 DEF Queue, Abstract!fifoVars
  <2> QED BY <2>1, <2>2, <2>3, <2>4 DEF Next, Clocks
<1> QED BY <1>1, <1>2, QueueInvariant, PTL DEF Spec, ImplementsFifo

\* The FIFO never delivers a word nobody wrote (a register or memory cell
\* that was never loaded), and never holds more than it has places for.
THEOREM NothingInvented == Spec => []Abstract!FifoTypeOK
<1> DEFINE F == Abstract!FifoTypeOK
<1>0. <<>> \in Seq(Data) /\ Len(<<>>) = 0 /\ 0 <= Depth + Latency
  BY EmptySeq, Fifo2clkAssumption
<1>1. Init => F
  <2> SUFFICES ASSUME Init PROVE F
    OBVIOUS
  <2>1. Queue = <<>> /\ taken = Idle
    BY InitImplements
  <2>2. Queue \in Seq(Data) /\ Len(Queue) <= Depth + Latency /\ taken \in Data \cup {Idle}
    BY <1>0, <2>1
  <2> QED BY <2>2 DEF Queue, Abstract!FifoTypeOK
<1>2. F /\ [Abstract!FifoNext]_(Abstract!fifoVars) => F'
  <2> SUFFICES ASSUME Queue \in Seq(Data), Len(Queue) <= Depth + Latency, taken \in Data \cup {Idle},
                      Abstract!FifoNext \/ UNCHANGED Abstract!fifoVars
               PROVE  Queue' \in Seq(Data) /\ Len(Queue') <= Depth + Latency /\ taken' \in Data \cup {Idle}
    BY DEF Queue, Abstract!FifoTypeOK
  <2>1. CASE Abstract!Accept
    <3>1. PICK v \in Data : Len(Queue) < Depth + Latency /\ Queue' = Append(Queue, v) /\ taken' = taken
      BY <2>1 DEF Abstract!Accept, Queue
    <3>2. Append(Queue, v) \in Seq(Data) /\ Len(Append(Queue, v)) = Len(Queue) + 1 /\ Len(Queue) \in Nat
      BY AppendProperties, LenProperties
    <3> QED BY <3>1, <3>2, Fifo2clkAssumption
  <2>2. CASE Abstract!Deliver
    <3>1. Queue # <<>> /\ taken' = Head(Queue) /\ Queue' = Tail(Queue)
      BY <2>2 DEF Abstract!Deliver, Queue
    <3> HIDE DEF F
    <3>2. Head(Queue) \in Data /\ Tail(Queue) \in Seq(Data) /\ Len(Tail(Queue)) = Len(Queue) - 1
          /\ Len(Queue) \in Nat
      BY <3>1, HeadTailProperties, LenProperties
    <3> QED BY <3>1, <3>2, Fifo2clkAssumption
  <2>3. CASE Abstract!AcceptAndDeliver
    <3>1. PICK v \in Data : Queue # <<>> /\ taken' = Head(Queue) /\ Queue' = Append(Tail(Queue), v)
      BY <2>3 DEF Abstract!AcceptAndDeliver, Queue
    <3>2. Head(Queue) \in Data /\ Tail(Queue) \in Seq(Data) /\ Len(Tail(Queue)) = Len(Queue) - 1
          /\ Len(Queue) \in Nat
      BY <3>1, HeadTailProperties, LenProperties
    <3>3. Append(Tail(Queue), v) \in Seq(Data) /\ Len(Append(Tail(Queue), v)) = Len(Tail(Queue)) + 1
      BY <3>2, AppendProperties
    <3> QED BY <3>1, <3>2, <3>3, Fifo2clkAssumption
  <2>4. CASE Abstract!Drop
    <3>1. Queue' = <<>> /\ taken' = taken
      BY <2>4 DEF Abstract!Drop, Queue
    <3> QED BY <1>0, <3>1
  <2>5. CASE UNCHANGED Abstract!fifoVars
    BY <2>5 DEF Abstract!fifoVars, Queue
  <2> QED BY <2>1, <2>2, <2>3, <2>4, <2>5 DEF Abstract!FifoNext
<1>3. Spec => [][Abstract!FifoNext]_(Abstract!fifoVars)
  BY Fifo2clkImplementsFifo, PTL DEF ImplementsFifo
<1> QED BY <1>1, <1>2, <1>3, PTL DEF Spec
=============================================================================
