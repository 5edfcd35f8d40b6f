----------------------------- MODULE StreamFifo -----------------------------
(***************************************************************************)
(* What every elastic buffer of the encoder promises, whatever its clocks  *)
(* and its read-out pipeline: the words leave in the order in which they   *)
(* were accepted, none is lost, invented or repeated, and never more than  *)
(* Capacity of them are inside.  fifo1clk_fwft, fifo2clk_fwft and cvs_fifo *)
(* are shown to implement this module.                                     *)
(***************************************************************************)
EXTENDS Naturals, Sequences

CONSTANTS Data,      \* the words that travel
          Capacity,  \* upper bound on the words inside
          Idle       \* what the sink has taken before its first word

VARIABLES queue,  \* the words inside, oldest first
          taken   \* the word the sink took last

fifoVars == <<queue, taken>>

FifoTypeOK == /\ queue \in Seq(Data)
              /\ Len(queue) <= Capacity
              /\ taken \in Data \cup {Idle}

FifoInit == queue = <<>> /\ taken = Idle

\* The source hands over one word.
Accept == /\ Len(queue) < Capacity
          /\ \E v \in Data : queue' = Append(queue, v)
          /\ UNCHANGED taken

\* The sink takes the oldest word.
Deliver == /\ queue # <<>>
           /\ taken' = Head(queue)
           /\ queue' = Tail(queue)

\* Source and sink move on the same clock edge (single-clock buffers only).
AcceptAndDeliver == /\ queue # <<>>
                    /\ taken' = Head(queue)
                    /\ \E v \in Data : queue' = Append(Tail(queue), v)

\* A reset drops what is inside.
Drop == queue' = <<>> /\ UNCHANGED taken

FifoNext == Accept \/ Deliver \/ AcceptAndDeliver \/ Drop

\* The buffer never keeps a word for ever: it is delivered or dropped.
FifoSpec == FifoInit /\ [][FifoNext]_fifoVars /\ WF_fifoVars(Deliver \/ AcceptAndDeliver)
=============================================================================
