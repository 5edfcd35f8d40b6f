----------------------------- MODULE ComposerMC -----------------------------
(* Properties of the composer and the instances TLC checks. *)
EXTENDS Composer, TLC

\* A loop with a branch around a call, and a handler.
Loop == 0 :> [op |-> "OTHER", to |-> 0]
     @@ 1 :> [op |-> "BRANCH", to |-> 3]
     @@ 2 :> [op |-> "CALL", to |-> 4]
     @@ 3 :> [op |-> "JUMP", to |-> 0]
     @@ 4 :> [op |-> "RETURN", to |-> 0]
     @@ 5 :> [op |-> "EXCEPTION_IR", to |-> 0]

\* Whatever was dropped, paused or drained, each message reaches a decoder
\* that can place it: the counts lead from event to event of the program, a
\* predicted return meets the frame the decoder kept, an anchor lies where
\* the hart went on (beats to messages, the overflow marker, the pause
\* correlation and the pairing of the two FIFOs together).
NoFault == walker.fault = "none"

\* The two FIFOs never lose step: every change of control flow on its way
\* has exactly one address on its way, captured or still to be captured
\* (PendingCfNextIaddr, the drop gate, the margin of the sideband gate).
EveryEventPaired ==
  LET Waiting(q) == Len(SelectSeq(q, Owes))
  IN  Waiting(skid) + Waiting(etip) =
        Len(side) + Len(nextIaddr) + (IF pendingCf THEN 1 ELSE 0)

\* The markers of an overflow follow every message accepted before it: none
\* waits in the skid queue while the injector is at work, so none is thrown
\* away (the assertion next to the injector says the same).
MarkersBehindAccepted == Busy => skid = <<>>

\* The answer to a pause edge has sent the correlation: the counted rest is
\* handed over and the return-address stack is empty (assertion I3).
CorrClearsRetstack == doCorr /\ flushAck => retStack = <<>> /\ icnt = 0

\* Tracing, everything delivered, no drop pending.
Settled == /\ etip = <<>> /\ skid = <<>> /\ side = <<>> /\ nextIaddr = <<>>
           /\ ~pendingCf /\ ~Busy /\ ~ovfPending
           /\ active /\ prevActive /\ ~resumeHold

\* Once everything is delivered the decoder stands at the hart, the count
\* not yet sent away from it: nothing that happened is missing unannounced
\* (the count and the anchors across overflow, pause and resume).
DecoderUpToDate == Settled => walker.at # None /\ walker.at + icnt = hart.pc

\* What was accepted can be decoded, keeps its pairing on the way, and when it
\* has arrived the decoder stands where the hart is.
StreamDecodes == TypeOK /\ NoFault /\ EveryEventPaired /\ DecoderUpToDate
=============================================================================
