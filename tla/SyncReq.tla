------------------------------- MODULE SyncReq -------------------------------
(***************************************************************************)
(* The explicit synchronization request of the register                    *)
(* trTeControl.InstSyncReq: the pacer in the CSR clock domain, the pending *)
(* latch and the acknowledgement in the trace domain, and one two-flop     *)
(* level synchronizer each way.  The two clocks tick independently and     *)
(* each domain has its own reset.                                          *)
(***************************************************************************)
EXTENDS Integers

CONSTANTS WbRun,       \* bound: wb_clk edges between two tip_clk edges
          TipRun,      \* bound: tip_clk edges between two wb_clk edges
          WbResets,    \* bound: resets of the CSR domain
          TipResets    \* bound: resets of the trace domain

ASSUME SyncReqAssumption == /\ WbRun \in Nat \ {0} /\ TipRun \in Nat \ {0}
                            /\ WbResets \in Nat /\ TipResets \in Nat

VARIABLES
  Req, Queued,             \* pacer
  ackMeta, ackWb,          \* signal_cdc_trTeInstSyncReqAck, young and old stage
  Settle,                  \* CSR edges since reset: the bus bridge fills
  reqMeta, reqTip,         \* signal_cdc_trTeInstSyncReq
  TeSyncPending, TeSyncAck,
  lead,                    \* consecutive edges: CSR clock > 0, trace clock < 0
  wbResets, tipResets,     \* resets so far
  due,                     \* messages promised and not yet emitted
  unanswered,              \* has there been a write since the last message?
  extra                    \* messages nobody asked for

csrVars   == <<Req, Queued, ackMeta, ackWb, Settle, wbResets>>
tipVars   == <<reqMeta, reqTip, TeSyncPending, TeSyncAck, tipResets>>
ghostVars == <<due, unanswered, extra>>
vars      == <<csrVars, tipVars, lead, ghostVars>>

TypeOK == /\ {Req, Queued, ackMeta, ackWb} \subseteq BOOLEAN
          /\ {reqMeta, reqTip, TeSyncPending, TeSyncAck} \subseteq BOOLEAN
          /\ Settle \in 0 .. 2
          /\ lead \in -TipRun .. WbRun
          /\ wbResets \in 0 .. WbResets /\ tipResets \in 0 .. TipResets
          /\ unanswered \in BOOLEAN
          /\ due \in 0 .. 3 /\ extra \in Nat

Init == /\ Req = FALSE /\ Queued = FALSE /\ ackMeta = FALSE /\ ackWb = FALSE
        /\ reqMeta = FALSE /\ reqTip = FALSE
        /\ TeSyncPending = FALSE /\ TeSyncAck = FALSE
        /\ Settle = 0 /\ lead = 0 /\ wbResets = 0 /\ tipResets = 0
        /\ due = 0 /\ unanswered = FALSE /\ extra = 0

-----------------------------------------------------------------------------
(* CSR domain, wb_clk *)

WbTicks == lead < WbRun /\ lead' = IF lead < 0 THEN 1 ELSE lead + 1

IdleNoAck == ~Req                 \* seeded fault: the fourth phase is skipped
idle == ~Req /\ ~ackWb

Raise(write)    == idle /\ (write \/ Queued)
RememberNever(write) == FALSE     \* seeded fault
Remember(write) == write /\ ~Raise(write)

\* The bridge and the field storage put a write pulse three edges behind the
\* reset at the earliest.
MayWrite == Settle = 2

WbEdge(write) ==
  /\ WbTicks
  /\ write => MayWrite
  /\ Req' = IF Raise(write) THEN TRUE ELSE IF Req /\ ackWb THEN FALSE ELSE Req
  /\ Queued' = IF Raise(write) THEN FALSE ELSE IF Remember(write) THEN TRUE ELSE Queued
  /\ ackMeta' = TeSyncAck
  /\ ackWb' = ackMeta
  /\ Settle' = IF Settle < 2 THEN Settle + 1 ELSE 2
  \* A write owns a message unless an earlier one already waits for its turn.
  /\ due' = IF write /\ ~Queued THEN due + 1 ELSE due
  /\ unanswered' = (unanswered \/ write)
  /\ UNCHANGED <<tipVars, wbResets, extra>>

\* A reset of the CSR domain withdraws what software asked for.
WbResetEdge ==
  /\ WbTicks
  /\ wbResets < WbResets
  /\ wbResets' = wbResets + 1
  /\ Req' = FALSE /\ Queued' = FALSE /\ ackMeta' = FALSE /\ ackWb' = FALSE
  /\ Settle' = 0
  /\ due' = 0 /\ unanswered' = FALSE
  /\ UNCHANGED <<tipVars, extra>>

-----------------------------------------------------------------------------
(* Trace domain, tip_clk *)

TipTicks == lead > -TipRun /\ lead' = IF lead > 0 THEN -1 ELSE lead - 1

ArmAlways == reqTip               \* seeded fault: armed while acknowledged
Arm == reqTip /\ ~TeSyncAck

AckSticky(served) == IF served THEN TRUE ELSE TeSyncAck  \* seeded fault
AckNext(served) == IF served THEN TRUE ELSE IF ~reqTip THEN FALSE ELSE TeSyncAck

\* anchor: tracing is active, a qualified instruction retires and no arm of
\* higher priority takes this cycle.
TipEdge(anchor) ==
  LET served == TeSyncPending /\ anchor
  IN /\ TipTicks
     /\ reqMeta' = Req
     /\ reqTip' = reqMeta
     /\ TeSyncPending' = IF served THEN FALSE ELSE IF Arm THEN TRUE ELSE TeSyncPending
     /\ TeSyncAck' = AckNext(served)
     /\ due' = IF served /\ due > 0 THEN due - 1 ELSE due
     /\ extra' = IF served /\ due = 0 THEN extra + 1 ELSE extra
     /\ unanswered' = (unanswered /\ ~served)
     /\ UNCHANGED <<csrVars, tipResets>>

\* The latch and the acknowledgement are lost, the request level is not.
TipResetEdge ==
  /\ TipTicks
  /\ tipResets < TipResets
  /\ tipResets' = tipResets + 1
  /\ reqMeta' = FALSE /\ reqTip' = FALSE
  /\ TeSyncPending' = FALSE /\ TeSyncAck' = FALSE
  /\ UNCHANGED <<csrVars, ghostVars>>

-----------------------------------------------------------------------------
Next == \/ \E write \in BOOLEAN : WbEdge(write)
        \/ WbResetEdge
        \/ \E anchor \in BOOLEAN : TipEdge(anchor)
        \/ TipResetEdge

Spec == Init /\ [][Next]_vars

\* Both clocks run, and instructions that may carry a message keep retiring.
FairSpec == /\ Spec
            /\ WF_vars(\E write \in BOOLEAN : WbEdge(write))
            /\ WF_vars(\E anchor \in BOOLEAN : TipEdge(anchor))
            /\ SF_vars(TipEdge(TRUE))

-----------------------------------------------------------------------------
(* Properties *)

\* Nothing of the handshake is in flight.
AtRest == /\ ~Req /\ ~Queued /\ ~ackMeta /\ ~ackWb
          /\ ~reqMeta /\ ~reqTip /\ ~TeSyncPending /\ ~TeSyncAck

\* ct_sync_req_pacer, "it becomes its OWN request and gets its own
\* synchronization message": at rest no promised message is missing, as long
\* as no domain has been reset.
Untouched == wbResets = 0 /\ tipResets = 0
NothingLost == AtRest /\ Untouched => due = 0

\* The same without counting: at rest every write has had a message after it.
\* The header of the pacer claims it across a reset of either side ("a reset
\* on either side re-converges instead of losing the request").
NoWriteForgotten == AtRest => ~unanswered

\* doc/integration.adoc, "it may cost one extra synchronization message":
\* only a reset does, and each reset one at most.
ExtraNeedsReset == extra <= wbResets + tipResets

\* Every write is followed by a synchronization message emitted after it.
RequestServed == []Untouched => (unanswered ~> ~unanswered)

\* The launch side is never left waiting for an acknowledgement and a
\* remembered write is raised, whichever side is reset at whatever moment.
HandshakeCloses == (Req ~> ~Req) /\ (Queued ~> ~Queued)

\* The handshake serves: every write is answered later on, no side waits for
\* ever, and no message comes unasked except one for each reset.
HandshakeServes == []ExtraNeedsReset /\ RequestServed /\ HandshakeCloses
=============================================================================
