---------------------------- MODULE PreprocSync ----------------------------
(***************************************************************************)
(* ct_L23_preproc_sync: which retired instruction carries a synchronizing  *)
(* message, and why.  One-shots, two explicit requests and the periodic    *)
(* counter compete for the next retired instruction that may be an anchor; *)
(* a ladder of priorities decides.  A step is an edge of the trace clock   *)
(* with the inputs of that cycle.                                          *)
(***************************************************************************)
EXTENDS Integers, Sequences

CONSTANTS Events,        \* the event one-shots built in (CT_EN_... switches)
          Predict,       \* branch prediction on
          Period,        \* sync_count_max
          CountsCycles   \* InstSyncMode: clock cycles, or retired instructions

ASSUME PreprocSyncAssumption ==
  /\ Events \subseteq {"debug", "powerdown", "evti", "trig"}
  /\ Predict \in BOOLEAN /\ CountsCycles \in BOOLEAN
  /\ Period \in Nat \ {0}

VARIABLES
  prev,          \* inputs of the last cycle: tracing, debug mode, power down
  pend,          \* pending one-shots
  reason,        \* SyncReason
  extState, extAck,      \* signal_ack_lock_fsm and ExtSyncAck
  te, tePending, teAck,  \* the register request, TeSyncPending, TeSyncAck
  clr, count,            \* SyncCntClr and the counter
  \* Observations:
  anchored,              \* has this stretch of tracing been re-anchored?
  extCredit, teCredit,   \* a request without its message
  anchor,                \* did the last cycle offer an anchor to a request?
  since                  \* anchors since the last message, at most Window + 1

reqVars == <<extState, extAck, te, tePending, teAck>>
obsVars == <<anchored, extCredit, teCredit, anchor, since>>
vars    == <<prev, pend, reason, reqVars, clr, count, obsVars>>

Levels   == {"debug", "powerdown"}          \* one-shot on the falling edge
Pulses   == {"evti", "trig"}
OneShots == {"sys_rst", "enable"} \cup Events
Ladder   == <<"sys_rst", "debug", "powerdown", "evti", "trig", "enable",
              "req", "periodic">>
Arms     == {Ladder[i] : i \in DOMAIN Ladder}
Retires  == {"none", "branch", "other"}
Inputs   == SUBSET ({"active", "atb", "te"} \cup Events)
Window   == Period + 2

\* Types; the counter saturates and never passes its threshold.
TypeOK == /\ prev \subseteq {"active"} \cup Levels
          /\ pend \subseteq OneShots
          /\ reason \in Arms \cup {"none"}
          /\ extState \in {"idle", "wait_ack", "wait_release"}
          /\ {extAck, te, tePending, teAck, clr, anchored, extCredit, teCredit,
              anchor} \subseteq BOOLEAN
          /\ count \in 0 .. Period
          /\ since \in 0 .. Window + 1

Init == /\ prev = {} /\ pend = {"sys_rst"} /\ reason = "none"
        /\ extState = "idle" /\ extAck = FALSE
        /\ te = FALSE /\ tePending = FALSE /\ teAck = FALSE
        /\ clr = TRUE /\ count = 0
        /\ anchored = FALSE /\ extCredit = FALSE /\ teCredit = FALSE
        /\ anchor = FALSE /\ since = 0

-----------------------------------------------------------------------------
(* The signals of a cycle *)

Active(on) == "active" \in on
Rise(on)   == Active(on) /\ "active" \notin prev
AnchorOk(retire) == retire = "other" \/ (retire = "branch" /\ ~Predict)
Overflow   == count = Period
DoExt      == extState = "wait_ack"

\* Seeded fault: the guard without the latch cycle of the one-shot.
EnablePendingLate(on) == "enable" \in pend

\* A TRACE_ENABLE re-anchor is outstanding, its latch cycle included.
EnablePendingNow(on) == "enable" \in pend \/ Rise(on)

\* Seeded fault: the bus request without its "already served" term.
RequestTwice == DoExt \/ tePending

Request == (DoExt /\ ~extAck) \/ tePending

\* The arms that could fire in this cycle, and the one that does.
Ready(retire, on) ==
  IF ~AnchorOk(retire) THEN {} ELSE
  {s \in pend : s = "sys_rst" \/ Active(on)}
    \cup {a \in {"req", "periodic"} :
            /\ Active(on) /\ ~EnablePendingNow(on)
            /\ a = "req" => Request
            /\ a = "periodic" => Overflow /\ ~clr}

Arm(retire, on) ==
  IF Ready(retire, on) = {} THEN "none"
  ELSE Ladder[CHOOSE i \in DOMAIN Ladder :
                /\ Ladder[i] \in Ready(retire, on)
                /\ \A j \in 1 .. i - 1 : Ladder[j] \notin Ready(retire, on)]

\* The one-shots of this cycle; the events only count while tracing.
Latched(on) ==
  {s \in {"enable"} : Rise(on)}
    \cup {e \in Events : /\ Active(on)
                         /\ e \in Levels => e \in prev \ on
                         /\ e \in Pulses => e \in on}

\* What a message makes superfluous.
Subsumed(arm, on) ==
  CASE arm = "sys_rst" /\ Active(on) -> OneShots \ {"trig"}
    [] arm \in Levels                -> {arm, "enable"}
    [] OTHER                         -> {arm}

-----------------------------------------------------------------------------
(* The registers *)

OneShotEdge(arm, on) ==
  /\ prev' = on \cap ({"active"} \cup Levels)
  /\ pend' = ((pend \cup Latched(on)) \ (IF Active(on) THEN {} ELSE Events))
               \ Subsumed(arm, on)
  /\ reason' = IF arm = "sys_rst" /\ ~Active(on) THEN "none" ELSE arm

ExtEdge(arm, on) ==
  /\ extAck' = IF DoExt THEN extAck \/ arm = "req" ELSE FALSE
  /\ extState' = CASE extState = "idle" /\ "atb" \in on         -> "wait_ack"
                   [] extState = "wait_ack" /\ extAck           -> "wait_release"
                   [] extState = "wait_release" /\ "atb" \notin on -> "idle"
                   [] OTHER                                     -> extState

\* Seeded fault: a blanket acknowledgement clears the latch on any answer.
TeEdgeBlanket(arm, on) ==
  /\ te' = ("te" \in on)
  /\ tePending' = (arm # "req" /\ (tePending \/ ("te" \in on /\ ~teAck)))
  /\ teAck' = ((arm = "req" /\ tePending) \/ ("te" \in on /\ teAck))

TeEdge(arm, on) ==
  /\ te' = ("te" \in on)
  /\ LET served == arm = "req" /\ tePending IN
     /\ tePending' = (~served /\ (tePending \/ ("te" \in on /\ ~teAck)))
     /\ teAck' = (served \/ ("te" \in on /\ teAck))

\* Seeded fault: the overflow clears the counter without waiting for an anchor.
CounterEdgeHasty(arm, retire) ==
  /\ clr' = (arm # "none" \/ Overflow)
  /\ count' = IF clr THEN 0
              ELSE IF ~Overflow /\ (CountsCycles \/ retire # "none")
                     THEN count + 1 ELSE count

\* Seeded fault: the counter does not saturate.
CounterEdgeWraps(arm, retire) ==
  /\ clr' = (arm # "none" \/ (clr /\ Overflow))
  /\ count' = IF clr THEN 0
              ELSE IF CountsCycles \/ retire # "none" THEN count + 1 ELSE count

CounterEdge(arm, retire) ==
  /\ clr' = (arm # "none" \/ (clr /\ Overflow))
  /\ count' = IF clr THEN 0
              ELSE IF ~Overflow /\ (CountsCycles \/ retire # "none")
                     THEN count + 1 ELSE count

\* Tracing is re-anchored by a message that says so.
ReAnchors == {"sys_rst", "debug", "powerdown", "enable"}

Observe(arm, retire, on) ==
  /\ anchored' = (Active(on) /\ (anchored \/ reason' \in ReAnchors))
  /\ extCredit' = \/ extState = "idle" /\ "atb" \in on
                  \/ extCredit /\ ~(arm = "req" /\ DoExt)
  /\ teCredit' = \/ "te" \in on /\ ~te
                 \/ /\ teCredit /\ ~(arm = "req" /\ tePending)
                    /\ "te" \in on \/ tePending   \* withdrawn before it was seen
  /\ anchor' = (AnchorOk(retire) /\ Active(on) /\ ~Rise(on))
  /\ since' = IF reason' # "none" THEN 0
              ELSE IF anchor' /\ since <= Window THEN since + 1 ELSE since

\* The pacer keeps the four phases (the crossing and its delay: SyncReq); a
\* reset of this side may have cleared the acknowledgement it has seen.
FourPhase(on) == /\ "te" \in on /\ ~te => ~teAck
                 /\ "te" \notin on /\ te => teAck \/ ~tePending

Edge(retire, on) ==
  LET arm == Arm(retire, on) IN
  /\ FourPhase(on)
  /\ OneShotEdge(arm, on)
  /\ ExtEdge(arm, on)
  /\ TeEdge(arm, on)
  /\ CounterEdge(arm, retire)
  /\ Observe(arm, retire, on)

\* A reset of the trace domain; a request that is up counts again.
Reset == /\ prev' = {} /\ pend' = {"sys_rst"} /\ reason' = "none"
         /\ extState' = "idle" /\ extAck' = FALSE
         /\ tePending' = FALSE /\ teAck' = FALSE /\ UNCHANGED te
         /\ clr' = TRUE /\ count' = 0
         /\ anchored' = FALSE /\ extCredit' = FALSE /\ teCredit' = te
         /\ anchor' = FALSE /\ since' = 0

Next == Reset \/ \E retire \in Retires, on \in Inputs : Edge(retire, on)

Spec == Init /\ [][Next]_vars

-----------------------------------------------------------------------------
(* Properties *)

\* ct_L23_preproc_sync.sv:330: after a pause the re-anchor comes before any
\* periodic or requested message, whatever the counter and the requests did
\* during the pause.
ReanchorFirst == [][reason' \in {"req", "periodic"} => anchored]_vars

\* ct_L23_preproc_sync.sv:574-588: a request, from the bus or the register,
\* owns at most one message, however close the anchors follow each other.
RequestAnsweredOnce == [][reason' = "req" => extCredit \/ teCredit]_vars

\* ct_L23_preproc_sync.sv:564-569: a waiting request never lets an anchor pass
\* without a message; in particular the answer to one source does not swallow
\* a request the other raises in that cycle.
RequestNotPassedOver ==
  [][(extCredit \/ teCredit) /\ anchor' => reason' # "none"]_vars

\* ct_L23_preproc_sync.sv:617: the period is a maximum.  A decoder that
\* starts anywhere meets a message within Window anchors, although the counter
\* saturates, may be cleared at any time and stands still while being cleared.
WindowBounded == since <= Window

\* A decoder that waits meets a message: the period is a maximum, and a request
\* is answered at the next anchor.
LadderServes == []WindowBounded /\ RequestNotPassedOver
=============================================================================
