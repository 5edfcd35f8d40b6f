------------------------------ MODULE CdcProofs ------------------------------
(***************************************************************************)
(* The two handshakes across clock domains.                                *)
(*                                                                         *)
(* SyncReq: without resets the two levels go round the ring                *)
(*    Req, reqMeta, reqTip, TeSyncPending, TeSyncAck, ackMeta, ackWb       *)
(* with at most one edge under way: a rising one while Req is up, a falling *)
(* one while it is down.  This is the inductive invariant; it makes every  *)
(* promised message visible as Queued or as a request not acknowledged.    *)
(*                                                                         *)
(* VectorCdc: the toggle handshake never stops, for any number of resets   *)
(* of either side: both toggles stay complements of what the other side    *)
(* remembers.  Without resets the handshake has one token, and the token   *)
(* is what keeps a word stable while it is copied.                         *)
(***************************************************************************)
EXTENDS SyncReq, VectorCdc, TLAPS

Booleans == /\ Req \in BOOLEAN /\ Queued \in BOOLEAN
            /\ ackMeta \in BOOLEAN /\ ackWb \in BOOLEAN
            /\ reqMeta \in BOOLEAN /\ reqTip \in BOOLEAN
            /\ TeSyncPending \in BOOLEAN /\ TeSyncAck \in BOOLEAN
            /\ unanswered \in BOOLEAN

Rising == Req => /\ ackWb => ackMeta
                 /\ ackMeta => TeSyncAck
                 /\ TeSyncAck => reqTip /\ ~TeSyncPending
                 /\ TeSyncPending => reqTip
                 /\ reqTip => reqMeta

Falling == ~Req => /\ ~TeSyncPending
                   /\ reqMeta => reqTip
                   /\ reqTip => TeSyncAck
                   /\ TeSyncAck => ackMeta
                   /\ ackMeta => ackWb

Owed == (IF Queued THEN 1 ELSE 0) + (IF Req /\ ~TeSyncAck THEN 1 ELSE 0)

Promise == /\ due = Owed
           /\ unanswered => due > 0
           /\ extra = 0
           /\ wbResets = 0 /\ tipResets = 0

IInv == Booleans /\ Rising /\ Falling /\ Promise

LEMMA InitIInv == Init => IInv
<1> SUFFICES ASSUME Init PROVE IInv
  OBVIOUS
<1>1. Booleans
  BY DEF Init, Booleans
<1>2. /\ ~Req /\ ~Queued /\ ~TeSyncPending /\ ~reqMeta /\ ~reqTip
      /\ ~TeSyncAck /\ ~ackMeta /\ ~unanswered
  BY Zenon DEF Init
<1>3. due = 0 /\ extra = 0 /\ wbResets = 0 /\ tipResets = 0
  BY DEF Init
<1>4. QED
  BY <1>1, <1>2, <1>3 DEF IInv, Rising, Falling, Promise, Owed

LEMMA WbIInv ==
  ASSUME IInv, NEW write \in BOOLEAN, WbEdge(write)
  PROVE  IInv'
<1> USE DEF IInv, WbEdge, tipVars, Raise, Remember, idle
<1>1. Booleans'
  BY DEF Booleans
<1>2. Rising'
  BY DEF Booleans, Rising, Falling
<1>3. Falling'
  BY DEF Booleans, Rising, Falling
<1>4. Promise'
  BY DEF Booleans, Rising, Falling, Promise, Owed
<1>5. QED
  BY <1>1, <1>2, <1>3, <1>4

LEMMA TipIInv ==
  ASSUME IInv, NEW anchor \in BOOLEAN, TipEdge(anchor)
  PROVE  IInv'
<1> USE DEF IInv, TipEdge, csrVars, Arm, AckNext
<1>1. Booleans'
  BY DEF Booleans
<1>2. Rising'
  BY DEF Booleans, Rising, Falling
<1>3. Falling'
  BY DEF Booleans, Rising, Falling
<1>4. Promise'
  BY DEF Booleans, Rising, Falling, Promise, Owed
<1>5. QED
  BY <1>1, <1>2, <1>3, <1>4

LEMMA StepIInv ==
  ASSUME WbResets = 0, TipResets = 0, IInv, [Next]_vars
  PROVE  IInv'
<1>1. ASSUME NEW write \in BOOLEAN, WbEdge(write) PROVE IInv'
  BY <1>1, WbIInv
<1>2. CASE WbResetEdge
  BY <1>2, SMT DEF WbResetEdge, IInv, Promise
<1>3. ASSUME NEW anchor \in BOOLEAN, TipEdge(anchor) PROVE IInv'
  BY <1>3, TipIInv
<1>4. CASE TipResetEdge
  BY <1>4, SMT DEF TipResetEdge, IInv, Promise
<1>5. CASE UNCHANGED vars
  BY <1>5 DEF vars, csrVars, tipVars, ghostVars, IInv, Booleans, Rising,
              Falling, Promise, Owed
<1>6. QED
  BY <1>1, <1>2, <1>3, <1>4, <1>5 DEF Next

\* Every write owns its synchronization message: as long as no domain is reset
\* a handshake at rest owes none, however fast the two clocks are.
THEOREM NothingLostTheorem ==
  ASSUME WbResets = 0, TipResets = 0
  PROVE  Spec => []NothingLost
<1>1. Init => IInv
  BY InitIInv
<1>2. IInv /\ [Next]_vars => IInv'
  BY StepIInv
<1>3. IInv => NothingLost
  BY SMT DEF IInv, Promise, Owed, NothingLost, AtRest
<1>4. QED
  BY <1>1, <1>2, <1>3, PTL DEF Spec

\* The stronger reading: every write has a message after it, and no message is
\* emitted that nobody asked for.
THEOREM NoWriteForgottenTheorem ==
  ASSUME WbResets = 0, TipResets = 0
  PROVE  Spec => [](NoWriteForgotten /\ ExtraNeedsReset)
<1>1. Init => IInv
  BY InitIInv
<1>2. IInv /\ [Next]_vars => IInv'
  BY StepIInv
<1>3. IInv => NoWriteForgotten /\ ExtraNeedsReset
  BY SMT DEF IInv, Promise, Owed, NoWriteForgotten, AtRest, ExtraNeedsReset
<1>4. QED
  BY <1>1, <1>2, <1>3, PTL DEF Spec

-----------------------------------------------------------------------------
(* vector_cdc2                                                             *)

Bits == /\ DToggle \in {0, 1} /\ AckSync1 \in {0, 1} /\ AckSync2 \in {0, 1}
        /\ LastAck \in {0, 1} /\ AckToggle \in {0, 1} /\ ReqSync1 \in {0, 1}
        /\ ReqSync2 \in {0, 1} /\ LastReq \in {0, 1}

\* Inductive under every step, resets included.
Complements == /\ Bits
               /\ AckToggle = LastReq
               /\ DToggle = 1 - LastAck

LEMMA ComplementsStep ==
  ASSUME Complements, [WordNext]_wordVars
  PROVE  Complements'
<1> USE DEF Complements, Bits, Flip
<1>1. CASE Input
  BY <1>1 DEF Input, qVars
<1>2. CASE DEdge
  <2>1. CASE Launch
    BY <1>2, <2>1 DEF DEdge, qVars, Launch
  <2>2. CASE ~Launch
    BY <1>2, <2>2 DEF DEdge, qVars
  <2> QED BY <2>1, <2>2
<1>3. CASE QEdge
  <2>1. CASE Receive
    BY <1>3, <2>1 DEF QEdge, dVars, Receive
  <2>2. CASE ~Receive
    BY <1>3, <2>2 DEF QEdge, dVars
  <2> QED BY <2>1, <2>2
<1>4. CASE DReset
  BY <1>4 DEF DReset, qVars
<1>5. CASE QReset
  BY <1>5 DEF QReset, dVars
<1>6. CASE UNCHANGED wordVars
  BY <1>6 DEF wordVars, dVars, qVars
<1>7. QED
  BY <1>1, <1>2, <1>3, <1>4, <1>5, <1>6 DEF WordNext

\* vector_cdc2 cannot deadlock: after any sequence of resets of either side a
\* launch or an acknowledgement is under way.
THEOREM NeverStuckTheorem == WordSpec => []NeverStuck
<1>1. WordInit => Complements
  BY DEF WordInit, Complements, Bits
<1>2. Complements /\ [WordNext]_wordVars => Complements'
  BY ComplementsStep
<1>3. Complements => NeverStuck
  BY DEF Complements, Bits, NeverStuck
<1>4. QED
  BY <1>1, <1>2, <1>3, PTL DEF WordSpec

-----------------------------------------------------------------------------
\* One token: what a synchronizer has seen, the stage before it still holds,
\* and the word is as old as the token.
OneToken == /\ Complements
            /\ AckSync2 # LastAck => AckSync1 # LastAck
            /\ AckSync1 # LastAck => AckToggle # LastAck
            /\ ReqSync2 # LastReq => ReqSync1 # LastReq /\ age = 2
            /\ ReqSync1 # LastReq => DToggle # LastReq /\ age >= 1
            /\ age \in 0 .. 2
            /\ dResets = 0 /\ qResets = 0

LEMMA OneTokenStep ==
  ASSUME DResets = 0, QResets = 0, OneToken, [WordNext]_wordVars
  PROVE  OneToken'
<1>0. Complements'
  BY ComplementsStep DEF OneToken
<1> USE DEF OneToken, Complements, Bits, Flip
<1>1. CASE Input
  BY <1>0, <1>1 DEF Input, qVars
<1>2. CASE DEdge
  <2>1. CASE Launch
    BY <1>0, <1>2, <2>1 DEF DEdge, qVars, Launch
  <2>2. CASE ~Launch
    BY <1>0, <1>2, <2>2 DEF DEdge, qVars, Launch
  <2> QED BY <2>1, <2>2
<1>3. CASE QEdge
  <2>1. CASE Receive
    BY <1>0, <1>3, <2>1 DEF QEdge, dVars, Receive
  <2>2. CASE ~Receive
    BY <1>0, <1>3, <2>2 DEF QEdge, dVars, Receive
  <2> QED BY <2>1, <2>2
<1>4. CASE DReset
  BY <1>4 DEF DReset
<1>5. CASE QReset
  BY <1>5 DEF QReset
<1>6. CASE UNCHANGED wordVars
  BY <1>0, <1>6 DEF wordVars, dVars, qVars
<1>7. QED
  BY <1>1, <1>2, <1>3, <1>4, <1>5, <1>6 DEF WordNext

\* As long as no side is reset alone, a word is stable for two receiver edges
\* when it is copied, however fast the two clocks are.
THEOREM SettledTheorem ==
  ASSUME DResets = 0, QResets = 0
  PROVE  WordSpec => SettledWhenCopied
<1>1. WordInit => OneToken
  BY DEF WordInit, OneToken, Complements, Bits
<1>2. OneToken /\ [WordNext]_wordVars => OneToken'
  BY OneTokenStep
<1>3. OneToken /\ [WordNext]_wordVars => [(QEdge /\ Receive /\ WordUntouched) => age = 2]_wordVars
  BY DEF OneToken, Receive
<1>4. QED
  BY <1>1, <1>2, <1>3, PTL DEF WordSpec, SettledWhenCopied
=============================================================================
