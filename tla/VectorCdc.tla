------------------------------ MODULE VectorCdc ------------------------------
(***************************************************************************)
(* vector_cdc2: a word that changes freely on one clock is handed to       *)
(* another clock by a toggle handshake.  The launch side copies the word   *)
(* and toggles when the last toggle has been acknowledged; the receiving   *)
(* side copies it when the toggle has passed two flops.  Both sides have   *)
(* an asynchronous reset of their own.                                     *)
(***************************************************************************)
EXTENDS Integers

CONSTANTS Data,      \* the words
          Zero,      \* the word both sides reset to
          DResets,   \* bound: resets of the launch side
          QResets    \* bound: resets of the receiving side

ASSUME VectorCdcAssumption == Zero \in Data
                               /\ DResets \in Nat /\ QResets \in Nat

VARIABLES
  d_data,                                        \* the free-running input
  DData, DToggle, AckSync1, AckSync2, LastAck,   \* d_clk
  QData, AckToggle, ReqSync1, ReqSync2, LastReq, \* q_clk
  age,       \* q_clk edges since DData changed, at most 2
  dResets, qResets   \* resets so far

dVars == <<d_data, DData, DToggle, AckSync1, AckSync2, LastAck>>
qVars == <<QData, AckToggle, ReqSync1, ReqSync2, LastReq>>
wordVars == <<dVars, qVars, age, dResets, qResets>>

WordTypeOK == /\ {d_data, DData, QData} \subseteq Data
              /\ {DToggle, AckSync1, AckSync2, LastAck} \subseteq {0, 1}
              /\ {AckToggle, ReqSync1, ReqSync2, LastReq} \subseteq {0, 1}
              /\ age \in 0 .. 2
              /\ dResets \in 0 .. DResets /\ qResets \in 0 .. QResets

\* The registers have no initial value: the design starts in reset.
WordInit == /\ d_data \in Data
            /\ DData = Zero /\ DToggle = 0
            /\ AckSync1 = 0 /\ AckSync2 = 0 /\ LastAck = 1
            /\ QData = Zero /\ AckToggle = 0
            /\ ReqSync1 = 0 /\ ReqSync2 = 0 /\ LastReq = 0
            /\ age = 2 /\ dResets = 0 /\ qResets = 0

FlipWide(b) == b + 1                   \* seeded fault: wider than one bit
Flip(b) == 1 - b

LaunchEarly == AckSync1 # LastAck      \* seeded fault: one flop only
Launch == AckSync2 # LastAck

\* The input follows its own logic.
Input == /\ \E v \in Data \ {d_data} : d_data' = v
         /\ UNCHANGED <<DData, DToggle, AckSync1, AckSync2, LastAck>>
         /\ UNCHANGED <<qVars, age, dResets, qResets>>

\* d_clk
DEdge == /\ AckSync1' = AckToggle /\ AckSync2' = AckSync1
         /\ IF Launch
              THEN /\ LastAck' = AckSync2
                   /\ DData' = d_data
                   /\ DToggle' = Flip(DToggle)
                   /\ age' = IF d_data = DData THEN age ELSE 0
              ELSE UNCHANGED <<LastAck, DData, DToggle, age>>
         /\ UNCHANGED <<d_data, qVars, dResets, qResets>>

ReceiveEarly == ReqSync1 # ReqSync2   \* seeded fault: edge seen one flop early
ReceiveNever == FALSE                 \* seeded fault
Receive == ReqSync2 # LastReq

\* q_clk
QEdge == /\ ReqSync1' = DToggle /\ ReqSync2' = ReqSync1
         /\ IF Receive
              THEN /\ LastReq' = ReqSync2
                   /\ QData' = DData
                   /\ AckToggle' = Flip(AckToggle)
              ELSE UNCHANGED <<LastReq, QData, AckToggle>>
         /\ age' = IF age < 2 THEN age + 1 ELSE 2
         /\ UNCHANGED <<dVars, dResets, qResets>>

DReset == /\ dResets < DResets /\ dResets' = dResets + 1
          /\ DData' = Zero /\ DToggle' = 0
          /\ AckSync1' = 0 /\ AckSync2' = 0 /\ LastAck' = 1
          /\ age' = IF DData = Zero THEN age ELSE 0
          /\ UNCHANGED <<d_data, qVars, qResets>>

QResetKeepsRequest ==  \* seeded fault: LastReq is not reset
          /\ qResets < QResets /\ qResets' = qResets + 1
          /\ QData' = Zero /\ AckToggle' = 0
          /\ ReqSync1' = 0 /\ ReqSync2' = 0
          /\ UNCHANGED <<dVars, age, dResets, LastReq>>
QReset == /\ qResets < QResets /\ qResets' = qResets + 1
          /\ QData' = Zero /\ AckToggle' = 0
          /\ ReqSync1' = 0 /\ ReqSync2' = 0 /\ LastReq' = 0
          /\ UNCHANGED <<dVars, age, dResets>>

WordNext == Input \/ DEdge \/ QEdge \/ DReset \/ QReset

WordSpec == WordInit /\ [][WordNext]_wordVars
WordFairSpec == WordSpec /\ WF_wordVars(DEdge) /\ WF_wordVars(QEdge)

-----------------------------------------------------------------------------
(* Properties *)

\* The handshake cannot stop: a launch or an acknowledgement is always under
\* way, whichever side is reset at whatever moment.
NeverStuck == DToggle # LastReq \/ AckToggle # LastAck

\* "safe CDC": as long as no side is reset alone, a word that is copied has
\* been stable for two receiver edges.
WordUntouched == dResets = 0 /\ qResets = 0
SettledWhenCopied == [][(QEdge /\ Receive /\ WordUntouched) => age = 2]_wordVars

\* A level that stays arrives and stays, resets of either side included.
LevelArrives == \A v \in Data : <>[](d_data = v) => <>[](QData = v)

\* The crossing delivers: no word is copied while it changes, and the last one
\* arrives.
WordsArrive == SettledWhenCopied /\ LevelArrives
=============================================================================
