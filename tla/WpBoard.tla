------------------------------ MODULE WpBoard ------------------------------
(***************************************************************************)
(* Loading the watchpoint table on the board: wp_board.py prep with        *)
(* wp_load_indirect.py, the two other writers of the table                 *)
(* (wp_board_start.py and the dashboard's load), and the dashboard that    *)
(* meanwhile switches an encoder or reads its registers.  One register     *)
(* access is one step.  The encoder's indexed table is modelled from       *)
(* FakeIndirectBus, the reference model of the loader's own test; that     *)
(* Enable makes the writes vanish is the lock the loader names.            *)
(***************************************************************************)
EXTENDS Integers

CONSTANTS
    NSlots,         \* N_SLOTS
    ProbeSlots,     \* probe_slots
    MaxToggles,     \* bound: times the dashboard flips an Enable
    MaxPeeks        \* bound: reads of READ_HI by the dashboard

Enc == {0, 1}
Slot == 0 .. NSlots - 1

VARIABLES
    enable,     \* trTeControl.Enable
    idx,        \* trWpIndex
    lo,         \* trWpDataLow
    mem,        \* the table: [lo, hi] per slot; -1 is an old entry
    src,        \* SrcID, SrcBits set for this core
    tsType,     \* trTsControl: Type = TR_TS_CORE
    cores,      \* core_run
    ram,        \* the program and WALK_CTRL are in the RAMs
    pc,         \* prep: [step, e, i], or how it ended
    toggled,    \* an Enable was flipped while prep ran
    toggles, peeks
enc == <<enable, idx, lo, mem, src, tsType>>
vars == <<enc, cores, ram, pc, toggled, toggles, peeks>>

\* The table: the addresses ascend; cmd_word carries the slot index, so entry i
\* is i in both words.
OldTable == [s \in Slot |-> [lo |-> -1, hi |-> -1]]

Init ==
    /\ enable \in [Enc -> BOOLEAN]
    /\ idx \in [Enc -> {0, 1}] /\ lo = [e \in Enc |-> -1]
    /\ mem = [e \in Enc |-> OldTable]
    /\ src = [e \in Enc |-> FALSE] /\ tsType = [e \in Enc |-> FALSE]
    /\ cores \in BOOLEAN /\ ram = FALSE
    /\ pc = [step |-> "sanity", e |-> 0, i |-> 0]
    /\ toggled = FALSE /\ toggles = 0 /\ peeks = 0

-----------------------------------------------------------------------------
(* The register window of an encoder (FakeIndirectBus). *)

Advance(i) == IF i = NSlots - 1 THEN 0 ELSE i + 1
WriteIdx(e, v) ==
    /\ idx' = (IF enable[e] THEN idx ELSE [idx EXCEPT ![e] = v])
    /\ UNCHANGED <<enable, lo, mem, src, tsType>>
WriteLo(e, v) ==
    /\ lo' = (IF enable[e] THEN lo ELSE [lo EXCEPT ![e] = v])
    /\ UNCHANGED <<enable, idx, mem, src, tsType>>
\* The commit: the pair goes to the slot of Idx, and Idx advances.
WriteHi(e, v) ==
    /\ mem' = (IF enable[e] THEN mem ELSE [mem EXCEPT ![e][idx[e]] = [lo |-> lo[e], hi |-> v]])
    /\ idx' = (IF enable[e] THEN idx ELSE [idx EXCEPT ![e] = Advance(@)])
    /\ UNCHANGED <<enable, lo, src, tsType>>
\* READ_HI moves Idx, READ_LO does not.
ReadHi(e) == idx' = [idx EXCEPT ![e] = Advance(@)] /\ UNCHANGED <<enable, lo, mem, src, tsType>>

-----------------------------------------------------------------------------
(* wp_board.py prep. *)

Step(s) == pc.step = s
Goto(s) == pc' = [pc EXCEPT !.step = s]
GotoI(s, i) == pc' = [pc EXCEPT !.step = s, !.i = i]
Ours == UNCHANGED <<toggled, toggles, peeks>>

\* fpga_manager and the magic of the design (the design is the right one here),
\* then the cores are held, the RAMs loaded and WALK_CTRL written and read back;
\* the rows of the table file must agree with cmd_word and be N_SLOTS many.
Sanity == Step("sanity") /\ Goto("hold") /\ UNCHANGED <<enc, cores, ram>> /\ Ours
HoldCores == Step("hold") /\ cores' = FALSE /\ Goto("ram") /\ UNCHANGED <<enc, ram>> /\ Ours
LoadRam == Step("ram") /\ ram' = TRUE /\ Goto("disarm") /\ UNCHANGED <<enc, cores>> /\ Ours

\* Loading needs Enable = 0.
Disarm ==
    /\ Step("disarm")
    /\ enable' = [enable EXCEPT ![pc.e] = FALSE]
    /\ toggled' = (IF pc.e = 0 THEN FALSE ELSE toggled)
    /\ Goto("idx") /\ UNCHANGED <<idx, lo, mem, src, tsType, cores, ram, toggles, peeks>>

\* load_table: trWpCap is the length; Idx := 0, then Low and High per slot.
IdxZero == Step("idx") /\ WriteIdx(pc.e, 0) /\ GotoI("lo", 0) /\ UNCHANGED <<cores, ram>> /\ Ours
DataLo == Step("lo") /\ WriteLo(pc.e, pc.i) /\ Goto("hi") /\ UNCHANGED <<cores, ram>> /\ Ours
DataHi ==
    /\ Step("hi") /\ WriteHi(pc.e, pc.i)
    /\ IF pc.i = NSlots - 1 THEN Goto("wrap") ELSE GotoI("lo", pc.i + 1)
    /\ UNCHANGED <<cores, ram>> /\ Ours
\* The wrap proof: Idx is 0 again.
WrapProof ==
    /\ Step("wrap")
    /\ IF idx[pc.e] # 0 THEN Goto("failed") ELSE GotoI("probe", 0)
    /\ UNCHANGED <<enc, cores, ram>> /\ Ours

\* verify_slot, for every probe slot: Idx := slot; ReadLow is the address and
\* moves nothing; ReadHigh is the command and moves Idx to the next slot.
NextProbe(i) == IF \E s \in ProbeSlots : s >= i
                THEN {CHOOSE s \in ProbeSlots : s >= i /\ \A u \in ProbeSlots : u >= i => s <= u}
                ELSE {}
\* Mutant: no slot is probed.
ProbeIdxNot ==
    /\ Step("probe") /\ Goto("ts") /\ UNCHANGED <<enc, cores, ram>> /\ Ours
ProbeIdx ==
    /\ Step("probe")
    /\ IF NextProbe(pc.i) = {} THEN Goto("ts") /\ UNCHANGED enc
       ELSE \E s \in NextProbe(pc.i) : WriteIdx(pc.e, s) /\ GotoI("readlo", s)
    /\ UNCHANGED <<cores, ram>> /\ Ours
ReadLow ==
    /\ Step("readlo")
    /\ IF mem[pc.e][idx[pc.e]].lo # pc.i THEN Goto("failed") ELSE Goto("unmoved")
    /\ UNCHANGED <<enc, cores, ram>> /\ Ours
Unmoved ==
    /\ Step("unmoved")
    /\ IF idx[pc.e] # pc.i THEN Goto("failed") ELSE Goto("readhi")
    /\ UNCHANGED <<enc, cores, ram>> /\ Ours
ReadHigh ==
    /\ Step("readhi") /\ ReadHi(pc.e)
    /\ IF mem[pc.e][idx[pc.e]].hi # pc.i THEN Goto("failed") ELSE Goto("moved")
    /\ UNCHANGED <<cores, ram>> /\ Ours
Moved ==
    /\ Step("moved")
    /\ IF idx[pc.e] # Advance(pc.i) THEN Goto("failed") ELSE GotoI("probe", pc.i + 1)
    /\ UNCHANGED <<enc, cores, ram>> /\ Ours

\* ts_config: its readback is checked, so a locked write ends prep.
TsConfig ==
    /\ Step("ts")
    /\ tsType' = (IF enable[pc.e] THEN tsType ELSE [tsType EXCEPT ![pc.e] = TRUE])
    /\ IF tsType'[pc.e] THEN Goto("feat") ELSE Goto("failed")
    /\ UNCHANGED <<enable, idx, lo, mem, src, cores, ram>> /\ Ours
\* enc_arm: SrcID and SrcBits, their readback only logged, then trTeControl.
Features ==
    /\ Step("feat")
    /\ src' = (IF enable[pc.e] THEN src ELSE [src EXCEPT ![pc.e] = TRUE])
    /\ Goto("arm") /\ UNCHANGED <<enable, idx, lo, mem, tsType, cores, ram>> /\ Ours
Arm ==
    /\ Step("arm")
    /\ enable' = [enable EXCEPT ![pc.e] = TRUE]
    /\ IF pc.e = 1 THEN Goto("done") ELSE pc' = [step |-> "disarm", e |-> 1, i |-> 0]
    /\ UNCHANGED <<idx, lo, mem, src, tsType, cores, ram>> /\ Ours

Prep ==
    \/ Sanity \/ HoldCores \/ LoadRam \/ Disarm \/ IdxZero \/ DataLo \/ DataHi \/ WrapProof
    \/ ProbeIdx \/ ReadLow \/ Unmoved \/ ReadHigh \/ Moved \/ TsConfig \/ Features \/ Arm

-----------------------------------------------------------------------------
(* Everyone else. *)

\* wp_board.py start and stop.
StartStop ==
    /\ pc.step \in {"done", "failed"} /\ cores' \in BOOLEAN
    /\ UNCHANGED <<enc, ram, pc>> /\ Ours

\* wp_board_start.py: the table goes to the direct window, which no register is
\* behind; then it arms and starts.  Before prep, or after it.
StartScript ==
    /\ pc.step \in {"sanity", "done", "failed"} /\ ~cores
    /\ enable' = [e \in Enc |-> TRUE]
    /\ src' = [e \in Enc |-> src[e] \/ ~enable[e]]
    /\ cores' = TRUE /\ ram' = TRUE
    /\ UNCHANGED <<idx, lo, mem, tsType, pc>> /\ Ours

\* POST /api/write on trTeControl while prep runs.
Toggle(e) ==
    /\ toggles < MaxToggles /\ toggles' = toggles + 1
    /\ enable' = [enable EXCEPT ![e] = ~@]
    /\ toggled' = TRUE
    /\ UNCHANGED <<idx, lo, mem, src, tsType, cores, ram, pc, peeks>>

\* GET /api/regs or /api/read of READ_HI.
Peek(e) ==
    /\ peeks < MaxPeeks /\ peeks' = peeks + 1
    /\ ReadHi(e)
    /\ UNCHANGED <<cores, ram, pc, toggled, toggles>>

Next == Prep \/ StartStop \/ StartScript \/ (\E e \in Enc : Toggle(e) \/ Peek(e))
Spec == Init /\ [][Next]_vars
-----------------------------------------------------------------------------
\* PREP_DONE is evidence.  Whatever registers were read meanwhile, the tables of
\* both encoders are the file's and both are set up and armed; and if an Enable
\* was flipped meanwhile, but nothing read, still every command word is the
\* file's, for a write the lock swallowed shows in the wrap proof or a probe.
LoadIsEvidence ==
    Step("done") =>
        \A e \in Enc :
            /\ ~toggled => /\ \A s \in Slot : mem[e][s] = [lo |-> s, hi |-> s]
                           /\ tsType[e] /\ src[e] /\ enable[e]
            /\ peeks = 0 => \A s \in Slot : mem[e][s].hi = s
=============================================================================
