-------------------------------- MODULE Probes --------------------------------
(***************************************************************************)
(* Values the dashboard server has to put together from several reads of a *)
(* moving design (examples/dashboard/server.py): the 64-bit program        *)
(* counter of read_core_pc, and the fill histogram of GET /api/fifohist,   *)
(* whose read pointer all requests share.  A register access is one step;  *)
(* core and encoder (external) go on between them.                         *)
(***************************************************************************)
EXTENDS Naturals, Sequences, FiniteSets

CONSTANTS
  Halves,       \* values of one half of the program counter
  Words,        \* histogram words: HIST_BINS // 2
  Askers,       \* threads of GET /api/fifohist
  Attempts,     \* rounds of read_core_pc: 4
  MaxMoves,     \* bound: moves of the core between two reads of the upper half
  MaxAge        \* bound: changes of the histogram

VARIABLES
  core, moves, ran, \* the program counter; its moves and values in this round
  pcr,              \* read_core_pc
  enable, age, ptr, \* trTeControl.Enable; changes of the bins; read pointer
  asker, meddled,   \* the requests; two were active at once, or Enable was set
  subject           \* which of the two this behaviour is about

pcVars == <<core, moves, ran, pcr>>
histVars == <<enable, age, ptr, asker, meddled>>
vars == <<pcVars, histVars, subject>>

NoPc == [pc |-> "hi", hi |-> 0, lo |-> 0, round |-> 0, stable |-> FALSE]
NoHist == [pc |-> "idle", quiet |-> FALSE, bins |-> <<>>]

Init ==
  /\ core \in Halves \X Halves /\ moves = 0 /\ ran = {core} /\ pcr = NoPc
  /\ enable \in BOOLEAN /\ age = 0 /\ ptr \in 0 .. Words - 1
  /\ asker = [a \in Askers |-> NoHist] /\ meddled = FALSE
  /\ subject \in {"pc", "hist"}

-----------------------------------------------------------------------------
\* The core jumps anywhere.
Move(to) ==
  /\ moves < MaxMoves /\ pcr.pc # "done"
  /\ core' = to /\ moves' = moves + 1 /\ ran' = ran \cup {to}
  /\ UNCHANGED <<pcr, histVars>>

\* The first read of the upper half.
PcHigh ==
  /\ pcr.pc = "hi"
  /\ pcr' = [pcr EXCEPT !.pc = "lo", !.hi = core[1]]
  /\ moves' = 0 /\ ran' = {core}
  /\ UNCHANGED <<core, histVars>>

PcLow ==
  /\ pcr.pc = "lo"
  /\ pcr' = [pcr EXCEPT !.pc = "again", !.lo = core[2]]
  /\ UNCHANGED <<core, moves, ran, histVars>>

\* Mutant: the second read of the upper half is taken over, but not compared.
PcAgainTrusts ==
  /\ pcr.pc = "again"
  /\ pcr' = [pcr EXCEPT !.pc = "done", !.stable = TRUE, !.hi = core[1]]
  /\ moves' = 0 /\ ran' = ran
  /\ UNCHANGED <<core, histVars>>

\* The same upper half before and after: a stable pair.  Otherwise again.
PcAgain ==
  /\ pcr.pc = "again"
  /\ IF core[1] = pcr.hi
     THEN /\ pcr' = [pcr EXCEPT !.pc = "done", !.stable = TRUE]
          /\ UNCHANGED <<moves, ran>>
     ELSE /\ pcr' = [pcr EXCEPT !.hi = core[1], !.round = @ + 1,
                       !.pc = IF pcr.round + 1 = Attempts THEN "done" ELSE "lo"]
          /\ moves' = 0 /\ ran' = {core}
  /\ UNCHANGED <<core, histVars>>

PcNext == pcr.pc = "done" /\ pcr' = NoPc /\ UNCHANGED <<core, moves, ran, histVars>>

-----------------------------------------------------------------------------
Active == {a \in Askers : asker[a].pc # "idle"}
Step(a, next) == asker' = [asker EXCEPT ![a] = next]

\* The encoder fills the bins while it is enabled; anybody may switch it.
Count == enable /\ age < MaxAge /\ age' = age + 1 /\ UNCHANGED <<pcVars, enable, ptr, asker, meddled>>
Switch == /\ enable' = ~enable
          /\ meddled' = (meddled \/ Active # {})
          /\ UNCHANGED <<pcVars, age, ptr, asker>>

\* Whether the encoder stands still is asked once, before the first bin.
HistEnable(a) ==
  /\ asker[a].pc = "idle"
  /\ Step(a, [NoHist EXCEPT !.pc = "rewind", !.quiet = ~enable])
  /\ meddled' = (Active # {})
  /\ UNCHANGED <<pcVars, enable, age, ptr>>

\* Mutant: the pointer stays where the last read left it.
HistRewindNot(a) ==
  /\ asker[a].pc = "rewind"
  /\ Step(a, [asker[a] EXCEPT !.pc = "read"])
  /\ UNCHANGED <<pcVars, enable, age, ptr, meddled>>

HistRewind(a) ==
  /\ asker[a].pc = "rewind"
  /\ ptr' = 0 /\ Step(a, [asker[a] EXCEPT !.pc = "read"])
  /\ UNCHANGED <<pcVars, enable, age, meddled>>

\* A read of the window register moves the pointer on, for everybody.
HistRead(a) ==
  LET bins == Append(asker[a].bins, <<ptr, age>>)
  IN /\ asker[a].pc = "read"
     /\ ptr' = (ptr + 1) % Words
     /\ Step(a, [asker[a] EXCEPT !.bins = bins, !.pc = IF Len(bins) = Words THEN "done" ELSE @])
     /\ UNCHANGED <<pcVars, enable, age, meddled>>

HistAnswer(a) == asker[a].pc = "done" /\ Step(a, NoHist) /\ UNCHANGED <<pcVars, enable, age, ptr, meddled>>

Next ==
  /\ UNCHANGED subject
  /\ \/ /\ subject = "pc"
        /\ PcHigh \/ PcLow \/ PcAgain \/ PcNext \/ \E to \in Halves \X Halves : Move(to)
     \/ /\ subject = "hist"
        /\ \/ Count \/ Switch
           \/ \E a \in Askers : HistEnable(a) \/ HistRewind(a) \/ HistRead(a) \/ HistAnswer(a)

Spec == Init /\ [][Next]_vars

-----------------------------------------------------------------------------
\* A program counter reported as stable is one the core had while it was read,
\* and an unstable one is never reported as untorn (read_core_pc).  MaxMoves = 1:
\* two jumps between the reads of the upper half can bring it back unnoticed.
PcWasRun ==
  pcr.pc = "done" => IF pcr.stable THEN <<pcr.hi, pcr.lo>> \in ran ELSE pcr.round > 0

\* A histogram reported as quiescent is one snapshot, bins in order, unless
\* another request read it or set Enable meanwhile (/api/fifohist).
HistIsSnapshot ==
  \A a \in Askers : asker[a].pc = "done" /\ asker[a].quiet /\ ~meddled =>
    \A i \in 1 .. Words : asker[a].bins[i] = <<i - 1, asker[a].bins[1][2]>>

ProbesHold == PcWasRun /\ HistIsSnapshot
=============================================================================
