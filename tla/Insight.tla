------------------------------ MODULE Insight ------------------------------
(***************************************************************************)
(* The live view of the dashboard (insight.py, InsightState, and its       *)
(* callers in server.py): a poll takes the newest bytes of the trace, cuts *)
(* them to whole messages, has them decoded, and adds the window to the    *)
(* counts per function, while other polls, a reset, an upload and a switch *)
(* of the scenario run in threads of their own.                            *)
(***************************************************************************)
EXTENDS Integers, Sequences, FiniteSets, SequencesExt

CONSTANTS
    Pollers,        \* the requests for a live window or a state
    Scenarios,      \* the scenarios of the catalogue
    WithSymbols,    \* those of them that have a symbol table
    Lengths,        \* bytes of a message
    TailBytes,      \* tail: bytes of the newest trace a poll takes
    MaxWindows,     \* bound: windows added
    MaxEvents       \* bound: switches, uploads, resets and clears

VARIABLES
    SC,         \* the scenario
    table,      \* INS.symbols: whose table it is, or "none"
    counts,     \* INS.func_counts: windows added, each [of, by, sym] with its instructions
    total,      \* INS.total_instr
    ring,       \* the trace: its newest bytes
    design,     \* the scenario whose design records
    th,         \* the polls
    sel,        \* the switch under way: [pc, to]
    crossed,    \* a switch overtook a window since the counts were emptied
    added, events
vars == <<SC, table, counts, total, ring, design, th, sel, crossed, added, events>>

Idle == [pc |-> "idle", raw |-> <<>>, of |-> "none", by |-> "none", n |-> 0]
Go(t, next) == th' = [th EXCEPT ![t] = next]

\* load_symbol_files: the table of the scenario, and none where it has none.
\* Mutant: a scenario without symbols keeps the table of the one before.
TableOfKeeps(s) == IF s \in WithSymbols THEN s ELSE table
TableOf(s) == IF s \in WithSymbols THEN s ELSE "none"

Init ==
    /\ SC \in Scenarios /\ table = (IF SC \in WithSymbols THEN SC ELSE "none") /\ design = SC
    /\ counts = {} /\ total = 0 /\ ring = <<>>
    /\ th = [t \in Pollers |-> Idle] /\ sel = [pc |-> "idle", to |-> SC]
    /\ crossed = FALSE /\ added = 0 /\ events = 0

-----------------------------------------------------------------------------
(* The trace. *)

\* A message of n bytes is recorded: MSEO = 00 in its first byte, 11 in its last.
\* Of the ring only the newest bytes, those a poll takes, are kept here.
Record(n) ==
    LET all == ring \o [i \in 1 .. n |-> IF i = 1 THEN "first" ELSE IF i = n THEN "end" ELSE "in"]
    IN  /\ ring' = (IF Len(all) <= TailBytes THEN all
                    ELSE SubSeq(all, Len(all) - TailBytes + 1, Len(all)))
        /\ UNCHANGED <<SC, table, counts, total, design, th, sel, crossed, added, events>>

\* trace_clear: the counter and the ring start again.
TraceClear ==
    /\ events < MaxEvents /\ events' = events + 1
    /\ ring' = <<>>
    /\ UNCHANGED <<SC, table, counts, total, design, th, sel, crossed, added>>

-----------------------------------------------------------------------------
(* GET /api/livepc, _livepc. *)

\* Mutant: the window begins at its first byte.
AlignHead(raw) ==
    LET ends == {i \in DOMAIN raw : raw[i] = "end"}
    IN  IF ends = {} THEN <<>> ELSE SubSeq(raw, 1, Max(ends))
\* align_to_messages: from behind the first end of a message up to the last.
Align(raw) ==
    LET ends == {i \in DOMAIN raw : raw[i] = "end"}
    IN  IF Cardinality(ends) < 2 THEN <<>> ELSE SubSeq(raw, Min(ends) + 1, Max(ends))

\* scan_messages: an end and then a first byte, that is a message.
ScanMessages(raw) == Cardinality({i \in DOMAIN raw : i > 1 /\ raw[i - 1] = "end" /\ raw[i] = "first"})

\* trace_tail, then the alignment; a window without a message ends the poll.
LiveTail(t) ==
    LET payload == Align(ring)
    IN  /\ th[t].pc = "idle" /\ added < MaxWindows
        /\ payload # <<>>
        /\ Go(t, [Idle EXCEPT !.pc = "decode", !.raw = payload, !.of = design])
        /\ UNCHANGED <<SC, table, counts, total, ring, design, sel, crossed, added, events>>

\* run_decode with the pcinfo of the scenario that is selected by now (the
\* candidates of pcinfo_path are of one scenario): the decoder emits one
\* instruction per message, and none for a foreign stream.
RunDecode(t) ==
    /\ th[t].pc = "decode"
    /\ Go(t, [th[t] EXCEPT !.pc = "count", !.by = SC, !.n = ScanMessages(th[t].raw) + 1])
    /\ UNCHANGED <<SC, table, counts, total, ring, design, sel, crossed, added, events>>

\* InsightState.add_window: the functions, under the table of now ...
AddCounts(t) ==
    /\ th[t].pc = "count"
    /\ added' = added + 1
    /\ counts' = counts \cup {[of |-> th[t].of, by |-> th[t].by, sym |-> table, n |-> th[t].n, id |-> added]}
    /\ Go(t, [th[t] EXCEPT !.pc = "total"])
    /\ UNCHANGED <<SC, table, total, ring, design, sel, crossed, events>>
\* ... and then the totals.
AddTotal(t) ==
    /\ th[t].pc = "total"
    /\ total' = total + th[t].n
    /\ Go(t, Idle)
    /\ UNCHANGED <<SC, table, counts, ring, design, sel, crossed, added, events>>

-----------------------------------------------------------------------------
(* Switch, reset, upload. *)

InFlight == \E t \in Pollers : th[t].pc \in {"decode", "count", "total"}

\* _select_scenario: SC, then the reset, then the symbols, then the design.
Select(s) ==
    /\ sel.pc = "idle" /\ s # SC /\ events < MaxEvents
    /\ events' = events + 1
    /\ SC' = s /\ sel' = [pc |-> "reset", to |-> s]
    /\ UNCHANGED <<table, counts, total, ring, design, th, crossed, added>>

\* Mutant: only the totals are reset.
SelectResetTotals ==
    /\ sel.pc = "reset" /\ sel' = [sel EXCEPT !.pc = "symbols"]
    /\ total' = 0
    /\ crossed' = InFlight
    /\ UNCHANGED <<SC, table, counts, ring, design, th, added, events>>
\* InsightState.reset.
SelectReset ==
    /\ sel.pc = "reset" /\ sel' = [sel EXCEPT !.pc = "symbols"]
    /\ counts' = {} /\ total' = 0
    /\ crossed' = InFlight
    /\ UNCHANGED <<SC, table, ring, design, th, added, events>>

SelectSymbols ==
    /\ sel.pc = "symbols" /\ sel' = [sel EXCEPT !.pc = "design"]
    /\ table' = TableOf(sel.to)
    /\ crossed' = (crossed \/ InFlight)
    /\ UNCHANGED <<SC, counts, total, ring, design, th, added, events>>

\* load_app: the new design, its ring and its counters.  A poll that took its
\* window since the switch began took it from the old design.
SelectDesign ==
    /\ sel.pc = "design" /\ sel' = [sel EXCEPT !.pc = "idle"]
    /\ design' = sel.to /\ ring' = <<>>
    /\ crossed' = (crossed \/ InFlight \/ \E c \in counts : c.of # sel.to)
    /\ UNCHANGED <<SC, table, counts, total, th, added, events>>

\* POST /api/insight/reset, between two windows.
Reset ==
    /\ events < MaxEvents /\ events' = events + 1
    /\ counts' = {} /\ total' = 0
    /\ crossed' = (InFlight \/ sel.pc # "idle")
    /\ UNCHANGED <<SC, table, ring, design, th, sel, added>>

\* POST /api/symbols: the table is replaced before it is found to be empty.
Upload ==
    /\ events < MaxEvents /\ events' = events + 1
    /\ table' \in {SC, "none"}
    /\ UNCHANGED <<SC, counts, total, ring, design, th, sel, crossed, added>>

Next ==
    \/ \E n \in Lengths : Record(n)
    \/ TraceClear \/ Reset \/ Upload
    \/ \E t \in Pollers : LiveTail(t) \/ RunDecode(t) \/ AddCounts(t) \/ AddTotal(t)
    \/ \E s \in Scenarios : Select(s)
    \/ SelectReset \/ SelectSymbols \/ SelectDesign
Spec == Init /\ [][Next]_vars
-----------------------------------------------------------------------------
Sum(S) == FoldSet(LAMBDA c, n : c.n + n, 0, S)

\* What the decoder is given is whole messages, whatever byte the window began
\* at (align_to_messages).
WholeMessages ==
    \A t \in Pollers : th[t].pc = "decode" =>
        LET p == th[t].raw IN p[1] = "first" /\ Last(p) = "end"

\* Unless a switch overtook a window on its way, the hot list and the coverage
\* are of the scenario shown, decoded with its listing and named with its table
\* or with none, and they add up to the instructions claimed.
CountsAreShown ==
    (~crossed /\ sel.pc = "idle") =>
        /\ \A c \in counts : c.of = SC /\ c.by = SC /\ c.sym \in {SC, "none"}
        /\ (~InFlight => Sum(counts) = total)
=============================================================================
