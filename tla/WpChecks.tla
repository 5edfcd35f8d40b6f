------------------------------ MODULE WpChecks ------------------------------
(***************************************************************************)
(* The verdict on a watchpoint run: wp_records.py splits the words into    *)
(* records, checks.py judges time stamps, membership, sequence and the     *)
(* merge of the cores, read_wp_stream.py adds them up, and wp_check.py     *)
(* runa decides the gate.  The walk is the same on both cores; the shim    *)
(* may drop a record and counts it; and one fault may befall what is read. *)
(* Time stamps are the low bits of a true time the checks do not see.      *)
(***************************************************************************)
EXTENDS Integers, Sequences, FiniteSets, SequencesExt

CONSTANTS
    Expected,       \* the walk: the addresses of expected_full.txt
    Others,         \* addresses outside the walk
    TsMod,          \* TS_MOD; TS_FWD_WINDOW is half of it
    Gaps,           \* ticks between two hits of a core
    Starts,         \* time of the first hit
    Tolerance       \* ticks the cores may be apart

Core == {0, 1}
WpSet == {Expected[i] : i \in DOMAIN Expected}
\* wp_table.txt: the slot of an address, which the record carries as DirectData.
SlotOf(pc) == IF pc \in WpSet THEN Cardinality({a \in WpSet : a < pc}) ELSE -1

VARIABLES
    stream,     \* records read per core: [core, pc, direct, t], t the true time
    tail,       \* words left over behind the last record
    drops,      \* drop counter of the shim
    at,         \* the hits of the walk so far, per core
    now,        \* the true time of the last one
    fault       \* what befell the records
vars == <<stream, tail, drops, at, now, fault>>

Init ==
    /\ stream = [c \in Core |-> <<>>] /\ tail = [c \in Core |-> 0]
    /\ drops = [c \in Core |-> 0] /\ at = [c \in Core |-> 0]
    /\ now \in [Core -> Starts] /\ fault = "none"

-----------------------------------------------------------------------------
(* The board. *)

\* A hit of the walk, stored or dropped.  Core 1 is run through after core 0:
\* the streams are separate.
Hit(c) ==
    /\ at[c] < Len(Expected) /\ (c = 1 => at[0] = Len(Expected))
    /\ \E g \in Gaps, dropped \in BOOLEAN :
         LET t == now[c] + (IF at[c] = 0 THEN 0 ELSE g)
             pc == Expected[at[c] + 1]
         IN  /\ now' = [now EXCEPT ![c] = t]
             /\ at' = [at EXCEPT ![c] = @ + 1]
             /\ IF dropped
                THEN drops' = [drops EXCEPT ![c] = @ + 1] /\ UNCHANGED stream
                ELSE /\ stream' = [stream EXCEPT ![c] = Append(@,
                                      [core |-> c, pc |-> pc, direct |-> SlotOf(pc), t |-> t])]
                     /\ UNCHANGED drops
    /\ UNCHANGED <<tail, fault>>

Ended == \A c \in Core : at[c] = Len(Expected)

\* One fault: two neighbours swapped, a record repeated, an address taken for
\* another one, a record filed under the other core, the last one cut short.
Fault ==
    /\ Ended /\ fault = "none"
    /\ \E c \in Core :
         \E i \in DOMAIN stream[c] :
           \/ /\ i < Len(stream[c])
              /\ stream' = [stream EXCEPT ![c][i] = stream[c][i + 1], ![c][i + 1] = stream[c][i]]
              /\ fault' = "swapped" /\ UNCHANGED tail
           \/ /\ stream' = [stream EXCEPT ![c] = SubSeq(@, 1, i) \o SubSeq(@, i, Len(@))]
              /\ fault' = "repeated" /\ UNCHANGED tail
           \/ /\ \E a \in (WpSet \cup Others) \ {stream[c][i].pc} :
                   stream' = [stream EXCEPT ![c][i].pc = a, ![c][i].direct = SlotOf(a)]
              /\ fault' = "changed" /\ UNCHANGED tail
           \/ /\ stream' = [stream EXCEPT ![c] = SubSeq(@, 1, Len(@) - 1)]
              /\ tail' = [tail EXCEPT ![c] = 3] /\ fault' = "cut"
    /\ UNCHANGED <<drops, at, now>>

Next == Hit(0) \/ Hit(1) \/ Fault
Spec == Init /\ [][Next]_vars

-----------------------------------------------------------------------------
(* checks.py. *)

Ts(r) == r.t % TsMod
Forward(a, b) == (b - a) % TsMod

\* check_ts_monotonic: equal, or backwards by the mode.
TsViolations(s, mode) ==
    {i \in 2 .. Len(s) :
        LET d == Forward(Ts(s[i - 1]), Ts(s[i]))
        IN  \/ d = 0
            \/ IF mode = "strict" THEN Ts(s[i]) < Ts(s[i - 1]) ELSE d >= TsMod \div 2}

\* Mutant: the time stamps are sorted as they are.
UnwrapNot(s) == [i \in DOMAIN s |-> [r |-> s[i], t |-> Ts(s[i])]]
\* unwrap_ts: a forward step to a smaller time stamp begins a new epoch.
Unwrap(s) ==
    FoldLeft(LAMBDA u, r : Append(u, [r |-> r, t |->
        IF u = <<>> THEN Ts(r)
        ELSE LET p == Last(u)
                 d == Forward(Ts(p.r), Ts(r))
             IN  (p.t - Ts(p.r)) + Ts(r)
                 + (IF 0 < d /\ d < TsMod \div 2 /\ Ts(r) < Ts(p.r) THEN TsMod ELSE 0)]),
      <<>>, s)

\* merge_streams: sorted by unwrapped time, then core, the streams' order kept.
Merge ==
    LET all == Unwrap(stream[0]) \o Unwrap(stream[1])
        Before(i, j) == all[i].t < all[j].t \/ (all[i].t = all[j].t /\ i < j)
        place == [i \in DOMAIN all |-> 1 + Cardinality({j \in DOMAIN all : Before(j, i)})]
    IN  [p \in DOMAIN all |-> all[CHOOSE i \in DOMAIN all : place[i] = p].r]

\* Mutant: the cursor stays on the entry it found.
SequenceStays(s) ==
    FoldLeft(LAMBDA res, r :
        LET hits == {j \in res.cur .. Len(Expected) : Expected[j] = r.pc}
        IN  IF hits = {} THEN [res EXCEPT !.unmatched = @ + 1] ELSE [res EXCEPT !.cur = Min(hits)],
      [cur |-> 1, unmatched |-> 0], s)
\* check_sequence: the cursor runs to the next such entry and behind it; a record
\* that finds none is unmatched and leaves it.
Sequence(s) ==
    FoldLeft(LAMBDA res, r :
        LET hits == {j \in res.cur .. Len(Expected) : Expected[j] = r.pc}
        IN  IF hits = {} THEN [res EXCEPT !.unmatched = @ + 1] ELSE [res EXCEPT !.cur = Min(hits) + 1],
      [cur |-> 1, unmatched |-> 0], s)

\* check_pc_membership.
Misses(s) == {i \in DOMAIN s : s[i].pc \notin WpSet}

\* read_wp_stream.run: the reader's verdict on one core.
ReaderPass(c) ==
    /\ tail[c] = 0 /\ TsViolations(stream[c], "wrap") = {}
    /\ Misses(stream[c]) = {} /\ Sequence(stream[c]).unmatched = 0

\* wp_check.py runa: nothing dropped, counts equal, the reader passed, DirectData
\* is the slot, time stamps ascend numerically, the cores are close.
RunAPass ==
    /\ \A c \in Core :
         /\ drops[c] = 0 /\ Len(stream[c]) = Len(Expected) /\ ReaderPass(c)
         /\ \A i \in DOMAIN stream[c] : stream[c][i].core = c /\ stream[c][i].direct = SlotOf(stream[c][i].pc)
         /\ \A i \in 2 .. Len(stream[c]) : Ts(stream[c][i]) > Ts(stream[c][i - 1])
    /\ \A i \in DOMAIN Expected : LET d == Ts(stream[0][i]) - Ts(stream[1][i])
                                  IN  d <= Tolerance /\ -d <= Tolerance

-----------------------------------------------------------------------------
PcsOf(s) == [i \in DOMAIN s |-> s[i].pc]
Subsequence(s, t) ==
    \E f \in [DOMAIN s -> DOMAIN t] :
        /\ \A i \in DOMAIN s : s[i] = t[f[i]]
        /\ \A i, j \in DOMAIN s : i < j => f[i] < f[j]
\* The gaps between the records read are below the window of the wrap heuristic.
Dense(s) == \A i \in 2 .. Len(s) : s[i].t - s[i - 1].t < TsMod \div 2

\* The greedy cursor leaves nothing unmatched exactly when what was read is the
\* walk with records left out (checks.py: exact for the subsequence test).
SequenceExact ==
    \A c \in Core : Sequence(stream[c]).unmatched = 0 <=> Subsequence(PcsOf(stream[c]), Expected)

\* Unfaulted streams that begin in one epoch and leave no gap of half the
\* counter are merged in the order of the true time, ties to core 0.
MergeInTrueOrder ==
    (fault = "none" /\ \A c \in Core : Dense(stream[c]) /\ stream[c] # <<>>
        /\ stream[0] # <<>> /\ stream[1] # <<>>
        /\ stream[0][1].t \div TsMod = stream[1][1].t \div TsMod) =>
      /\ \A c \in Core : TsViolations(stream[c], "wrap") = {}
      /\ LET m == Merge IN \A i \in 2 .. Len(m) :
           m[i - 1].t < m[i].t \/ (m[i - 1].t = m[i].t /\ m[i - 1].core < m[i].core)

\* The gate passes only a run in which both cores delivered the whole walk, once
\* and in order, and no single fault goes unnoticed.
GateProvesWalk ==
    (Ended /\ RunAPass) => fault = "none" /\ \A c \in Core : PcsOf(stream[c]) = Expected
=============================================================================
