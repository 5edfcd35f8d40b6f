--------------------------- MODULE PrefixWindows ---------------------------
(***************************************************************************)
(* record_web_demo.py: a capture is cut into windows a web page can show.  *)
(* A window cannot be decoded alone, so prefixes are: the largest one that *)
(* decodes is found by bisection, cut at message boundaries, and a window  *)
(* is the difference of two decoder runs.                                  *)
(***************************************************************************)
EXTENDS Integers, Sequences, FiniteSets, SequencesExt

CONSTANTS
    Windows,    \* windows asked for
    Lengths,    \* bytes a message may have
    MaxBytes    \* bound: bytes of a capture

\* capture: its bytes ("first" and "mid" of a message, "end", "idle"), how much
\* of it the listing covers, whether the decoder refuses a cut message, where
\* its last instruction is not final yet; pos: bytes of the tail cut off.
\* job: the script's variables.
VARIABLES capture, job
vars == <<capture, job>>

None == -1
Init ==
    /\ capture = [raw |-> <<>>, good |-> 0, strict |-> TRUE, unstable |-> None]
    /\ job = [pc |-> "record", lo |-> 0, hi |-> 0, full |-> <<>>, cuts |-> <<>>,
              marks |-> <<[n |-> 0, pcs |-> <<>>]>>, windows |-> <<>>]

raw == capture.raw
Ends(k) == raw[k] \in {"end", "idle"}

-----------------------------------------------------------------------------
(* The capture and the decoder *)

\* The encoder writes a message, or an idle byte.
RecordMessage == \E n \in Lengths :
    /\ job.pc = "record" /\ Len(raw) + n <= MaxBytes
    /\ capture' = [capture EXCEPT !.raw = raw \o [k \in 1 .. n |->
                    IF k = 1 THEN "first" ELSE IF k = n THEN "end" ELSE "mid"]]
    /\ UNCHANGED job
RecordIdle ==
    /\ job.pc = "record" /\ raw # <<>> /\ Len(raw) < MaxBytes
    /\ capture' = [capture EXCEPT !.raw = Append(raw, "idle")]
    /\ UNCHANGED job

\* Instructions of the first n bytes: one for each whole message.
Instructions(n) == LET whole == {k \in 1 .. n : raw[k] = "end"}
                       at == SelectSeq([k \in 1 .. n |-> k], LAMBDA k : k \in whole)
                   IN  IF at # <<>> /\ capture.unstable = n THEN Front(at) \o <<n + 1>> ELSE at
Decodes(n) == n <= capture.good /\ (capture.strict => n = 0 \/ Ends(n))

\* The file is a slice: its last message may be cut.
StartScript == \E cut \in {0, 1}, good \in 0 .. Len(raw), strict \in BOOLEAN, u \in {None} \cup 1 .. Len(raw) :
    /\ job.pc = "record" /\ Len(raw) > cut
    /\ LET file == SubSeq(raw, 1, Len(raw) - cut)
       IN  /\ good <= Len(file) /\ u <= Len(file)
           /\ capture' = [raw |-> file, good |-> good, strict |-> strict, unstable |-> u]
           /\ job' = [job EXCEPT !.pc = "whole", !.hi = Len(file)]

-----------------------------------------------------------------------------
(* The script *)

\* largest_clean_prefix: the whole file, or a bisection, and one run more.
TryWhole ==
    /\ job.pc = "whole"
    /\ job' = IF Decodes(job.hi)
              THEN [job EXCEPT !.pc = "cut", !.lo = job.hi, !.full = Instructions(job.hi)]
              ELSE [job EXCEPT !.pc = "bisect"]
    /\ UNCHANGED capture
Mid == (job.lo + job.hi) \div 2
Bisect ==
    /\ job.pc = "bisect" /\ job.hi - job.lo > 1
    /\ job' = IF Decodes(Mid) THEN [job EXCEPT !.lo = Mid] ELSE [job EXCEPT !.hi = Mid]
    /\ UNCHANGED capture
Bisected ==
    /\ job.pc = "bisect" /\ job.hi - job.lo <= 1
    /\ job' = IF Decodes(job.lo) THEN [job EXCEPT !.pc = "cut", !.full = Instructions(job.lo)]
              ELSE [job EXCEPT !.pc = "exit"]
    /\ UNCHANGED capture
Clean == job.lo

\* message_boundaries of the first n bytes, those behind byte 0: offsets.
Boundaries(n) == {k \in 1 .. n - 1 : Ends(k) /\ raw[k + 1] = "first"}
Distance(a, b) == IF a < b THEN b - a ELSE a - b
Nearest(S, t) == CHOOSE b \in S : \A c \in S : \/ Distance(b, t) < Distance(c, t)
                                               \/ Distance(b, t) = Distance(c, t) /\ b <= c
\* Cuts spread over the prefix; the last is the prefix itself.
Cut ==
    /\ job.pc = "cut"
    /\ LET bounds == Boundaries(Clean)
           near == {Nearest(bounds, (Clean * k) \div Windows) : k \in 1 .. Windows - 1}
           inner == SelectSeq([k \in 1 .. Clean |-> k], LAMBDA k : k \in near)
       IN  job' = IF Cardinality(bounds) < Windows THEN [job EXCEPT !.pc = "exit"]
                  ELSE [job EXCEPT !.pc = "mark", !.cuts = Append(inner, Clean)]
    /\ UNCHANGED capture

\* A decoder run for each cut; what the run before gave must not change.
LastMark == Last(job.marks)
Stable(pcs) == SubSeq(pcs, 1, Len(LastMark.pcs)) = LastMark.pcs
Mark ==
    /\ job.pc = "mark" /\ job.cuts # <<>>
    /\ LET c == Head(job.cuts)
           pcs == Instructions(c)
       IN  job' = IF Decodes(c) /\ Len(pcs) >= Len(LastMark.pcs) /\ Stable(pcs)
                  THEN [job EXCEPT !.cuts = Tail(job.cuts), !.marks = Append(job.marks, [n |-> c, pcs |-> pcs])]
                  ELSE [job EXCEPT !.pc = "exit"]
    /\ UNCHANGED capture
Marked ==
    /\ job.pc = "mark" /\ job.cuts = <<>>
    /\ job' = [job EXCEPT !.pc = IF LastMark.pcs = job.full THEN "window" ELSE "exit"]
    /\ UNCHANGED capture

\* scan_messages of the first n bytes: a start is known by the end before it.
ScanPrefix(n) == Cardinality({k \in 1 .. n : k > 1 /\ raw[k] = "first" /\ Ends(k - 1)})

\* rle_encode: the first value, then strides with their repetitions.
Strides(pcs) == [k \in 1 .. Len(pcs) - 1 |-> pcs[k + 1] - pcs[k]]
Rle(pcs) ==
    IF pcs = <<>> THEN [at |-> None, runs |-> <<>>]
    ELSE [at |-> pcs[1],
          runs |-> FoldLeft(LAMBDA runs, d :
                     IF runs # <<>> /\ Last(runs).d = d
                     THEN Front(runs) \o <<[d |-> d, n |-> Last(runs).n + 1]>>
                     ELSE Append(runs, [d |-> d, n |-> 1]), <<>>, Strides(pcs))]

\* Mutant of MessagesOf: the bytes of the window scanned alone.
MessagesOfSlice(b0, b1) == Cardinality({k \in b0 + 2 .. b1 : raw[k] = "first" /\ Ends(k - 1)})

\* One window: what the longer prefix has and the shorter has not.
MessagesOf(b0, b1) == ScanPrefix(b1) - ScanPrefix(b0)
Window ==
    /\ job.pc = "window" /\ Len(job.windows) < Len(job.marks) - 1
    /\ LET k == Len(job.windows) + 1
           m0 == job.marks[k]
           m1 == job.marks[k + 1]
           pcs == SubSeq(m1.pcs, Len(m0.pcs) + 1, Len(m1.pcs))
       IN  job' = [job EXCEPT !.windows = Append(job.windows,
                     [from |-> m0.n, to |-> m1.n, n |-> Len(pcs), rle |-> Rle(pcs),
                      messages |-> MessagesOf(m0.n, m1.n)])]
    /\ UNCHANGED capture
Total(counts) == FoldLeft(LAMBDA s, n : s + n, 0, counts)
Write ==
    /\ job.pc = "window" /\ Len(job.windows) = Len(job.marks) - 1
    /\ LET w == job.windows
       IN  job' = [job EXCEPT !.pc = IF /\ Total([k \in DOMAIN w |-> w[k].to - w[k].from]) = Clean
                                        /\ Total([k \in DOMAIN w |-> w[k].n]) = Len(job.full)
                                     THEN "written" ELSE "exit"]
    /\ UNCHANGED capture

Next == \/ RecordMessage \/ RecordIdle \/ StartScript \/ TryWhole \/ Bisect \/ Bisected
        \/ Cut \/ Mark \/ Marked \/ Window \/ Write
Spec == Init /\ [][Next]_vars

-----------------------------------------------------------------------------
Unpack(r) ==
    IF r.at = None THEN <<>>
    ELSE FoldLeft(LAMBDA s, run : s \o [k \in 1 .. run.n |-> Last(s) + k * run.d], <<r.at>>, r.runs)
Starts(w) == {k \in w.from + 1 .. w.to : raw[k] = "first" /\ k # 1}

\* What is written shows the capture: the windows follow each other from its
\* first byte, none begins inside a message, each counts the messages that
\* begin in it (the first of the capture has no end before it), and unpacked
\* one after the other they are the instructions of the prefix.
WindowsShowCapture ==
    job.pc = "written" =>
      LET w == job.windows
      IN  /\ \A k \in DOMAIN w : /\ w[k].from < w[k].to
                                 /\ w[k].from = IF k = 1 THEN 0 ELSE w[k - 1].to
                                 /\ w[k].from = 0 \/ (Ends(w[k].from) /\ raw[w[k].from + 1] = "first")
                                 /\ w[k].messages = Cardinality(Starts(w[k]))
          /\ Last(w).to = Clean
          /\ FoldLeft(LAMBDA s, x : s \o Unpack(x.rle), <<>>, w) = Instructions(Clean)

\* The prefix decodes, and if the decoder takes cut messages none larger does.
CleanDecodes ==
    job.pc \in {"cut", "mark", "window", "written"} =>
      /\ Decodes(Clean)
      /\ ~capture.strict => \A n \in Clean + 1 .. Len(raw) : ~Decodes(n)
\* The same of a decoder that refuses them.
CleanIsLargest ==
    job.pc = "written" => \A n \in Clean + 1 .. Len(raw) : ~Decodes(n)
=============================================================================
