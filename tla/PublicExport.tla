---------------------------- MODULE PublicExport ----------------------------
(***************************************************************************)
(* record_web_replay.py --public and its interlock check_replay_public.py: *)
(* an internal recording becomes a public bundle by allow list, renames    *)
(* and removal of whatever carries an internal marker, is scanned, and is  *)
(* written only when the scan finds nothing.                               *)
(*                                                                         *)
(* JSON is a tree records: "num", "str", "list" and "dict".  A string is *)
(* told by what the patterns say of it: "ok"; "old" (the old name, renamed *)
(* to "ok"); "ref" (a reference with a replacement); "bad" (a marker       *)
(* without one); "path" (a workbench path whose file name is "ok"); "hex". *)
(***************************************************************************)
EXTENDS Integers, Sequences, FiniteSets, SequencesExt

CONSTANTS
    Recordings, \* trees that may be recorded
    Allowed     \* keys on an allow list

VARIABLES
    rec,        \* the internal recording
    page,       \* index.html: its redactions "hit" or "miss"
    job,        \* the script: [pc, fresh, pub, sha]
    out         \* target directory: [index, replay, sha] and the sidecar
vars == <<rec, page, job, out>>

Str(p) == [t |-> "str", s |-> p]
Num(i) == [t |-> "num", n |-> i]
List(l) == [t |-> "list", l |-> l]
Dict(d) == [t |-> "dict", d |-> d]
Dirty == [t |-> "dirty"]
NoFile == [t |-> "none"]
CutFile == [t |-> "cut"]

-----------------------------------------------------------------------------
(* Patterns and exemption *)

\* A recorded console stays verbatim: the old name is tolerated there.
Exempt(where) == where = <<"console", "text">>
Rename(s) == IF s \in {"old", "ref"} THEN "ok" ELSE s
Marked(s, where) == \/ s \in {"ref", "bad", "path"}
                    \/ s = "old" /\ ~Exempt(where)
UnderscoreKey(k) == k = "_note"
DropKey(k) == k = "files"
BasenameKey(k) == k = "pcinfo"
HashyKey(k) == k = "build"
MarkedKey(k) == k = "rtl/x.sv"
Fileish(k) == k = "x.bin"

Basename(n) ==
    LET short(x) == IF x.t = "str" /\ x.s = "path" THEN Str("ok") ELSE x
    IN  IF n.t = "list" THEN List([i \in DOMAIN n.l |-> short(n.l[i])]) ELSE short(n)

-----------------------------------------------------------------------------
(* The export *)

Travels(k) == ~UnderscoreKey(k) /\ ~DropKey(k)
\* _sanitize: a marked string takes its key with it, and a list that has one
\* goes as a whole.
RECURSIVE Sanitize(_, _)
Sanitize(n, where) ==
    IF n.t = "dict"
    THEN LET sub(k) == Sanitize(IF BasenameKey(k) THEN Basename(n.d[k]) ELSE n.d[k], Append(where, k))
             stays == {k \in DOMAIN n.d : Travels(k) /\ sub(k) # Dirty}
         IN  Dict([k \in stays |-> sub(k)])
    ELSE IF n.t = "list"
    THEN LET subs == [i \in DOMAIN n.l |-> Sanitize(n.l[i], Append(where, "[]"))]
         IN  IF \E i \in DOMAIN n.l : subs[i] = Dirty THEN Dirty ELSE List(subs)
    ELSE IF n.t = "str"
    THEN LET s == IF Exempt(where) THEN n.s ELSE Rename(n.s)
         IN  IF Marked(s, where) THEN Dirty ELSE Str(s)
    ELSE n

\* _JSON_REDACT_HITS: a replacement without a hit is stale and fails the export.
RECURSIVE Redacted(_, _)
Redacted(n, where) ==
    IF n.t = "dict" THEN \E k \in DOMAIN n.d : Travels(k) /\ Redacted(n.d[k], Append(where, k))
    ELSE IF n.t = "list" THEN \E i \in DOMAIN n.l : Redacted(n.l[i], Append(where, "[]"))
    ELSE n.t = "str" /\ n.s = "ref" /\ ~Exempt(where)

Pick(n) == Dict([k \in DOMAIN n.d \cap Allowed |-> n.d[k]])
PublicReplay == Sanitize(Pick(rec), <<>>)

\* scan_json_value: what is found, and where.
Found(id, where) == [id |-> id, at |-> where]
RECURSIVE Findings(_, _)
Findings(n, where) ==
    IF n.t = "dict"
    THEN (IF DOMAIN n.d # {} /\ \A k \in DOMAIN n.d : Fileish(k) /\ n.d[k] = Str("hex")
          THEN {Found("file_hash_map", where)} ELSE {})
         \cup {Found("key", Append(where, k)) : k \in {x \in DOMAIN n.d : MarkedKey(x)}}
         \cup {Found("git_commit", Append(where, k)) : k \in {x \in DOMAIN n.d : HashyKey(x) /\ n.d[x] = Str("hex")}}
         \cup UNION {Findings(n.d[k], Append(where, k)) : k \in DOMAIN n.d}
    ELSE IF n.t = "list" THEN UNION {Findings(n.l[i], Append(where, "[]")) : i \in DOMAIN n.l}
    ELSE IF n.t = "str" /\ Marked(n.s, where) THEN {Found("marker", where)} ELSE {}

\* The neutrality probe: strings may go or change, and containers of strings only.
RECURSIVE Stringy(_)
Stringy(n) ==
    CASE n.t = "dict" -> \A k \in DOMAIN n.d : Stringy(n.d[k])
      [] n.t = "list" -> \A i \in DOMAIN n.l : Stringy(n.l[i])
      [] OTHER -> n.t = "str"
\* The differences that make the replay another one.
RECURSIVE ComparePayload(_, _)
ComparePayload(old, new) ==
    IF old.t = "dict" /\ new.t = "dict"
    THEN {"removed" : k \in {x \in DOMAIN old.d \ DOMAIN new.d : ~Stringy(old.d[x])}}
         \cup UNION {ComparePayload(old.d[k], new.d[k]) : k \in DOMAIN old.d \cap DOMAIN new.d}
    ELSE IF old.t = "list" /\ new.t = "list"
    THEN IF Len(old.l) # Len(new.l) THEN {"length"}
         ELSE UNION {ComparePayload(old.l[i], new.l[i]) : i \in DOMAIN old.l}
    ELSE IF old = new \/ (old.t = "str" /\ new.t = "str") THEN {} ELSE {"numeric"}
Neutral(internal, public) == ComparePayload(internal, public) = {}

\* Mutant of Digest: over the recording alone.
DigestOfReplay(index, replay) == <<replay>>
\* bundle_digest: over every file, the checksum itself left blank.
Digest(index, replay) == <<index, replay>>

-----------------------------------------------------------------------------
(* The script *)

Nothing == [index |-> "none", replay |-> NoFile, sha |-> <<>>, side |-> <<>>]
Earlier == LET t == Dict([k \in {"data"} |-> Num(1)]) IN
           [index |-> "page1", replay |-> t, sha |-> Digest("page1", t), side |-> Digest("page1", t)]
Init ==
    /\ rec \in Recordings /\ page \in {"hit", "miss"}
    /\ out \in {Nothing, Earlier}
    /\ job \in {[pc |-> "start", fresh |-> f, pub |-> NoFile, sha |-> <<>>] : f \in BOOLEAN}

\* A fresh recording is written to the target as it is: Recorder.finish.
RecordInternal ==
    /\ job.pc = "start" /\ job.fresh
    /\ out' = [out EXCEPT !.index = "internal", !.replay = rec, !.sha = <<>>]
    /\ job' = [job EXCEPT !.pc = "export"]
    /\ UNCHANGED <<rec, page>>
FromBundle ==
    /\ job.pc = "start" /\ ~job.fresh
    /\ job' = [job EXCEPT !.pc = "export"]
    /\ UNCHANGED <<rec, page, out>>
\* public_replay and public_index_html, up to the staged files.
Export ==
    /\ job.pc = "export"
    /\ job' = IF Redacted(Pick(rec), <<>>) /\ page = "hit"
              THEN [job EXCEPT !.pc = "scan", !.pub = PublicReplay, !.sha = Digest("page2", PublicReplay)]
              ELSE [job EXCEPT !.pc = "refused"]
    /\ UNCHANGED <<rec, page, out>>
\* The interlock.
Scan ==
    /\ job.pc = "scan"
    /\ job' = [job EXCEPT !.pc = IF Findings(job.pub, <<>>) = {} THEN "index" ELSE "refused"]
    /\ UNCHANGED <<rec, page, out>>
WriteIndex ==
    /\ job.pc = "index"
    /\ out' = [out EXCEPT !.index = "page2"] /\ job' = [job EXCEPT !.pc = "replay"]
    /\ UNCHANGED <<rec, page>>
WriteReplay ==
    /\ job.pc = "replay"
    /\ out' = [out EXCEPT !.replay = job.pub, !.sha = job.sha] /\ job' = [job EXCEPT !.pc = "side"]
    /\ UNCHANGED <<rec, page>>
WriteSide ==
    /\ job.pc = "side"
    /\ out' = [out EXCEPT !.side = job.sha] /\ job' = [job EXCEPT !.pc = "done"]
    /\ UNCHANGED <<rec, page>>
\* The process ends at any point; a file it was writing is cut.
Crash ==
    /\ job.pc \notin {"start", "done", "refused", "dead"}
    /\ job' = [job EXCEPT !.pc = "dead"]
    /\ out' \in {out} \cup (IF job.pc = "index" THEN {[out EXCEPT !.index = "cut"]} ELSE {})
                      \cup (IF job.pc = "replay" THEN {[out EXCEPT !.replay = CutFile, !.sha = <<>>]} ELSE {})
    /\ UNCHANGED <<rec, page>>

Next == RecordInternal \/ FromBundle \/ Export \/ Scan \/ WriteIndex \/ WriteReplay \/ WriteSide \/ Crash
Spec == Init /\ [][Next]_vars

-----------------------------------------------------------------------------
\* The places of numbers: the payload.
RECURSIVE Numbers(_, _)
Numbers(n, where) ==
    IF n.t = "dict" THEN UNION {Numbers(n.d[k], Append(where, k)) : k \in DOMAIN n.d}
    ELSE IF n.t = "list" THEN UNION {Numbers(n.l[i], Append(where, <<"[0]", "[1]">>[i])) : i \in DOMAIN n.l}
    ELSE IF n.t = "num" THEN {[at |-> where, n |-> n.n]} ELSE {}
RECURSIVE HasMarker(_)
HasMarker(n) ==
    IF n.t = "list" THEN \E i \in DOMAIN n.l : HasMarker(n.l[i])
    ELSE n.t = "str" /\ n.s \in {"bad", "ref", "old", "path"}

\* The sanitizer and the scanner agree: what is left is only what the sanitizer
\* does not look at, a key that is itself a marker or announces a hash.
SanitizedScansClean ==
    job.pc \notin {"start", "export", "refused"} =>
      \A f \in Findings(job.pub, <<>>) : f.id # "marker"
\* Numbers stay where they are; those that go were beside a marker in a list or
\* under a key that never travels.  Where the neutrality probe passes, none went.
PayloadKept ==
    job.pc = "done" =>
      LET old == Numbers(rec, <<>>)
          new == Numbers(job.pub, <<>>)
      IN  /\ new \subseteq old
          /\ Neutral(rec, job.pub) => new = old
          /\ \A x \in old \ new : \/ x.at[1] \notin Allowed
                                  \/ \E i \in DOMAIN x.at : x.at[i] \in {"_note", "files"}
                                  \/ rec.d[x.at[1]].t = "list" /\ HasMarker(rec.d[x.at[1]])
\* A bundle whose checksum is right is one export, whole; a refused export from
\* an existing bundle leaves the target as it was.
TargetIsWhole ==
    /\ (out.sha # <<>> /\ Digest(out.index, out.replay) = out.sha) =>
          (out = Earlier \/ (out.index = "page2" /\ out.replay = job.pub /\ Findings(out.replay, <<>>) = {}))
    /\ (job.pc = "refused" /\ ~job.fresh) => out \in {Nothing, Earlier}
ExportIsClean == SanitizedScansClean /\ PayloadKept /\ TargetIsWhole
\* "NOTHING is written": of a fresh recording the internal bundle stays.
RefusedIsNotWritten == job.pc = "refused" => out \in {Nothing, Earlier}
=============================================================================
