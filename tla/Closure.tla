-------------------------------- MODULE Closure --------------------------------
(***************************************************************************)
(* The clock of the PL and the closure report of the dashboard server      *)
(* (examples/dashboard/server.py): load_app sets pl_clk0 between unloadapp *)
(* and loadapp; board_state reads the clock back, hashes the .bit.bin file *)
(* of the active app (with a cache) and looks both up in the registry of   *)
(* timing reports.  xmutil and dfx-mgr are external: an unload or a load   *)
(* may fail, and a load may leave no slot record.  Builds of one app share *)
(* its name.                                                               *)
(***************************************************************************)
EXTENDS Naturals

CONSTANTS
  Apps, Builds, AppOf,      \* AppOf[b]: the app a build is installed as
  NoBuild, NoAppSlot,
  Pll, Divisors,            \* 1500 MHz, and the divisors in use
  WantDiv,                  \* plclk.json: WantDiv[a], 0 without an entry
  Closes,                   \* Closes[b]: the highest clock of build b, 0 if it fails timing
  Registry,                 \* kv260_closure.csv: Registry[a] = [md5, routed, failing, achieved]
  Loaders,                  \* threads that run load_app
  MaxInstalls, MaxLoads     \* bounds

VARIABLES
  fabric, record,           \* the build in the PL; the app listapps shows in a slot
  files, stamp,             \* the installed build of an app, and its time stamp
  divisor,                  \* of pl_clk0
  cache,                    \* _BITBIN_MD5: the one entry
  report,                   \* board_state
  ldr, loads,               \* the loaders, and how many ran
  fresh,                    \* the file of every app is the one last loaded from it
  lostRecord, glitch        \* a load left no record; the clock changed under a design

loading == <<fabric, record, divisor, ldr, loads, lostRecord, glitch>>
vars == <<loading, files, stamp, cache, report, fresh>>

Hz(div) == Pll \div div
NoReport == [pc |-> "idle", app |-> NoAppSlot, hz |-> 0, key |-> <<>>, md5 |-> NoBuild,
             verdict |-> "none", calm |-> TRUE]
Rest == [pc |-> "idle", app |-> NoAppSlot, tries |-> 0]

Init ==
  /\ files \in {f \in [Apps -> Builds] : \A a \in Apps : AppOf[f[a]] = a}
  /\ stamp = [a \in Apps |-> 0]
  /\ fabric = NoBuild /\ record = NoAppSlot /\ divisor \in Divisors
  /\ cache = <<>> /\ report = NoReport
  /\ ldr = [t \in Loaders |-> Rest] /\ loads = 0
  /\ fresh = TRUE /\ lostRecord = FALSE /\ glitch = FALSE

\* A report under way notices nothing of a change.
Stir == report' = [report EXCEPT !.calm = FALSE]

\* A new build is copied over the installed file.
Install(b) ==
  /\ stamp[AppOf[b]] < MaxInstalls
  /\ files' = [files EXCEPT ![AppOf[b]] = b]
  /\ stamp' = [stamp EXCEPT ![AppOf[b]] = @ + 1]
  /\ fresh' = (fresh /\ (fabric = NoBuild \/ AppOf[fabric] # AppOf[b] \/ fabric = b))
  /\ Stir
  /\ UNCHANGED <<loading, cache>>

-----------------------------------------------------------------------------
Go(t, next) == ldr' = [ldr EXCEPT ![t] = next]

\* load_app: an app that is in its slot is not loaded again.
LoadBegin(t, a) ==
  /\ ldr[t].pc = "idle" /\ loads < MaxLoads
  /\ loads' = loads + 1
  /\ Go(t, IF record = a THEN Rest ELSE [Rest EXCEPT !.pc = "unload", !.app = a])
  /\ UNCHANGED <<fabric, record, divisor, lostRecord, glitch, files, stamp, cache, report, fresh>>

\* Its return code is noted, and nothing more.
LoadUnload(t) ==
  /\ ldr[t].pc = "unload"
  /\ \/ fabric' = NoBuild /\ record' = NoAppSlot /\ lostRecord' = FALSE /\ fresh' = TRUE /\ Stir
     \/ UNCHANGED <<fabric, record, lostRecord, fresh, report>>
  /\ Go(t, [ldr[t] EXCEPT !.pc = "clock"])
  /\ UNCHANGED <<divisor, loads, glitch, files, stamp, cache>>

\* Mutant: the tool no longer asks for an occupied slot.
ToolRefusesNot == FALSE
\* kv260_plclk.sh refuses while an app sits in the active slot.
ToolRefuses == record # NoAppSlot

\* set_pl_clk0, where plclk.json knows the scenario.
LoadClock(t) ==
  LET div == WantDiv[ldr[t].app]
  IN /\ ldr[t].pc = "clock"
     /\ IF div = 0 \/ ToolRefuses
        THEN UNCHANGED <<divisor, glitch, report>>
        ELSE /\ divisor' = div
             /\ glitch' = (glitch \/ (fabric # NoBuild /\ div # divisor /\ ~lostRecord))
             /\ Stir
     /\ Go(t, [ldr[t] EXCEPT !.pc = "load"])
     /\ UNCHANGED <<fabric, record, loads, lostRecord, files, stamp, cache, fresh>>

LoadApp(t) ==
  LET a == ldr[t].app
  IN /\ ldr[t].pc = "load"
     /\ \/ UNCHANGED <<fabric, record, lostRecord, fresh, report>>
        \/ /\ fabric = NoBuild
           /\ fabric' = files[a] /\ fresh' = TRUE /\ Stir
           /\ \/ record' = a /\ UNCHANGED lostRecord
              \/ record' = NoAppSlot /\ lostRecord' = TRUE
     /\ Go(t, [ldr[t] EXCEPT !.pc = "slot"])
     /\ UNCHANGED <<divisor, loads, glitch, files, stamp, cache>>

\* No slot record: once more, from the unload on.
LoadSlot(t) ==
  /\ ldr[t].pc = "slot"
  /\ Go(t, IF record = ldr[t].app \/ ldr[t].tries = 1 THEN Rest
           ELSE [ldr[t] EXCEPT !.pc = "unload", !.tries = 1])
  /\ UNCHANGED <<fabric, record, divisor, loads, lostRecord, glitch, files, stamp, cache, report, fresh>>

-----------------------------------------------------------------------------
\* board_state: listapps, the clock, the file, the registry.
ReportApp ==
  /\ report.pc = "idle"
  /\ report' = [NoReport EXCEPT !.pc = "clock", !.app = record]
  /\ UNCHANGED <<loading, files, stamp, cache, fresh>>

ReportClock ==
  /\ report.pc = "clock"
  /\ report' = [report EXCEPT !.pc = "stat", !.hz = Hz(divisor)]
  /\ UNCHANGED <<loading, files, stamp, cache, fresh>>

\* Mutant: the cache goes by the file name.
CacheKeyName(a) == <<a>>
\* The cache goes by name, time and size of the file.
CacheKey(a) == <<a, stamp[a]>>

ReportStat ==
  /\ report.pc = "stat"
  /\ report' = IF report.app = NoAppSlot
               THEN [report EXCEPT !.pc = "done", !.verdict = "APP_UNKNOWN"]
               ELSE [report EXCEPT !.pc = "hash", !.key = CacheKey(report.app)]
  /\ UNCHANGED <<loading, files, stamp, cache, fresh>>

ReportHash ==
  LET hit == cache # <<>> /\ cache[1] = report.key
      md5 == IF hit THEN cache[2] ELSE files[report.app]
  IN /\ report.pc = "hash"
     /\ cache' = <<report.key, md5>>
     /\ report' = [report EXCEPT !.pc = "closure", !.md5 = md5]
     /\ UNCHANGED <<loading, files, stamp, fresh>>

\* Mutant: the app name is taken for the build.
VerdictByName(a, md5, hz) ==
  IF ~Registry[a].routed THEN "NOT_ROUTED"
  ELSE IF Registry[a].failing THEN "CONSTRAINTS_UNMET"
  ELSE IF hz <= Registry[a].achieved THEN "OK" ELSE "EXCEEDED"

\* closure_state.
Verdict(a, md5, hz) ==
  IF Registry[a].md5 # md5 THEN "BITSTREAM_UNMATCHED"
  ELSE IF ~Registry[a].routed THEN "NOT_ROUTED"
  ELSE IF Registry[a].failing THEN "CONSTRAINTS_UNMET"
  ELSE IF hz <= Registry[a].achieved THEN "OK" ELSE "EXCEEDED"

ReportClosure ==
  /\ report.pc = "closure"
  /\ report' = [report EXCEPT !.pc = "done", !.verdict = Verdict(report.app, report.md5, report.hz)]
  /\ UNCHANGED <<loading, files, stamp, cache, fresh>>

ReportAnswer ==
  /\ report.pc = "done" /\ report' = NoReport
  /\ UNCHANGED <<loading, files, stamp, cache, fresh>>

Next ==
  \/ \E b \in Builds : Install(b)
  \/ \E t \in Loaders :
       \/ \E a \in Apps : LoadBegin(t, a)
       \/ LoadUnload(t) \/ LoadClock(t) \/ LoadApp(t) \/ LoadSlot(t)
  \/ ReportApp \/ ReportClock \/ ReportStat \/ ReportHash \/ ReportClosure \/ ReportAnswer

Spec == Init /\ [][Next]_vars

-----------------------------------------------------------------------------
\* A closure report that says OK is right about the design that runs: it closes
\* timing at the clock it gets, over reinstalled builds of the same name, the
\* cache of the hash and failing loads (board_state, bitstream_identity,
\* closure_state).  Exempt: a change during the report, and a file replaced since
\* it was loaded, for which the hash is not that of the loaded build.
ClosureIsEvidence ==
  report.pc = "done" /\ report.verdict = "OK" /\ report.calm /\ fresh =>
    fabric # NoBuild /\ Hz(divisor) <= Closes[fabric]

\* The server never changes the clock under a running design, in whatever order
\* two loads unload, set the clock and load (set_pl_clk0), as long as every
\* design that runs has its slot record.
ClockWhileEmpty == ~glitch
=============================================================================
