------------------------------ MODULE Session ------------------------------
(***************************************************************************)
(* Which design the dashboard server believes to talk to, and which one is *)
(* in the PL: the global scenario SC, the demo and hardware bus of Buses,  *)
(* the symbol tables, POST /api/scenario with load_app, POST /api/mode,    *)
(* the guest boot thread, and the handlers and samplers that meanwhile     *)
(* access registers (examples/dashboard/server.py).  No lock covers any    *)
(* of it but the flag of the boot thread.  xmutil, dfx-mgr and the boot    *)
(* scripts are external: a call may fail, and dfx-mgr may load a design    *)
(* without recording its slot.                                             *)
(***************************************************************************)
EXTENDS Naturals, Sequences, FiniteSets

CONSTANTS
  Threads,      \* handler threads of POST requests
  Readers,      \* handlers of GET requests and the sampler threads
  Scenarios, AppOf, Variants,   \* AppOf[s]: the app load_app loads; Variants[s]: all its apps
  NoApp,        \* the PL without one of our designs
  Phases,       \* phases of the boot recipe, in order
  Budget        \* bound: POST requests in one behaviour

Apps == UNION {Variants[s] : s \in Scenarios}

ASSUME CatalogAssumption ==
  /\ \A s \in Scenarios : AppOf[s] \in Variants[s]
  /\ \A s, r \in Scenarios : s # r => Variants[s] \cap Variants[r] = {}
  /\ NoApp \notin Apps /\ Budget \in Nat /\ Threads \cap Readers = {}

VARIABLES
  pl,           \* the design in the PL
  slot,         \* the app that xmutil listapps shows in a slot
  armed,        \* the loaded design traces: encoder, sink or cores are on
  SC,           \* the selected scenario
  symbols,      \* the scenario the symbol and call-site tables belong to
  hw,           \* Buses.hw_bus
  current,      \* Buses.current
  made,         \* hardware buses made so far: the identity of the next
  th,           \* handler threads
  boot,         \* _boot, and the next phase of its thread
  left, clean   \* requests still allowed; no two POST requests, or one and a boot phase, overlapped

board == <<pl, slot, armed>>
views == <<SC, symbols>>
buses == <<hw, current, made>>
vars == <<board, views, buses, th, boot, left, clean>>

\* A bus object: the scenario whose regions it maps, and its number.  Number 0
\* is the demo bus, and no bus where hw_bus is None.
Demo(s) == [sc |-> s, id |-> 0]
IsDemo(b) == b.id = 0
\* rebind closes the hardware bus for everyone who still holds it.
Open(b) == ~IsDemo(b) /\ b.id = hw.id

All == Threads \cup Readers
Idle(s) == [kind |-> "none", pc |-> "idle", arg |-> s, load |-> FALSE, bus |-> Demo(s),
            safe |-> FALSE, tries |-> 0, skipped |-> FALSE]
Busy(t) == th[t].pc # "idle"

Init ==
  /\ pl \in Apps \cup {NoApp} /\ slot = pl
  /\ armed \in IF pl = NoApp THEN {FALSE} ELSE BOOLEAN
  /\ SC \in Scenarios /\ symbols = SC
  \* main: the live bus only when the loaded app belongs to the scenario.
  /\ hw = IF pl \in Variants[SC] THEN [sc |-> SC, id |-> 1] ELSE Demo(SC)
  /\ current = hw /\ made = 1
  /\ th = [t \in All |-> Idle(CHOOSE s \in Scenarios : TRUE)]
  /\ boot = [running |-> FALSE, sc |-> SC, next |-> 0, rc |-> 0]
  /\ left = Budget /\ clean = TRUE

-----------------------------------------------------------------------------
Go(t, next) == th' = [th EXCEPT ![t] = next]
Rest == Idle(CHOOSE s \in Scenarios : TRUE)
Done(t) == Go(t, Rest)

\* A POST request arrives.  The bus is looked up once, at the start.
Accept(t, kind, s, load) ==
  /\ ~Busy(t) /\ left > 0
  /\ left' = left - 1
  /\ clean' = (clean /\ \A u \in Threads : ~Busy(u))
  /\ Go(t, [Idle(s) EXCEPT !.kind = kind, !.load = load, !.bus = current, !.pc = "begin"])
  /\ UNCHANGED <<board, views, buses, boot>>

At(t, kind, pc) == th[t].kind = kind /\ th[t].pc = pc

\* Mutant: load first, rebind only afterwards.
LoadSymbolsFirst(t) ==
  /\ At(t, "select", "symbols")
  /\ symbols' = th[t].arg
  /\ Go(t, [th[t] EXCEPT !.pc = IF th[t].load THEN "present" ELSE "close"])
  /\ UNCHANGED <<board, SC, buses, boot, left, clean>>

\* _select_scenario: the global scenario first, then the symbol files.
SelectScenario(t) ==
  /\ At(t, "select", "begin")
  /\ SC' = th[t].arg
  /\ Go(t, [th[t] EXCEPT !.pc = "symbols"])
  /\ UNCHANGED <<board, symbols, buses, boot, left, clean>>

LoadSymbols(t) ==
  /\ At(t, "select", "symbols")
  /\ symbols' = th[t].arg
  /\ Go(t, [th[t] EXCEPT !.pc = "close"])
  /\ UNCHANGED <<board, SC, buses, boot, left, clean>>

\* Mutant: the old mapping is carried over.
RebindCloseNot(t) ==
  /\ th[t].kind = "select" /\ th[t].pc \in {"close", "close2"}
  /\ Go(t, [th[t] EXCEPT !.pc = IF @ = "close" THEN "ask" ELSE "ask2"])
  /\ UNCHANGED <<board, views, buses, boot, left, clean>>

\* Buses.rebind: close the hardware bus, ask the board, map anew.  A user who
\* had chosen the demo bus gets the hardware one if there is one.
RebindClose(t) ==
  /\ th[t].kind = "select" /\ th[t].pc \in {"close", "close2"}
  /\ hw' = Demo(th[t].arg)
  /\ Go(t, [th[t] EXCEPT !.pc = IF @ = "close" THEN "ask" ELSE "ask2"])
  /\ UNCHANGED <<board, views, current, made, boot, left, clean>>

\* Mutant: any app of ours in the slot will do.
RebindAskAny(t) ==
  /\ th[t].kind = "select" /\ th[t].pc \in {"ask", "ask2"}
  /\ Go(t, [th[t] EXCEPT !.safe = slot # NoApp,
                         !.pc = IF @ = "ask" THEN "map" ELSE "map2"])
  /\ UNCHANGED <<board, views, buses, boot, left, clean>>

\* board_state: safe when the slot holds an app of this scenario (PL_GUARD).
RebindAsk(t) ==
  /\ th[t].kind = "select" /\ th[t].pc \in {"ask", "ask2"}
  /\ Go(t, [th[t] EXCEPT !.safe = slot \in Variants[th[t].arg],
                         !.pc = IF @ = "ask" THEN "map" ELSE "map2"])
  /\ UNCHANGED <<board, views, buses, boot, left, clean>>

RebindMap(t) ==
  /\ th[t].kind = "select" /\ th[t].pc \in {"map", "map2"}
  /\ LET new == IF ~IsDemo(hw) THEN hw
                ELSE IF th[t].safe THEN [sc |-> th[t].arg, id |-> made + 1]
                ELSE Demo(th[t].arg)
     IN hw' = new /\ current' = new /\ made' = IF new.id > made THEN new.id ELSE made
  /\ IF th[t].pc = "map" /\ th[t].load
     THEN Go(t, [th[t] EXCEPT !.pc = "present"])
     ELSE Done(t)
  /\ UNCHANGED <<board, views, boot, left, clean>>

-----------------------------------------------------------------------------
(* load_app                                                                *)

\* Mutant: no quiesce where the fabric is of the same scenario.
LoadPresentFast(t) ==
  /\ At(t, "select", "present")
  /\ Go(t, [th[t] EXCEPT !.bus = current,
              !.pc = IF slot = AppOf[th[t].arg] THEN "close2"
                     ELSE IF slot \in Variants[th[t].arg] THEN "unload" ELSE "quiesce"])
  /\ UNCHANGED <<board, views, buses, boot, left, clean>>

\* The wanted app is in a slot already: nothing is unloaded.
LoadPresent(t) ==
  /\ At(t, "select", "present")
  /\ Go(t, [th[t] EXCEPT !.bus = current,
              !.pc = IF slot = AppOf[th[t].arg] THEN "close2" ELSE "quiesce"])
  /\ UNCHANGED <<board, views, buses, boot, left, clean>>

\* An access through the registers of scenario s reaches the loaded design.
Reaches(b, s) == Open(b) /\ pl \in Variants[s]

\* quiesce_current: sinks, encoder and cores off, through the bus of the call
\* and the register map of the global scenario; skipped on the demo bus, given
\* up on a closed one.
Quiesce(t) ==
  /\ At(t, "select", "quiesce")
  /\ armed' = (armed /\ ~Reaches(th[t].bus, SC))
  /\ Go(t, [th[t] EXCEPT !.skipped = IsDemo(th[t].bus), !.pc = "unload"])
  /\ UNCHANGED <<pl, slot, views, buses, boot, left, clean>>

\* unloadapp: its failure is logged and ignored.
Unload(t) ==
  /\ At(t, "select", "unload")
  /\ \/ pl' = NoApp /\ slot' = NoApp /\ armed' = FALSE
     \/ UNCHANGED board
  /\ Go(t, [th[t] EXCEPT !.pc = "load"])
  /\ UNCHANGED <<views, buses, boot, left, clean>>

\* loadapp onto an empty PL: done and recorded, done without a record, failed.
LoadApp(t) ==
  LET app == AppOf[th[t].arg]
  IN /\ At(t, "select", "load")
     /\ \/ pl = NoApp /\ pl' = app /\ armed' = FALSE /\ slot' \in {app, NoApp}
        \/ UNCHANGED board
     /\ Go(t, [th[t] EXCEPT !.pc = "proof"])
     /\ UNCHANGED <<views, buses, boot, left, clean>>

\* The slot is the proof; without it dfx-mgr is restarted and all of it is
\* tried once more.
SlotProof(t) ==
  /\ At(t, "select", "proof")
  /\ Go(t, IF slot = AppOf[th[t].arg] \/ th[t].tries = 1
           THEN [th[t] EXCEPT !.pc = "close2"]
           ELSE [th[t] EXCEPT !.tries = 1, !.pc = "unload"])
  /\ UNCHANGED <<board, views, buses, boot, left, clean>>

-----------------------------------------------------------------------------
(* POST /api/mode                                                          *)

ModeDemo(t) ==
  /\ At(t, "demo", "begin")
  /\ current' = Demo(SC)
  /\ Done(t)
  /\ UNCHANGED <<board, views, hw, made, boot, left, clean>>

\* A hardware bus that exists is taken as it is; otherwise the board is asked
\* about the global scenario, and the bus is mapped for what that is by then.
ModeLive(t) ==
  /\ At(t, "live", "begin")
  /\ IF ~IsDemo(hw) THEN current' = hw /\ Done(t)
     ELSE /\ Go(t, [th[t] EXCEPT !.safe = slot \in Variants[SC], !.pc = "map"])
          /\ UNCHANGED current
  /\ UNCHANGED <<board, views, hw, made, boot, left, clean>>

ModeMap(t) ==
  /\ At(t, "live", "map")
  /\ IF th[t].safe THEN /\ hw' = [sc |-> SC, id |-> made + 1]
                        /\ current' = hw' /\ made' = made + 1
                   ELSE UNCHANGED buses
  /\ Done(t)
  /\ UNCHANGED <<board, views, boot, left, clean>>

-----------------------------------------------------------------------------
(* Register accesses and the boot thread                                   *)

\* A POST that switches tracing, a sink or a core on.
Arm(t) ==
  /\ At(t, "arm", "begin")
  /\ armed' = (armed \/ Reaches(th[t].bus, SC))
  /\ Done(t)
  /\ UNCHANGED <<pl, slot, views, buses, boot, left, clean>>

\* A GET handler or a sampler takes the current bus, and reads through it with
\* the offsets of the scenario that is global by then.
TakeBus(r) ==
  /\ ~Busy(r)
  /\ Go(r, [Idle(SC) EXCEPT !.kind = "read", !.bus = current, !.pc = "access"])
  /\ UNCHANGED <<board, views, buses, boot, left, clean>>

Access(r) ==
  /\ At(r, "read", "access")
  /\ Done(r)
  /\ UNCHANGED <<board, views, buses, boot, left, clean>>

\* Mutant: the flag of a running boot is not looked at.
BootStartAgain(t) ==
  /\ At(t, "boot", "begin")
  /\ boot' = [running |-> TRUE, sc |-> th[t].arg, next |-> 1, rc |-> 0]
  /\ Done(t)
  /\ UNCHANGED <<board, views, buses, left, clean>>

\* boot_start refuses while a boot runs.
BootStart(t) ==
  /\ At(t, "boot", "begin")
  /\ boot' = IF boot.running THEN boot
             ELSE [running |-> TRUE, sc |-> th[t].arg, next |-> 1, rc |-> 0]
  /\ Done(t)
  /\ UNCHANGED <<board, views, buses, left, clean>>

\* Mutant: the loop runs past the last phase.
BootPhasePast ==
  /\ boot.running
  /\ \E ok \in {FALSE} \cup {slot \in Variants[boot.sc]} :
       /\ boot' = IF ok /\ boot.next <= Len(Phases) THEN [boot EXCEPT !.next = @ + 1]
                  ELSE [boot EXCEPT !.running = FALSE, !.rc = IF ok THEN 0 ELSE 1]
       /\ armed' = armed
  /\ clean' = (clean /\ \A t \in Threads : ~Busy(t))
  /\ UNCHANGED <<pl, slot, views, buses, th, left>>

\* _boot_run: one phase after the other while they succeed.  A script aborts
\* when the PL does not hold an app of its scenario; "start" and what follows
\* leave the design running.
BootPhase ==
  /\ boot.running
  /\ \E ok \in {FALSE} \cup {slot \in Variants[boot.sc]} :
       /\ boot' = IF ok /\ boot.next < Len(Phases) THEN [boot EXCEPT !.next = @ + 1]
                  ELSE [boot EXCEPT !.running = FALSE, !.rc = IF ok THEN 0 ELSE 1]
       /\ armed' = (armed \/ (ok /\ Phases[boot.next] # "prep"))
  /\ clean' = (clean /\ \A t \in Threads : ~Busy(t))
  /\ UNCHANGED <<pl, slot, views, buses, th, left>>

Request(t) ==
  \/ \E s \in Scenarios, load \in BOOLEAN : Accept(t, "select", s, load)
  \/ \E kind \in {"demo", "live", "arm"} : Accept(t, kind, SC, FALSE)
  \/ \E s \in Scenarios : Accept(t, "boot", s, FALSE)

Step(t) ==
  \/ SelectScenario(t) \/ LoadSymbols(t) \/ RebindClose(t) \/ RebindAsk(t) \/ RebindMap(t)
  \/ LoadPresent(t) \/ Quiesce(t) \/ Unload(t) \/ LoadApp(t) \/ SlotProof(t)
  \/ ModeDemo(t) \/ ModeLive(t) \/ ModeMap(t) \/ Arm(t) \/ BootStart(t)

Next ==
  \/ \E t \in Threads : Request(t) \/ Step(t)
  \/ \E r \in Readers : TakeBus(r) \/ Access(r)
  \/ BootPhase

Spec == Init /\ [][Next]_vars

-----------------------------------------------------------------------------
BusObjects == [sc : Scenarios, id : 0 .. 1 + 2 * Budget]

\* Type invariant.
TypeOK ==
  /\ pl \in Apps \cup {NoApp} /\ slot \in Apps \cup {NoApp} /\ armed \in BOOLEAN
  /\ SC \in Scenarios /\ symbols \in Scenarios
  /\ hw \in BusObjects /\ current \in BusObjects /\ made \in 1 .. 1 + 2 * Budget
  /\ th \in [All -> [kind : {"none", "select", "demo", "live", "arm", "boot", "read"},
                     pc : {"idle", "begin", "symbols", "close", "ask", "map", "present", "quiesce",
                           "unload", "load", "proof", "close2", "ask2", "map2", "access"},
                     arg : Scenarios, load : BOOLEAN, bus : BusObjects, safe : BOOLEAN,
                     tries : 0 .. 1, skipped : BOOLEAN]]
  /\ boot \in [running : BOOLEAN, sc : Scenarios, next : 0 .. Len(Phases), rc : 0 .. 1]
  /\ left \in 0 .. Budget /\ clean \in BOOLEAN

\* Whatever was selected, loaded, failed to load or switched before: between
\* requests a live bus maps the selected scenario, the PL holds one of its
\* designs, and the symbol tables are its own.
LiveIsRight ==
  clean /\ (\A t \in Threads : ~Busy(t)) =>
    /\ symbols = SC
    /\ ~IsDemo(current) => current = hw /\ hw.sc = SC /\ pl \in Variants[SC]

\* The register access of a reader, about to happen, on an open hardware bus.
Reading(r) == At(r, "read", "access") /\ Open(th[r].bus)

\* Among requests that do not overlap a reader never accesses an empty PL, except
\* while another variant of the very same scenario is replaced: only then does
\* load_app unload under a live bus.
EmptyOnlyInVariantReload ==
  \A r \in Readers :
    clean /\ Reading(r) /\ pl = NoApp =>
      \E t \in Threads : /\ th[t].kind = "select" /\ ~th[t].skipped
                         /\ th[r].bus.sc = th[t].arg /\ SC = th[t].arg
                         /\ th[t].pc \in {"unload", "load", "proof", "close2"}

\* Among requests that do not overlap a reader uses the register map of another
\* design only between the assignment of SC and the rebind of the buses.
WrongMapOnlyWhileSelecting ==
  \A r \in Readers :
    clean /\ Reading(r) /\ pl \notin Variants[SC] \cup {NoApp} =>
      \E t \in Threads : th[t].kind = "select" /\ th[t].pc \in {"symbols", "close"}

\* A design is quiet when it is unloaded (load_app).
UnloadIsQuiet ==
  \A t \in Threads : clean /\ At(t, "select", "unload") => ~armed

\* The same for what the code achieves: it is quiet unless the rebind before the
\* load has already left the hardware bus, or a guest boot switched it on.
QuietWhenStillLive ==
  \A t \in Threads :
    clean /\ At(t, "select", "unload") /\ armed =>
      th[t].skipped \/ th[t].tries = 1

\* A guest is started only after the preparation of the same boot succeeded, and
\* one boot runs at a time however many requests ask for it (_boot_lock).
BootStep ==
  /\ boot.running /\ boot'.running => boot'.sc = boot.sc /\ boot'.next = boot.next + 1
  /\ boot'.rc # 0 /\ boot # boot' => ~boot'.running
  /\ ~boot.running /\ boot'.running => boot'.next = 1
BootInOrder == [][BootStep]_boot
=============================================================================
