------------------------------ MODULE SinkArming ------------------------------
(***************************************************************************)
(* How the DDR trace sink, an AXI write master, is armed by the dashboard  *)
(* server (examples/dashboard/server.py): arm_default_sinks with the check *)
(* of the reserved memory, the width of the two PS ports, the actions      *)
(* ddr_on and arm_sinks, and register writes from the page meanwhile.      *)
(* SINK_CTRL, DDR_BASE and DDR_SIZE live in the loaded design, the ports   *)
(* in the PS (both external); each access is one step.                     *)
(***************************************************************************)
EXTENDS Naturals, FiniteSets

CONSTANTS
  Armers,          \* threads that handle requests
  Reserved,        \* resmem_ranges: <<base, size>>, empty when unreadable
  Windows,         \* windows of the designs: <<DDR_BASE, DDR_SIZE>>
  Defaults,        \* sink_defaults: [on |-> bits, off |-> bits]
  MaxRequests      \* bound

Ports == {"afifm2", "afifm3"}
Fits == [p \in Ports |-> IF p = "afifm2" THEN 32 ELSE 64]
Pulses == {"ddr_clear", "pib_clear"}

VARIABLES
  window, word,    \* DDR_BASE and DDR_SIZE; the bits of SINK_CTRL
  hasSink,         \* the bitstream has the sink registers
  width,           \* bus width of the PS ports
  arm,             \* threads
  byHand,          \* ddr_en was set by ddr_on or a register write
  loaded,          \* a design was loaded while a request was under way
  asked            \* requests so far

vars == <<window, word, hasSink, width, arm, byHand, loaded, asked>>

Rest == [kind |-> "none", pc |-> "idle", cur |-> {}, base |-> 0, ok |-> TRUE, target |-> ""]
Working == {t \in Armers : arm[t].pc # "idle"}
Go(t, next) == arm' = [arm EXCEPT ![t] = next]

\* After a boot of the board the ports are 128 bits wide and nothing is armed.
Init ==
  /\ window \in Windows /\ hasSink \in BOOLEAN /\ word = {}
  /\ width = [p \in Ports |-> 128]
  /\ arm = [t \in Armers |-> Rest]
  /\ byHand = FALSE /\ loaded = FALSE /\ asked = 0

-----------------------------------------------------------------------------
\* A SINK_CTRL write: the pulse bits do not stay.
Written(bits) == word' = IF hasSink THEN bits \ Pulses ELSE {}
BaseRead == IF hasSink THEN window[1] ELSE 0
SizeRead == IF hasSink THEN window[2] ELSE 0

\* main and, with --arm-sinks, _select_scenario arm at once; the actions set the
\* ports first.
Accept(t, kind) ==
  /\ arm[t].pc = "idle" /\ asked < MaxRequests
  /\ asked' = asked + 1
  /\ Go(t, [Rest EXCEPT !.kind = kind,
              !.cur = IF kind = "auto" THEN {} ELSE word,
              !.pc = CASE kind = "auto" -> "sink" [] kind = "write" -> "policy" [] OTHER -> "afifm2"])
  /\ UNCHANGED <<window, word, hasSink, width, byHand, loaded>>

After(kind) == IF kind = "ddr_on" THEN "on" ELSE "sink"

\* ensure_afifm_32bit, ensure_afifm3_64bit: read, write if needed, read back.  A
\* failing access is reported, and the request goes on.
EnsureWidth(t) ==
  LET p == arm[t].pc
  IN /\ p \in Ports
     /\ \E works \in BOOLEAN :
          /\ width' = IF works THEN [width EXCEPT ![p] = Fits[p]] ELSE width
          /\ Go(t, [arm[t] EXCEPT !.ok = @ /\ works,
                      !.pc = IF p = "afifm2" THEN "afifm3" ELSE After(arm[t].kind)])
     /\ UNCHANGED <<window, word, hasSink, byHand, loaded, asked>>

\* ddr_on: with the word read at the start of the request.
DdrOn(t) ==
  /\ arm[t].pc = "on"
  /\ Written(arm[t].cur \cup {"ddr_en"})
  /\ byHand' = TRUE /\ Go(t, Rest)
  /\ UNCHANGED <<window, hasSink, width, loaded, asked>>

-----------------------------------------------------------------------------
New(cur) == ((cur \ Pulses) \ Defaults.off) \cup Defaults.on

ArmRead(t) ==
  /\ arm[t].pc = "sink"
  /\ Go(t, IF Defaults.on \cup Defaults.off = {} THEN Rest
           ELSE [arm[t] EXCEPT !.cur = word, !.pc = IF "ddr_en" \in Defaults.on THEN "base" ELSE "write"])
  /\ UNCHANGED <<window, word, hasSink, width, byHand, loaded, asked>>

ArmBase(t) ==
  /\ arm[t].pc = "base"
  /\ Go(t, [arm[t] EXCEPT !.base = BaseRead, !.pc = "size"])
  /\ UNCHANGED <<window, word, hasSink, width, byHand, loaded, asked>>

\* Mutant: only the start of the window is compared.
WindowOkStart(base, size) ==
  size # 0 /\ \E r \in Reserved : base >= r[1] /\ base < r[1] + r[2]

\* ddr_window_ok: all of the window inside one reserved range.
WindowOk(base, size) ==
  size # 0 /\ \E r \in Reserved : base >= r[1] /\ base + size <= r[1] + r[2]

\* With no window proven nothing is armed.
ArmCheck(t) ==
  /\ arm[t].pc = "size"
  /\ Go(t, IF WindowOk(arm[t].base, SizeRead) THEN [arm[t] EXCEPT !.pc = "write"] ELSE Rest)
  /\ UNCHANGED <<window, word, hasSink, width, byHand, loaded, asked>>

\* Only a word that changes is written, and read back.
ArmWrite(t) ==
  /\ arm[t].pc = "write"
  /\ IF New(arm[t].cur) = arm[t].cur THEN UNCHANGED word ELSE Written(New(arm[t].cur))
  /\ Go(t, IF New(arm[t].cur) = arm[t].cur THEN Rest ELSE [arm[t] EXCEPT !.pc = "back"])
  /\ UNCHANGED <<window, hasSink, width, byHand, loaded, asked>>

ArmBack(t) ==
  /\ arm[t].pc = "back" /\ Go(t, Rest)
  /\ UNCHANGED <<window, word, hasSink, width, byHand, loaded, asked>>

-----------------------------------------------------------------------------
\* Mutant: only the size is protected.
WindowPolicySize(target) == target = "ddr_size"
\* window_policy_reason: base and size are read-only, whoever asks.
WindowPolicy(target) == target \in {"ddr_base", "ddr_size"}

\* POST /api/write to one of the sink's registers.
WritePolicy(t) ==
  /\ arm[t].pc = "policy"
  /\ \E target \in {"ddr_base", "ddr_size", "sink_ctrl"} :
       Go(t, IF WindowPolicy(target) THEN Rest ELSE [arm[t] EXCEPT !.pc = "store", !.target = target])
  /\ UNCHANGED <<window, word, hasSink, width, byHand, loaded, asked>>

\* While the sink is armed the hardware itself refuses to move the window.
WriteStore(t) ==
  /\ arm[t].pc = "store" /\ Go(t, Rest)
  /\ \E w \in Windows, bits \in {{}, {"ddr_en"}, {"ddr_clear"}} :
       IF arm[t].target = "sink_ctrl"
       THEN Written(bits) /\ byHand' = (byHand \/ "ddr_en" \in bits) /\ UNCHANGED window
       ELSE /\ window' = IF "ddr_en" \in word \/ ~hasSink THEN window
                         ELSE IF arm[t].target = "ddr_base" THEN <<w[1], window[2]>>
                         ELSE <<window[1], w[2]>>
            /\ UNCHANGED <<word, byHand>>
  /\ UNCHANGED <<hasSink, width, loaded, asked>>

\* Another design is loaded: its own window, its sinks inert, the ports as they were.
Load(w) ==
  /\ window' = w /\ word' = {} /\ byHand' = FALSE
  /\ hasSink' \in BOOLEAN
  /\ loaded' = (Working # {})
  /\ UNCHANGED <<width, arm, asked>>

Next ==
  \/ \E t \in Armers :
       \/ \E kind \in {"auto", "arm_sinks", "ddr_on", "write"} : Accept(t, kind)
       \/ EnsureWidth(t) \/ DdrOn(t)
       \/ ArmRead(t) \/ ArmBase(t) \/ ArmCheck(t) \/ ArmWrite(t) \/ ArmBack(t)
       \/ WritePolicy(t) \/ WriteStore(t)
  \/ \E w \in Windows : Load(w)

Spec == Init /\ [][Next]_vars

-----------------------------------------------------------------------------
InReservation(w) ==
  \A a \in w[1] .. w[1] + w[2] - 1 : \E r \in Reserved : a \in r[1] .. r[1] + r[2] - 1

\* The sink never writes outside the memory reserved for it unless somebody armed
\* it by hand, whatever the pages write between the check of the window and the
\* arming (arm_default_sinks, window_policy_reason).  A design loaded in that gap
\* is exempt: its window was not checked.
ArmedIntoReservation ==
  "ddr_en" \in word /\ ~byHand /\ ~loaded => InReservation(window)

\* Arming a 32-bit master onto a wide port gives a capture no decoder can read.
PortsBeforeArming == "ddr_en" \in word => width["afifm2"] = 32
=============================================================================
