------------------------------ MODULE WpDrain ------------------------------
(***************************************************************************)
(* The watchpoint view of the dashboard: the sampler thread that drains an *)
(* axi_fifo_mm_s into the ring of the view (server.py _wp_sampler,         *)
(* wp_view.py WpState, fifo_mm_s.py FifoMmS), beside a scenario switch, a  *)
(* mode switch, GET /api/wp/status, and a restart of the service.  Reading *)
(* the FIFO is destructive.  The encoder, the FIFO and its packet framing  *)
(* are external; one FIFO is modelled, each has its own binding and        *)
(* counters in the code.  A record has RecordWords words, and is valid     *)
(* when its last word is the last word of some record: the meta word with  *)
(* its reserved zero bits and element strobes (wp_records.Record).         *)
(***************************************************************************)
EXTENDS Integers, Sequences, FiniteSets

CONSTANTS
  RecordWords,     \* words of a record (cfg record_words)
  Capacity,        \* words the RX FIFO holds
  DrainMax,        \* records a tick may read (cfg drain_max)
  ResyncAfter,     \* invalid records in a row before the RX side is reset
  RingMax,         \* records the ring keeps (cfg ring)
  Ids,             \* values of id(bus): reused when a bus object is gone
  MaxBuses,        \* bound: hardware buses made in one behaviour
  MaxRestarts,     \* bound: restarts of the service
  Numbers,         \* records are numbered modulo this
  Destructive      \* DESTRUCTIVE_READ_REGIONS

ASSUME SizesAssumption ==
  /\ RecordWords \in Nat \ {0, 1} /\ Capacity \in Nat /\ Capacity >= 2 * RecordWords - 1
  /\ DrainMax \in Nat \ {0} /\ ResyncAfter \in Nat \ {0} /\ RingMax \in Nat \ {0}
  /\ Cardinality(Ids) >= MaxBuses /\ Numbers \in Nat \ {0, 1} /\ MaxBuses \in Nat \ {0}
  /\ MaxRestarts \in Nat

VARIABLES
  words,    \* words in the RX FIFO: <<record number, word of the record>>
  lens,     \* lengths of complete packets the FIFO has not handed out
  next,     \* number of the record the shim delivers next
  SC,       \* selected scenario: with a wp block or without
  hw,       \* Buses.hw_bus
  current,  \* Buses.current
  made,     \* buses made so far
  wpv,      \* the WpState object
  smp,      \* the sampler thread
  sel,      \* a POST handler: scenario or mode
  get,      \* a GET handler: /api/wp/status
  restarts,
  crossed   \* a status request noted a verdict on a bus that was gone by then

fifo == <<words, lens, next>>
server == <<SC, hw, current, made>>
vars == <<fifo, server, wpv, smp, sel, get, restarts, crossed>>

None == "none"
\* An id() is a number, and the regions of the FIFOs are listed.
ASSUME NamesAssumption == {None, "demo"} \cap Ids = {} /\ Destructive # {}

\* A bus object: its number, its id(), its scenario, and whether the slot holds
\* the AXIS-WP design.
DemoBus == [gen |-> 0, id |-> None, sc |-> "wp", good |-> FALSE]
Open(b) == b.gen # 0 /\ b = hw
Fresh(sc) == [sc |-> sc, src |-> None, ring |-> <<>>, magic |-> None, magicBus |-> None,
              bound |-> DemoBus, misparse |-> 0]
Asleep == [pc |-> "sleep", sc |-> "wp", bus |-> DemoBus, n |-> 0,
           occ |-> 0, left |-> 0, pkt |-> <<>>, recs |-> <<>>]
Idle == [pc |-> "idle", arg |-> "wp", bus |-> DemoBus]

Init ==
  /\ words = <<>> /\ lens = 0 /\ next = 0
  /\ SC = "wp" /\ made = 1
  /\ hw = [gen |-> 1, id |-> CHOOSE id \in Ids : TRUE, sc |-> "wp", good |-> TRUE]
  /\ current = hw
  /\ wpv = Fresh("wp") /\ smp = Asleep /\ sel = Idle /\ get = Idle /\ restarts = 0 /\ crossed = FALSE

-----------------------------------------------------------------------------
(* External: the shim and the RX FIFO.                                     *)

\* A record arrives as one packet; without room the shim drops it.
Produce ==
  /\ next' = (next + 1) % Numbers
  /\ IF Len(words) + RecordWords <= Capacity
     THEN /\ words' = words \o [i \in 1 .. RecordWords |-> <<next, i>>]
          /\ lens' = lens + 1
     ELSE UNCHANGED <<words, lens>>
  /\ UNCHANGED <<server, wpv, smp, sel, get, restarts, crossed>>

\* reset_rx: everything buffered is discarded.  The reset may fall into a record:
\* its last `late` words stay behind without a packet of their own, and every
\* packet from then on is off by them.
ResetRx(late) ==
  /\ words' = [i \in 1 .. late |-> <<next, RecordWords - late + i>>]
  /\ lens' = 0
  /\ next' = IF late > 0 THEN (next + 1) % Numbers ELSE next

\* Packets are out of step with records.
Shifted == (Len(words) - lens * RecordWords) % RecordWords # 0

\* Mutant: the endpoint reads every region.
ApiReadOpen ==
  /\ Len(words) > 0 /\ words' = Tail(words)
  /\ UNCHANGED <<lens, next, server, wpv, smp, sel, get, restarts, crossed>>

\* Another reader of the window: GET /api/read of a FIFO region is refused.
ApiRead ==
  /\ Len(words) > 0
  /\ IF Destructive # {} THEN UNCHANGED words ELSE words' = Tail(words)
  /\ UNCHANGED <<lens, next, server, wpv, smp, sel, get, restarts, crossed>>

-----------------------------------------------------------------------------
(* The sampler: one tick of _wp_sampler.  Every step may fail on a bus that *)
(* was closed meanwhile: the tick ends, its records are lost.              *)

Wake(upd) == smp' = upd
\* The thread's variable keeps the bus object alive while it sleeps.
Sleep(w) == smp' = [Asleep EXCEPT !.bus = smp.bus] /\ wpv' = w
Fail == Sleep(wpv)
Others == UNCHANGED <<server, sel, get, restarts, crossed>>

TickScenario ==
  /\ smp.pc = "sleep"
  /\ SC = "wp" /\ Wake([smp EXCEPT !.pc = "fit", !.sc = SC])
  /\ UNCHANGED <<fifo, wpv>> /\ Others

\* WPV.sc is not sc: reset.
TickFit ==
  /\ smp.pc = "fit"
  /\ wpv' = IF wpv.sc = smp.sc THEN wpv ELSE Fresh(smp.sc)
  /\ Wake([smp EXCEPT !.pc = "bus"])
  /\ UNCHANGED fifo /\ Others

Source(b) == IF b.gen = 0 THEN "demo" ELSE b.id

TickBus ==
  /\ smp.pc = "bus"
  /\ Wake([smp EXCEPT !.bus = current,
                      !.pc = IF wpv.src = Source(current) THEN "drain" ELSE "empty"])
  /\ UNCHANGED <<fifo, wpv>> /\ Others

\* Mutant: the ring is kept when the source changes.
TickEmptyKeeps ==
  /\ smp.pc = "empty"
  /\ wpv' = [Fresh(smp.sc) EXCEPT !.ring = wpv.ring]
  /\ Wake([smp EXCEPT !.pc = "source"])
  /\ UNCHANGED fifo /\ Others

\* A changed source empties the ring (WPV.reset), and is noted after that.
TickEmpty ==
  /\ smp.pc = "empty"
  /\ wpv' = Fresh(smp.sc)
  /\ Wake([smp EXCEPT !.pc = "source"])
  /\ UNCHANGED fifo /\ Others

TickSource ==
  /\ smp.pc = "source"
  /\ wpv' = [wpv EXCEPT !.src = Source(smp.bus)]
  /\ Wake([smp EXCEPT !.pc = "drain"])
  /\ UNCHANGED fifo /\ Others

\* Mutant: a list instead of a deque with maxlen.
PushedAll(ring, recs) == ring \o recs

\* deque(maxlen): the newest RingMax records stay.
Pushed(ring, recs) ==
  LET all == ring \o recs
      over == IF Len(all) > RingMax THEN Len(all) - RingMax ELSE 0
  IN SubSeq(all, over + 1, Len(all))

DemoRecord == [valid |-> TRUE, whole |-> TRUE, from |-> 0]

\* Mutant: PL_GUARD is taken for enough, the magic number is not read.
TickDrainTrusts ==
  /\ smp.pc = "drain"
  /\ IF smp.bus.gen = 0
     THEN Sleep([wpv EXCEPT !.ring = Pushed(@, <<DemoRecord>>)])
     ELSE IF smp.bus.sc # smp.sc THEN Fail
     ELSE Wake([smp EXCEPT !.pc = "bind"]) /\ UNCHANGED wpv
  /\ UNCHANGED fifo /\ Others

\* tick_demo pushes generated records; a live bus must map this scenario.
TickDrain ==
  /\ smp.pc = "drain"
  /\ IF smp.bus.gen = 0
     THEN IF wpv.sc = "wp"
          THEN Sleep([wpv EXCEPT !.ring = Pushed(@, <<DemoRecord>>)])
          ELSE Fail
     ELSE IF smp.bus.sc # smp.sc THEN Fail
     ELSE Wake([smp EXCEPT !.pc = "magic"]) /\ UNCHANGED wpv
  /\ UNCHANGED fifo /\ Others

\* _check_magic: once per id(bus).
TickMagic ==
  /\ smp.pc = "magic"
  /\ IF wpv.magic # None /\ wpv.magicBus = smp.bus.id
     THEN IF wpv.magic = "ok" THEN Wake([smp EXCEPT !.pc = "bind"]) /\ UNCHANGED wpv
          ELSE Sleep(wpv)
     ELSE IF ~Open(smp.bus) \/ wpv.sc = "plain" THEN Fail
     ELSE Wake([smp EXCEPT !.pc = "magic_ok"]) /\ UNCHANGED wpv
  /\ UNCHANGED fifo /\ Others

TickMagicOk ==
  /\ smp.pc = "magic_ok"
  /\ wpv' = [wpv EXCEPT !.magic = IF smp.bus.good THEN "ok" ELSE "bad"]
  /\ Wake([smp EXCEPT !.pc = "magic_bus"])
  /\ UNCHANGED fifo /\ Others

\* The verdict returned is the one that stands by now.
TickMagicBus ==
  /\ smp.pc = "magic_bus"
  /\ IF wpv.magic = "ok"
     THEN /\ wpv' = [wpv EXCEPT !.magicBus = smp.bus.id]
          /\ Wake([smp EXCEPT !.pc = "bind"])
     ELSE Sleep([wpv EXCEPT !.magicBus = smp.bus.id])
  /\ UNCHANGED fifo /\ Others

\* The first tick on this bus object binds the FIFO and resets its RX side: the
\* predecessor may have stopped in the middle of a packet.
TickBind ==
  /\ smp.pc = "bind"
  /\ IF wpv.sc = "plain" THEN Fail /\ UNCHANGED fifo
     ELSE IF wpv.bound = smp.bus
     THEN Wake([smp EXCEPT !.pc = "occ"]) /\ UNCHANGED <<fifo, wpv>>
     ELSE IF ~Open(smp.bus) THEN Fail /\ UNCHANGED fifo
     ELSE \E late \in 0 .. RecordWords - 1 :
            /\ ResetRx(late)
            /\ wpv' = [wpv EXCEPT !.bound = smp.bus, !.misparse = 0]
            /\ Wake([smp EXCEPT !.pc = "occ"])
  /\ Others

\* read_packet: occupancy, length, and that many words at most; a tick reads
\* DrainMax packets at most.
TickOccupancy ==
  /\ smp.pc = "occ"
  /\ IF smp.n >= DrainMax THEN Wake([smp EXCEPT !.pc = "push"]) /\ UNCHANGED wpv
     ELSE IF ~Open(smp.bus) THEN Fail
     ELSE IF Len(words) = 0 THEN Wake([smp EXCEPT !.pc = "push"]) /\ UNCHANGED wpv
     ELSE Wake([smp EXCEPT !.pc = "rlr", !.occ = Len(words)]) /\ UNCHANGED wpv
  /\ UNCHANGED fifo /\ Others

TickLength ==
  /\ smp.pc = "rlr"
  /\ IF ~Open(smp.bus) THEN Fail /\ UNCHANGED lens
     ELSE IF lens = 0 THEN Wake([smp EXCEPT !.pc = "push"]) /\ UNCHANGED <<lens, wpv>>
     ELSE /\ lens' = lens - 1
          /\ Wake([smp EXCEPT !.pc = "word", !.occ = 0, !.pkt = <<>>,
                              !.left = IF smp.occ < RecordWords THEN smp.occ ELSE RecordWords])
          /\ UNCHANGED wpv
  /\ UNCHANGED <<words, next>> /\ Others

\* Mutant: the meta word is not looked at.
ParsedLax(pkt, from) ==
  [valid |-> TRUE, whole |-> \A i \in 1 .. RecordWords : pkt[i] = <<pkt[1][1], i>>, from |-> from]

\* Record(0, *pkt), with the number of the bus it was read on.
Parsed(pkt, from) ==
  [valid |-> pkt[RecordWords][2] = RecordWords,
   whole |-> \A i \in 1 .. RecordWords : pkt[i] = <<pkt[1][1], i>>,
   from |-> from]

\* Mutant: each record goes to the ring at once, and the budget is forgotten.
TickWordPushes ==
  /\ smp.pc = "word"
  /\ IF ~Open(smp.bus) THEN Fail /\ UNCHANGED words
     ELSE /\ words' = Tail(words)
          /\ LET pkt == Append(smp.pkt, Head(words))
                 done == Len(pkt) = smp.left
             IN IF ~done THEN Wake([smp EXCEPT !.pkt = pkt]) /\ UNCHANGED wpv
                ELSE /\ Wake([smp EXCEPT !.pc = "occ", !.pkt = <<>>, !.left = 0])
                     /\ wpv' = IF Len(pkt) = RecordWords
                               THEN [wpv EXCEPT !.ring = Pushed(@, <<Parsed(pkt, smp.bus.gen)>>)]
                               ELSE wpv
  /\ UNCHANGED <<lens, next>> /\ Others

TickWord ==
  /\ smp.pc = "word"
  /\ IF ~Open(smp.bus) THEN Fail /\ UNCHANGED words
     ELSE /\ words' = Tail(words)
          /\ LET pkt == Append(smp.pkt, Head(words))
                 done == Len(pkt) = smp.left
             IN Wake(IF ~done THEN [smp EXCEPT !.pkt = pkt]
                     ELSE [smp EXCEPT !.pc = "occ", !.n = @ + 1, !.pkt = <<>>, !.left = 0,
                             !.recs = IF Len(pkt) = RecordWords
                                      THEN Append(@, Parsed(pkt, smp.bus.gen)) ELSE @])
          /\ UNCHANGED wpv
  /\ UNCHANGED <<lens, next>> /\ Others

AnyValid(recs) == \E i \in DOMAIN recs : recs[i].valid

\* Mutant: the count of invalid records starts over with every tick.
TickPushForgets ==
  /\ smp.pc = "push"
  /\ LET pushed == [wpv EXCEPT !.ring = Pushed(@, smp.recs),
           !.misparse = IF AnyValid(smp.recs) THEN 0 ELSE Len(smp.recs)]
     IN IF pushed.misparse >= ResyncAfter
        THEN wpv' = pushed /\ Wake([smp EXCEPT !.pc = "heal", !.recs = <<>>])
        ELSE Sleep(pushed)
  /\ UNCHANGED fifo /\ Others

\* Mutant: an invalid record counts although valid ones came with it.
TickPushAny ==
  /\ smp.pc = "push"
  /\ LET pushed == [wpv EXCEPT !.ring = Pushed(@, smp.recs),
           !.misparse = @ + Len(smp.recs)]
     IN IF pushed.misparse >= ResyncAfter
        THEN wpv' = pushed /\ Wake([smp EXCEPT !.pc = "heal", !.recs = <<>>])
        ELSE Sleep(pushed)
  /\ UNCHANGED fifo /\ Others

\* The batch goes into the ring; only invalid records, ResyncAfter of them in a
\* row, ask for a reset of the RX side.
TickPush ==
  /\ smp.pc = "push"
  /\ LET pushed == [wpv EXCEPT !.ring = Pushed(@, smp.recs),
           !.misparse = IF AnyValid(smp.recs) THEN 0 ELSE @ + Len(smp.recs)]
     IN IF smp.recs # <<>> /\ pushed.misparse >= ResyncAfter
        THEN wpv' = pushed /\ Wake([smp EXCEPT !.pc = "heal", !.recs = <<>>])
        ELSE Sleep(pushed)
  /\ UNCHANGED fifo /\ Others

Heal(late) ==
  /\ smp.pc = "heal"
  /\ IF Open(smp.bus) THEN ResetRx(late) /\ Sleep([wpv EXCEPT !.misparse = 0])
     ELSE Fail /\ UNCHANGED fifo
  /\ Others

Sampler ==
  \/ TickScenario \/ TickFit \/ TickBus \/ TickEmpty \/ TickSource \/ TickDrain
  \/ TickMagic \/ TickMagicOk \/ TickMagicBus \/ TickBind \/ TickOccupancy
  \/ TickLength \/ TickWord \/ TickPush
  \/ \E late \in 0 .. RecordWords - 1 : Heal(late)

-----------------------------------------------------------------------------
(* The HTTP handlers.                                                      *)

\* Bus objects somebody still refers to: their id() is taken.
Taken == {b.id : b \in {hw, current, smp.bus, get.bus, wpv.bound}}

NewBus(sc) ==
  \E id \in Ids \ Taken, good \in BOOLEAN :
    hw' = [gen |-> made + 1, id |-> id, sc |-> sc, good |-> good]

\* POST /api/scenario: SC and WPV.reset, then Buses.rebind closes and maps anew.
SelectScenario(s) ==
  /\ sel.pc = "idle" /\ made < MaxBuses
  /\ SC' = s /\ wpv' = Fresh(s) /\ sel' = [sel EXCEPT !.pc = "close", !.arg = s]
  /\ UNCHANGED <<fifo, hw, current, made, smp, get, restarts, crossed>>

SelectClose ==
  /\ sel.pc = "close"
  /\ hw' = DemoBus /\ sel' = [sel EXCEPT !.pc = "map"]
  /\ UNCHANGED <<fifo, SC, current, made, wpv, smp, get, restarts, crossed>>

\* Live when the loaded app belongs to the scenario, demo otherwise.
SelectMap ==
  /\ sel.pc = "map"
  /\ \/ current' = DemoBus /\ UNCHANGED <<hw, made>>
     \/ NewBus(sel.arg) /\ current' = hw' /\ made' = made + 1
  /\ sel' = Idle
  /\ UNCHANGED <<fifo, SC, wpv, smp, get, restarts, crossed>>

\* POST /api/mode.
Mode ==
  /\ sel.pc = "idle" /\ hw.gen # 0
  /\ current' \in {DemoBus, hw} /\ current' # current
  /\ UNCHANGED <<fifo, SC, hw, made, wpv, smp, sel, get, restarts, crossed>>

\* GET /api/wp/status runs _check_magic too, on the bus of its request.
StatusBegin ==
  /\ get.pc = "idle" /\ Open(current) /\ wpv.sc = "wp"
  /\ wpv.magic = None \/ wpv.magicBus # current.id
  /\ get' = [Idle EXCEPT !.pc = "magic_ok", !.bus = current]
  /\ UNCHANGED <<fifo, server, wpv, smp, sel, restarts, crossed>>

StatusMagicOk ==
  /\ get.pc = "magic_ok"
  /\ wpv' = [wpv EXCEPT !.magic = IF get.bus.good THEN "ok" ELSE "bad"]
  /\ get' = [get EXCEPT !.pc = "magic_bus"]
  /\ crossed' = (crossed \/ ~Open(get.bus))
  /\ UNCHANGED <<fifo, server, smp, sel, restarts>>

StatusMagicBus ==
  /\ get.pc = "magic_bus"
  /\ wpv' = [wpv EXCEPT !.magicBus = get.bus.id]
  /\ get' = Idle
  /\ crossed' = (crossed \/ ~Open(get.bus))
  /\ UNCHANGED <<fifo, server, smp, sel, restarts>>

\* The service is restarted, wherever its threads are; the FIFO goes on.
Restart ==
  /\ restarts < MaxRestarts /\ made < MaxBuses
  /\ restarts' = restarts + 1
  /\ SC' = "wp" /\ NewBus("wp") /\ current' = hw' /\ made' = made + 1
  /\ wpv' = Fresh("wp") /\ smp' = Asleep /\ sel' = Idle /\ get' = Idle
  /\ crossed' = FALSE /\ UNCHANGED fifo

Handlers ==
  \/ \E s \in {"wp", "plain"} : SelectScenario(s)
  \/ SelectClose \/ SelectMap \/ Mode
  \/ StatusBegin \/ StatusMagicOk \/ StatusMagicBus

Next == Produce \/ ApiRead \/ Sampler \/ Handlers \/ Restart

\* The thread loops for ever; the shim keeps delivering while the cores run; a
\* reset that is tried again and again meets every phase of a record.
Spec == Init /\ [][Next]_vars /\ WF_vars(Sampler) /\ WF_vars(Produce) /\ SF_vars(Heal(0))

-----------------------------------------------------------------------------
BusObjects == [gen : 0 .. MaxBuses, id : Ids \cup {None}, sc : {"wp", "plain"}, good : BOOLEAN]
Entries == [valid : BOOLEAN, whole : BOOLEAN, from : 0 .. MaxBuses]
Cells == (0 .. Numbers - 1) \X (1 .. RecordWords)

\* Type invariant.
TypeOK ==
  /\ words \in Seq(Cells) /\ Len(words) <= Capacity
  /\ lens \in 0 .. Capacity \div RecordWords /\ next \in 0 .. Numbers - 1
  /\ SC \in {"wp", "plain"} /\ hw \in BusObjects /\ current \in BusObjects
  /\ made \in 0 .. MaxBuses /\ restarts \in 0 .. MaxRestarts
  /\ wpv \in [sc : {"wp", "plain"}, src : Ids \cup {None, "demo"}, ring : Seq(Entries),
               magic : {None, "ok", "bad"}, magicBus : Ids \cup {None}, bound : BusObjects,
               misparse : 0 .. ResyncAfter - 1 + DrainMax]
  /\ Len(wpv.ring) <= RingMax
  /\ smp.bus \in BusObjects /\ smp.n \in 0 .. DrainMax /\ Len(smp.recs) <= smp.n
  /\ smp.left \in 0 .. RecordWords /\ Len(smp.pkt) < RecordWords

\* A record shown as valid is one record, word for word, whatever was buffered
\* when the service was restarted, rebound or reset in the middle of a packet.
WholeRecords ==
  \A i \in DOMAIN wpv.ring : wpv.ring[i].valid => wpv.ring[i].whole

\* The ring holds records of one bus object, and until a change of source empties
\* it, of the one its source names: synthetic records never stand in front of real
\* ones, nor those of an earlier bus in front of those of the current, although a
\* source is told by an id() and an id() is reused.
OneSource ==
  \A i \in DOMAIN wpv.ring :
    /\ wpv.ring[i].from = wpv.ring[1].from
    /\ smp.pc # "empty" => \A b \in {hw, current, DemoBus} :
                             wpv.src = Source(b) => wpv.ring[i].from = b.gen

\* RDFD is never read beyond the occupancy, which would set the underflow error
\* of the FIFO and return garbage.
NeverUnderflows == smp.pc = "word" /\ Open(smp.bus) => words # <<>>

\* The FIFO is touched only when this bus has shown the magic number of the
\* AXIS-WP design -- unless a status request that began on an earlier bus has
\* noted its own verdict since: _check_magic takes no lock.
OnlyChecked == ~crossed /\ smp.pc \in {"occ", "rlr", "word"} /\ Open(smp.bus) => smp.bus.good

\* "A healthy stream (any valid record among them) NEVER resets": the reset would
\* discard good records, so behind it the ring ends in ResyncAfter invalid ones, or
\* in as many as it holds.
HealthyNeverReset ==
  [][smp.pc = "heal" /\ smp'.pc = "sleep" /\ lens' # lens =>
       \A i \in DOMAIN wpv.ring : i > Len(wpv.ring) - ResyncAfter => ~wpv.ring[i].valid]_vars

\* A tick ends, however fast the producer is.
TickEnds == (smp.pc # "sleep") ~> (smp.pc = "sleep")

\* A drain that stays on one bus gets back in step.
Recovers == <>[](smp.bus \in {DemoBus, hw} /\ current = hw /\ wpv.bound = hw /\ hw.gen # 0
                 /\ SC = "wp" /\ sel.pc = "idle" /\ wpv.magic = "ok") => []<>(smp.pc = "sleep" /\ ~Shifted)

\* What the page shows was recorded: whole records of one source, read from a
\* FIFO that is the right one and holds them.
RecordsAreTrue == TypeOK /\ WholeRecords /\ OneSource /\ NeverUnderflows /\ OnlyChecked

\* The drain neither hangs nor stays out of step.
DrainRecovers == TickEnds /\ Recovers
=============================================================================
