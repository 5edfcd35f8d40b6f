--------------------------- MODULE WpDrainProofs ---------------------------
(***************************************************************************)
(* The drain of the watchpoint FIFO, proved: what the ring shows was       *)
(* recorded (RecordsTheorem), and a stream with a valid record among the   *)
(* last ones is not reset (HealthyTheorem).  The invariant says how the    *)
(* sampler, whose steps other threads interrupt anywhere, can rely on what *)
(* it read before: a bus object it holds keeps its id() taken (Identity),  *)
(* a bus once closed stays closed (ClosedForGood), the packet being read   *)
(* and the words still buffered are one stretch of the record stream with  *)
(* gaps between records only (Unbroken), and the invalid records counted   *)
(* are the last of the ring (Tailed).                                      *)
(***************************************************************************)
EXTENDS WpDrain, FiniteSetTheorems, TLAPS

Pcs == {"sleep", "fit", "bus", "empty", "source", "drain", "magic", "magic_ok",
        "magic_bus", "bind", "occ", "rlr", "word", "push", "heal"}
Reading == {"occ", "rlr", "word", "push"}
OnLiveBus == {"magic", "magic_ok", "magic_bus", "bind", "heal"} \cup Reading
Scenarios == {"wp", "plain"}

Wpvs == [sc : Scenarios, src : Ids \cup {None, "demo"}, ring : Seq(Entries),
         magic : {None, "ok", "bad"}, magicBus : Ids \cup {None}, bound : BusObjects,
         misparse : Nat]
Smps == [pc : Pcs, sc : Scenarios, bus : BusObjects, n : 0 .. DrainMax, occ : Nat,
         left : 0 .. RecordWords, pkt : Seq(Cells), recs : Seq(Entries)]
Sels == [pc : {"idle", "close", "map"}, arg : Scenarios, bus : BusObjects]
Gets == [pc : {"idle", "magic_ok", "magic_bus"}, arg : Scenarios, bus : BusObjects]

\* The type of the state.
Types ==
  /\ words \in Seq(Cells) /\ lens \in Nat /\ next \in 0 .. Numbers - 1
  /\ SC \in Scenarios /\ hw \in BusObjects /\ current \in BusObjects
  /\ made \in 0 .. MaxBuses /\ restarts \in 0 .. MaxRestarts /\ crossed \in BOOLEAN
  /\ wpv \in Wpvs /\ Len(wpv.ring) <= RingMax /\ smp \in Smps
  /\ sel \in Sels /\ get \in Gets /\ (sel.pc # "idle" => made < MaxBuses)

\* What the sampler holds of the tick.
Tick ==
  /\ smp.pc \notin Reading \cup {"heal"} => smp.n = 0
  /\ smp.pc \notin Reading => smp.recs = <<>>
  /\ smp.pc # "word" => smp.pkt = <<>>
  /\ smp.pc \in {"rlr", "word"} => smp.n < DrainMax
  /\ Len(smp.recs) <= smp.n
  /\ smp.pc \in OnLiveBus => smp.bus.gen # 0

\* A packet handed out and not read yet is still in the FIFO.
Room ==
  /\ Len(words) <= Capacity /\ lens * RecordWords <= Len(words)
  /\ smp.pc = "rlr" => 0 < smp.occ /\ smp.occ <= Len(words)
  /\ smp.pc = "word" => /\ Len(smp.pkt) < smp.left
                        /\ lens * RecordWords + smp.left - Len(smp.pkt) <= Len(words)

\* Bus objects somebody refers to.
Known == {hw, current, smp.bus, get.bus, wpv.bound}

\* The id() of an object tells it from every other that is still there.
Identity ==
  /\ \A b \in Known : /\ b.gen <= made
                      /\ b.gen # 0 => b.id \in Ids
                      /\ b.gen = 0 => b = DemoBus
  /\ \A a, b \in Known : a.gen # 0 /\ b.gen # 0 /\ a.id = b.id => a = b

\* The count stops at ResyncAfter, until the reset or for ever on a closed bus.
Counted ==
  /\ wpv.misparse <= ResyncAfter - 1 + DrainMax
  /\ wpv.misparse >= ResyncAfter => smp.pc = "heal" \/ ~Open(wpv.bound)
  /\ smp.pc \in Reading \cup {"heal"} => wpv.bound \in {smp.bus, DemoBus}
  /\ smp.pc \in Reading /\ wpv.bound = DemoBus => wpv.misparse = 0
  /\ smp.pc \in Reading /\ (smp.pc = "occ" => smp.n > 0) => wpv.misparse < ResyncAfter

\* Word e of a record is preceded by words e-1, e-2, ... of that record.
Unbroken(q) ==
  \A i, j \in 1 .. Len(q) :
    i <= j /\ j - i < q[j][2] => q[i] = <<q[j][1], q[j][2] - (j - i)>>

Whole(seq) == \A i \in DOMAIN seq : seq[i].valid => seq[i].whole

Records == Unbroken(smp.pkt \o words) /\ Whole(smp.recs) /\ Whole(wpv.ring)

Of(seq, gen) == \A i \in DOMAIN seq : seq[i].from = gen

\* The ring is of the bus the sampler works on, until it is emptied for another.
Sources ==
  /\ smp.pc # "empty" => wpv.src \in {None, Source(smp.bus)} /\ Of(wpv.ring, smp.bus.gen)
  /\ \E gen \in 0 .. MaxBuses : Of(wpv.ring, gen)
  /\ Of(smp.recs, smp.bus.gen)
  /\ smp.pc = "source" => wpv.src = None /\ wpv.ring = <<>>

\* Behind "ok" there was a bus that had shown the magic number: this one.
Verdict ==
  ~crossed /\ Open(smp.bus) =>
    /\ smp.pc # "empty" /\ wpv.magic = "ok"
       /\ (\/ wpv.magicBus = smp.bus.id \/ smp.pc = "magic_bus"
           \/ get.pc = "magic_bus" /\ get.bus = smp.bus) => smp.bus.good
    /\ smp.pc \in {"bind"} \cup Reading => smp.bus.good

\* The invalid records that count are the last of the ring.
Tailed ==
  /\ \A i \in DOMAIN wpv.ring : i > Len(wpv.ring) - wpv.misparse => ~wpv.ring[i].valid
  /\ wpv.src = "demo" \/ smp.pc = "source" => wpv.misparse = 0
  /\ smp.pc = "drain" /\ smp.bus.gen = 0 => wpv.misparse = 0
  /\ smp.pc = "heal" => wpv.misparse >= ResyncAfter \/ wpv.ring = <<>>

-----------------------------------------------------------------------------
(* The operators.                                                          *)

LEMMA Constants ==
  /\ RecordWords \in Nat /\ RecordWords > 1 /\ Capacity \in Nat /\ Capacity >= RecordWords
  /\ DrainMax \in Nat /\ DrainMax > 0 /\ ResyncAfter \in Nat /\ ResyncAfter > 0
  /\ RingMax \in Nat /\ RingMax > 0 /\ Numbers \in Nat /\ Numbers > 1
  /\ MaxBuses \in Nat /\ MaxBuses > 0 /\ MaxRestarts \in Nat
BY ONLY SizesAssumption DEF SizesAssumption

LEMMA Concatenation ==
  ASSUME NEW S, NEW s \in Seq(S), NEW t \in Seq(S)
  PROVE  /\ s \o t \in Seq(S) /\ Len(s \o t) = Len(s) + Len(t)
         /\ \A i \in 1 .. Len(s \o t) : (s \o t)[i] = IF i <= Len(s) THEN s[i]
                                                     ELSE t[i - Len(s)]
OBVIOUS

\* A deque drops from its front: its i-th entry was over places further behind.
LEMMA PushedProperties ==
  ASSUME NEW S, NEW ring \in Seq(S), NEW recs \in Seq(S)
  PROVE  /\ Pushed(ring, recs) \in Seq(S)
         /\ Len(Pushed(ring, recs)) <= RingMax
         /\ \E over \in 0 .. Len(ring) + Len(recs) :
              /\ Len(Pushed(ring, recs)) = Len(ring) + Len(recs) - over
              /\ \A i \in 1 .. Len(Pushed(ring, recs)) :
                   Pushed(ring, recs)[i] = IF i + over <= Len(ring) THEN ring[i + over]
                                           ELSE recs[i + over - Len(ring)]
<1> DEFINE all == ring \o recs
           over == IF Len(all) > RingMax THEN Len(all) - RingMax ELSE 0
<1>1. /\ all \in Seq(S) /\ Len(all) = Len(ring) + Len(recs)
      /\ \A i \in 1 .. Len(all) : all[i] = IF i <= Len(ring) THEN ring[i]
                                           ELSE recs[i - Len(ring)]
  BY Concatenation
<1>2. over \in 0 .. Len(all) /\ Len(all) - over <= RingMax
  BY <1>1, Constants
<1>3. Pushed(ring, recs) = SubSeq(all, over + 1, Len(all))
  BY DEF Pushed
<1> HIDE DEF all, over
<1>4. /\ SubSeq(all, over + 1, Len(all)) \in Seq(S)
      /\ Len(SubSeq(all, over + 1, Len(all))) = Len(all) - over
      /\ \A i \in 1 .. Len(all) - over :
           SubSeq(all, over + 1, Len(all))[i] = all[i + over]
  BY <1>1, <1>2
<1>5. over \in 0 .. Len(ring) + Len(recs) /\ Len(ring) \in Nat /\ Len(recs) \in Nat
  BY <1>1, <1>2
<1>6. /\ Len(Pushed(ring, recs)) = Len(ring) + Len(recs) - over
      /\ Pushed(ring, recs) \in Seq(S) /\ Len(Pushed(ring, recs)) <= RingMax
  BY <1>1, <1>2, <1>3, <1>4
<1>7. ASSUME NEW i \in 1 .. Len(Pushed(ring, recs))
      PROVE  Pushed(ring, recs)[i] = IF i + over <= Len(ring) THEN ring[i + over]
                                     ELSE recs[i + over - Len(ring)]
  <2>1. Pushed(ring, recs)[i] = all[i + over]
    BY <1>1, <1>3, <1>4, <1>6, <1>7
  <2>2. PICK k \in 1 .. Len(all) : k = i + over
    BY <1>1, <1>5, <1>6, <1>7
  <2>3. all[k] = IF k <= Len(ring) THEN ring[k] ELSE recs[k - Len(ring)]
    BY ONLY <1>1, k \in 1 .. Len(all), Zenon
  <2>4. QED
    BY <1>1, <1>5, <1>6, <2>1, <2>2, <2>3
<1>8. QED
  BY <1>5, <1>6, <1>7

LEMMA ParsedProperties ==
  ASSUME NEW pkt \in Seq(Cells), NEW gen \in 0 .. MaxBuses
  PROVE  Parsed(pkt, gen) \in Entries /\ Parsed(pkt, gen).from = gen
BY DEF Parsed, Entries

Arriving == [i \in 1 .. RecordWords |-> <<next, i>>]

LEMMA RecordArrives ==
  ASSUME words \in Seq(Cells), next \in 0 .. Numbers - 1
  PROVE  /\ Arriving \in Seq(Cells) /\ Len(Arriving) = RecordWords
         /\ \A i \in 1 .. RecordWords : Arriving[i] = <<next, i>>
         /\ words \o Arriving \in Seq(Cells)
         /\ Len(words \o Arriving) = Len(words) + RecordWords
         /\ (next + 1) % Numbers \in 0 .. Numbers - 1
<1>1. \A i \in 1 .. RecordWords : <<next, i>> \in Cells
  BY Constants DEF Cells
<1>2. Arriving \in Seq(Cells) /\ Len(Arriving) = RecordWords
  BY <1>1, Constants DEF Arriving
<1>3. \A i \in 1 .. RecordWords : Arriving[i] = <<next, i>>
  BY DEF Arriving
<1>4. (next + 1) % Numbers \in 0 .. Numbers - 1
  BY Constants
<1>5. words \o Arriving \in Seq(Cells) /\ Len(words \o Arriving) = Len(words) + RecordWords
  BY <1>2, Concatenation
<1>6. QED
  BY <1>2, <1>3, <1>4, <1>5

Left(late) == [i \in 1 .. late |-> <<next, RecordWords - late + i>>]

\* After a reset the tail of one record is left.
LEMMA ResetLeaves ==
  ASSUME NEW late \in 0 .. RecordWords - 1, ResetRx(late), next \in 0 .. Numbers - 1
  PROVE  /\ words' \in Seq(Cells) /\ Len(words') = late /\ lens' = 0
         /\ next' \in 0 .. Numbers - 1
         /\ \A i \in 1 .. late : words'[i] = <<next, RecordWords - late + i>>
<1>1. words' = Left(late) /\ lens' = 0
  BY DEF ResetRx, Left
<1>2. \A i \in 1 .. late : <<next, RecordWords - late + i>> \in Cells
  BY Constants DEF Cells
<1>3. late \in Nat
  BY Constants
<1>4. Left(late) \in Seq(Cells) /\ Len(Left(late)) = late
  BY <1>2, <1>3 DEF Left
<1>5. \A i \in 1 .. late : Left(late)[i] = <<next, RecordWords - late + i>>
  BY DEF Left
<1>6. next' \in 0 .. Numbers - 1
  BY Constants DEF ResetRx
<1>7. QED
  BY <1>1, <1>4, <1>5, <1>6

-----------------------------------------------------------------------------
(* Types.                                                                  *)

LEMMA FreshType ==
  ASSUME NEW sc \in Scenarios
  PROVE  Fresh(sc) \in Wpvs /\ Len(Fresh(sc).ring) <= RingMax
<1>1. DemoBus \in BusObjects
  BY Constants DEF DemoBus, BusObjects
<1>2. <<>> \in Seq(Entries) /\ Len(<<>>) = 0
  OBVIOUS
<1>3. QED
  BY <1>1, <1>2, Constants DEF Fresh, Wpvs

LEMMA AsleepType ==
  ASSUME NEW b \in BusObjects
  PROVE  [Asleep EXCEPT !.bus = b] \in Smps
<1>1. DemoBus \in BusObjects
  BY Constants DEF DemoBus, BusObjects
<1>2. <<>> \in Seq(Entries) /\ <<>> \in Seq(Cells)
  OBVIOUS
<1>3. Asleep \in Smps
  BY <1>1, <1>2, Constants DEF Asleep, Smps, Scenarios, Pcs
<1>4. QED
  BY <1>3 DEF Smps

LEMMA InitTypes == Init => Types
<1> SUFFICES ASSUME Init PROVE Types
  OBVIOUS
<1>1. DemoBus \in BusObjects
  BY Constants DEF DemoBus, BusObjects
<1>2. Ids # {}
  BY ONLY SizesAssumption, FS_EmptySet DEF SizesAssumption
<1>3. hw \in BusObjects /\ current \in BusObjects
  BY <1>2, Constants DEF Init, BusObjects
<1>4. <<>> \in Seq(Cells) /\ <<>> \in Seq(Entries)
  OBVIOUS
<1>5. smp \in Smps
  BY <1>1, <1>4, Constants DEF Init, Asleep, Pcs, Scenarios, Smps
<1>6. sel \in Sels /\ get \in Gets /\ sel.pc = "idle"
  BY <1>1 DEF Init, Idle, Scenarios, Sels, Gets
<1>7. wpv \in Wpvs /\ Len(wpv.ring) <= RingMax
  BY FreshType DEF Init, Scenarios
<1>8. words \in Seq(Cells) /\ lens \in Nat /\ next \in 0 .. Numbers - 1
  BY <1>4, Constants DEF Init
<1>9. made \in 0 .. MaxBuses /\ restarts \in 0 .. MaxRestarts
  BY Constants DEF Init
<1>10. SC \in Scenarios /\ crossed \in BOOLEAN
  BY DEF Init, Scenarios
<1>11. QED
  BY <1>3, <1>5, <1>6, <1>7, <1>8, <1>9, <1>10 DEF Types

LEMMA FineTypes ==
  ASSUME Types, Others, wpv' \in Wpvs, Len(wpv'.ring) <= RingMax, smp' \in Smps,
         words' \in Seq(Cells), lens' \in Nat, next' \in 0 .. Numbers - 1
  PROVE  Types'
BY Zenon DEF Types, Others, server

LEMMA SleepTypes ==
  ASSUME Types, NEW w \in Wpvs, Len(w.ring) <= RingMax, Sleep(w)
  PROVE  smp' \in Smps /\ wpv' \in Wpvs /\ Len(wpv'.ring) <= RingMax
<1>1. smp.bus \in BusObjects
  BY DEF Types, Smps
<1>2. QED
  BY <1>1, AsleepType DEF Sleep

\* A word is taken: it ends the packet, or another is to come.
Packet == Append(smp.pkt, Head(words))
Batch == IF Len(Packet) = RecordWords THEN Append(smp.recs, Parsed(Packet, smp.bus.gen))
         ELSE smp.recs
ReadsWord ==
  /\ Open(smp.bus) /\ words' = Tail(words) /\ UNCHANGED wpv
  /\ \/ Len(Packet) # smp.left /\ smp' = [smp EXCEPT !.pkt = Packet]
     \/ /\ Len(Packet) = smp.left
        /\ smp' = [smp EXCEPT !.pc = "occ", !.n = smp.n + 1, !.pkt = <<>>, !.left = 0,
                      !.recs = Batch]

LEMMA WordSteps ==
  ASSUME smp \in Smps, TickWord
  PROVE  ReadsWord \/ (Fail /\ UNCHANGED words)
<1>1. CASE ~Open(smp.bus)
  BY <1>1 DEF TickWord
<1>2. CASE Open(smp.bus)
  <2>1. /\ words' = Tail(words) /\ UNCHANGED wpv
        /\ smp' = IF Len(Packet) # smp.left THEN [smp EXCEPT !.pkt = Packet]
                  ELSE [smp EXCEPT !.pc = "occ", !.n = @ + 1, !.pkt = <<>>, !.left = 0,
                          !.recs = IF Len(Packet) = RecordWords
                                   THEN Append(@, Parsed(Packet, smp.bus.gen)) ELSE @]
    BY <1>2 DEF TickWord, Wake, Packet
  <2>2. CASE Len(Packet) # smp.left
    BY <1>2, <2>1, <2>2 DEF ReadsWord
  <2>3. CASE Len(Packet) = smp.left
    BY <1>2, <2>1, <2>3 DEF ReadsWord, Batch, Smps
  <2>4. QED
    BY <2>2, <2>3
<1>3. QED
  BY <1>1, <1>2

LEMMA WordRead ==
  ASSUME Types, Room, smp.pc = "word"
  PROVE  /\ words # <<>> /\ Tail(words) \in Seq(Cells)
         /\ Packet \in Seq(Cells) /\ Len(Packet) = Len(smp.pkt) + 1
         /\ Batch \in Seq(Entries)
         /\ \/ Batch = smp.recs
            \/ Len(Packet) = RecordWords /\ Batch = Append(smp.recs, Parsed(Packet, smp.bus.gen))
<1>1. words \in Seq(Cells) /\ smp \in Smps /\ lens \in Nat
  BY DEF Types
<1>2. words # <<>>
  BY <1>1, Constants DEF Room, Smps
<1>3. Tail(words) \in Seq(Cells) /\ Packet \in Seq(Cells) /\ Len(Packet) = Len(smp.pkt) + 1
  BY <1>1, <1>2 DEF Smps, Packet
<1>4. smp.bus.gen \in 0 .. MaxBuses
  BY <1>1 DEF Smps, BusObjects
<1>5. Append(smp.recs, Parsed(Packet, smp.bus.gen)) \in Seq(Entries)
  BY <1>1, <1>3, <1>4, ParsedProperties DEF Smps
<1>6. Batch \in Seq(Entries)
  BY <1>1, <1>5 DEF Batch, Smps
<1>7. QED
  BY <1>2, <1>3, <1>6 DEF Batch

\* The batch goes into the ring; it may ask for a reset.
Count == IF AnyValid(smp.recs) THEN 0 ELSE wpv.misparse + Len(smp.recs)
Filled == [wpv EXCEPT !.ring = Pushed(wpv.ring, smp.recs), !.misparse = Count]

LEMMA PushSteps ==
  ASSUME Types, TickPush
  PROVE  /\ Filled \in Wpvs /\ Len(Filled.ring) <= RingMax
         /\ \/ Sleep(Filled) /\ (smp.recs = <<>> \/ Count < ResyncAfter)
            \/ /\ smp.recs # <<>> /\ Count >= ResyncAfter
               /\ wpv' = Filled /\ Wake([smp EXCEPT !.pc = "heal", !.recs = <<>>])
<1>1. wpv \in Wpvs /\ smp \in Smps
  BY DEF Types
<1>2. Pushed(wpv.ring, smp.recs) \in Seq(Entries) /\ Len(Pushed(wpv.ring, smp.recs)) <= RingMax
  BY <1>1, PushedProperties DEF Wpvs, Smps
<1>3. Count \in Nat
  BY <1>1 DEF Wpvs, Smps, Count
<1>4. Filled \in Wpvs /\ Len(Filled.ring) <= RingMax
  BY <1>1, <1>2, <1>3 DEF Wpvs, Filled
<1>5. Filled = [wpv EXCEPT !.ring = Pushed(@, smp.recs),
                  !.misparse = IF AnyValid(smp.recs) THEN 0 ELSE @ + Len(smp.recs)]
  BY <1>1 DEF Filled, Count, Wpvs
<1>6. Filled.misparse = Count
  BY <1>1 DEF Filled, Wpvs
<1>7. IF smp.recs # <<>> /\ Filled.misparse >= ResyncAfter
      THEN wpv' = Filled /\ Wake([smp EXCEPT !.pc = "heal", !.recs = <<>>])
      ELSE Sleep(Filled)
  BY <1>5 DEF TickPush
<1>8. QED
  BY <1>3, <1>4, <1>6, <1>7, Constants

LEMMA SamplerTypes ==
  ASSUME Types, Tick, Room, Sampler
  PROVE  Types'
<1>1. /\ wpv \in Wpvs /\ Len(wpv.ring) <= RingMax /\ smp \in Smps /\ words \in Seq(Cells)
      /\ lens \in Nat /\ next \in 0 .. Numbers - 1 /\ SC \in Scenarios
      /\ current \in BusObjects
  BY DEF Types
<1>2. Others
  BY DEF Sampler, TickScenario, TickFit, TickBus, TickEmpty, TickSource, TickDrain,
         TickMagic, TickMagicOk, TickMagicBus, TickBind, TickOccupancy, TickLength,
         TickWord, TickPush, Heal
<1>3. ASSUME NEW pc \in Pcs, smp' = [smp EXCEPT !.pc = pc]
      PROVE  smp' \in Smps
  BY <1>1, <1>3 DEF Smps
<1>4. CASE TickScenario
  <2>1. smp' \in Smps
    BY <1>1, <1>4 DEF TickScenario, Wake, Smps, Scenarios, Pcs
  <2>2. QED
    BY <1>1, <1>2, <1>4, <2>1, FineTypes DEF TickScenario, fifo
<1>5. CASE TickFit
  <2>1. smp' \in Smps
    BY <1>3, <1>5 DEF TickFit, Wake, Pcs
  <2>2. wpv' \in Wpvs /\ Len(wpv'.ring) <= RingMax
    BY <1>1, <1>5, FreshType DEF TickFit, Smps
  <2>3. QED
    BY <1>1, <1>2, <1>5, <2>1, <2>2, FineTypes DEF TickFit, fifo
<1>6. CASE TickBus
  <2>1. smp' \in Smps
    BY <1>1, <1>6 DEF TickBus, Wake, Smps, Pcs
  <2>2. QED
    BY <1>1, <1>2, <1>6, <2>1, FineTypes DEF TickBus, fifo
<1>7. CASE TickEmpty
  <2>1. smp' \in Smps
    BY <1>3, <1>7 DEF TickEmpty, Wake, Pcs
  <2>2. wpv' \in Wpvs /\ Len(wpv'.ring) <= RingMax
    BY <1>1, <1>7, FreshType DEF TickEmpty, Smps
  <2>3. QED
    BY <1>1, <1>2, <1>7, <2>1, <2>2, FineTypes DEF TickEmpty, fifo
<1>8. CASE TickSource
  <2>1. smp' \in Smps
    BY <1>3, <1>8 DEF TickSource, Wake, Pcs
  <2>2. Source(smp.bus) \in Ids \cup {None, "demo"}
    BY <1>1 DEF Source, Smps, BusObjects
  <2>3. wpv' \in Wpvs /\ Len(wpv'.ring) <= RingMax
    BY <1>1, <1>8, <2>2 DEF TickSource, Wpvs
  <2>4. QED
    BY <1>1, <1>2, <1>8, <2>1, <2>3, FineTypes DEF TickSource, fifo
<1>9. CASE TickDrain
  <2>1. UNCHANGED fifo
    BY <1>9 DEF TickDrain
  <2>2. DemoRecord \in Entries
    BY Constants DEF DemoRecord, Entries
  <2>3. <<DemoRecord>> \in Seq(Entries)
    BY <2>2
  <2>4. /\ [wpv EXCEPT !.ring = Pushed(@, <<DemoRecord>>)] \in Wpvs
        /\ Len([wpv EXCEPT !.ring = Pushed(@, <<DemoRecord>>)].ring) <= RingMax
    BY <1>1, <2>3, PushedProperties DEF Wpvs
  <2>5. CASE Sleep([wpv EXCEPT !.ring = Pushed(@, <<DemoRecord>>)]) \/ Fail
    BY <1>1, <1>2, <2>1, <2>4, <2>5, SleepTypes, FineTypes DEF Fail, fifo
  <2>6. CASE Wake([smp EXCEPT !.pc = "magic"]) /\ UNCHANGED wpv
    BY <1>1, <1>2, <1>3, <2>1, <2>6, FineTypes DEF Wake, Pcs, fifo
  <2>7. QED
    BY <1>9, <2>5, <2>6 DEF TickDrain
<1>10. CASE TickMagic
  <2>1. UNCHANGED fifo
    BY <1>10 DEF TickMagic
  <2>2. CASE Fail
    BY <1>1, <1>2, <2>1, <2>2, SleepTypes, FineTypes DEF Fail, fifo
  <2>3. ASSUME NEW pc \in {"bind", "magic_ok"}, Wake([smp EXCEPT !.pc = pc]), UNCHANGED wpv
        PROVE  Types'
    BY <1>1, <1>2, <1>3, <2>1, <2>3, FineTypes DEF Wake, Pcs, fifo
  <2>4. QED
    BY <1>10, <2>2, <2>3 DEF TickMagic, Fail
<1>11. CASE TickMagicOk
  <2>1. smp' \in Smps
    BY <1>3, <1>11 DEF TickMagicOk, Wake, Pcs
  <2>2. wpv' \in Wpvs /\ Len(wpv'.ring) <= RingMax
    BY <1>1, <1>11 DEF TickMagicOk, Wpvs
  <2>3. QED
    BY <1>1, <1>2, <1>11, <2>1, <2>2, FineTypes DEF TickMagicOk, fifo
<1>12. CASE TickMagicBus
  <2>1. UNCHANGED fifo
    BY <1>12 DEF TickMagicBus
  <2>2. smp.bus.id \in Ids \cup {None}
    BY <1>1 DEF Smps, BusObjects
  <2>3. /\ [wpv EXCEPT !.magicBus = smp.bus.id] \in Wpvs
        /\ Len([wpv EXCEPT !.magicBus = smp.bus.id].ring) <= RingMax
    BY <1>1, <2>2 DEF Wpvs
  <2>4. CASE Sleep([wpv EXCEPT !.magicBus = smp.bus.id])
    BY <1>1, <1>2, <2>1, <2>3, <2>4, SleepTypes, FineTypes DEF fifo
  <2>5. CASE wpv' = [wpv EXCEPT !.magicBus = smp.bus.id] /\ Wake([smp EXCEPT !.pc = "bind"])
    BY <1>1, <1>2, <1>3, <2>1, <2>3, <2>5, FineTypes DEF Wake, Pcs, fifo
  <2>6. QED
    BY <1>12, <2>4, <2>5 DEF TickMagicBus
<1>13. CASE TickBind
  <2>1. CASE UNCHANGED fifo /\ Fail
    BY <1>1, <1>2, <2>1, SleepTypes, FineTypes DEF Fail, fifo
  <2>2. CASE UNCHANGED <<fifo, wpv>> /\ Wake([smp EXCEPT !.pc = "occ"])
    BY <1>1, <1>2, <1>3, <2>2, FineTypes DEF Wake, Pcs, fifo
  <2>3. ASSUME NEW late \in 0 .. RecordWords - 1, ResetRx(late),
               wpv' = [wpv EXCEPT !.bound = smp.bus, !.misparse = 0],
               Wake([smp EXCEPT !.pc = "occ"])
        PROVE  Types'
    <3>1. wpv' \in Wpvs /\ Len(wpv'.ring) <= RingMax
      BY <1>1, <2>3 DEF Wpvs, Smps
    <3>2. smp' \in Smps
      BY <1>3, <2>3 DEF Wake, Pcs
    <3>3. words' \in Seq(Cells) /\ lens' \in Nat /\ next' \in 0 .. Numbers - 1
      BY <1>1, <2>3, ResetLeaves
    <3>4. QED
      BY <1>2, <3>1, <3>2, <3>3, FineTypes
  <2>4. QED
    BY <1>13, <2>1, <2>2, <2>3 DEF TickBind
<1>14. CASE TickOccupancy
  <2>1. UNCHANGED fifo
    BY <1>14 DEF TickOccupancy
  <2>2. CASE Fail
    BY <1>1, <1>2, <2>1, <2>2, SleepTypes, FineTypes DEF Fail, fifo
  <2>3. CASE Wake([smp EXCEPT !.pc = "push"]) /\ UNCHANGED wpv
    BY <1>1, <1>2, <1>3, <2>1, <2>3, FineTypes DEF Wake, Pcs, fifo
  <2>4. CASE Wake([smp EXCEPT !.pc = "rlr", !.occ = Len(words)]) /\ UNCHANGED wpv
    <3>1. smp' \in Smps
      <4>1. Len(words) \in Nat /\ "rlr" \in Pcs
        BY <1>1 DEF Pcs
      <4>2. QED
        BY <1>1, <2>4, <4>1 DEF Wake, Smps
    <3>2. QED
      BY <1>1, <1>2, <2>1, <2>4, <3>1, FineTypes DEF fifo
  <2>5. QED
    BY <1>14, <2>2, <2>3, <2>4 DEF TickOccupancy
<1>15. CASE TickLength
  <2>1. UNCHANGED <<words, next>>
    BY <1>15 DEF TickLength
  <2>2. CASE Fail /\ UNCHANGED lens
    BY <1>1, <1>2, <2>1, <2>2, SleepTypes, FineTypes DEF Fail
  <2>3. CASE Wake([smp EXCEPT !.pc = "push"]) /\ UNCHANGED <<lens, wpv>>
    BY <1>1, <1>2, <1>3, <2>1, <2>3, FineTypes DEF Wake, Pcs
  <2>4. ASSUME lens # 0, lens' = lens - 1, UNCHANGED wpv,
               Wake([smp EXCEPT !.pc = "word", !.occ = 0, !.pkt = <<>>,
                       !.left = IF smp.occ < RecordWords THEN smp.occ ELSE RecordWords])
        PROVE  Types'
    <3>1. smp' \in Smps
      <4> DEFINE count == IF smp.occ < RecordWords THEN smp.occ ELSE RecordWords
      <4>1. count \in 0 .. RecordWords /\ <<>> \in Seq(Cells) /\ "word" \in Pcs
        BY <1>1, Constants DEF Smps, Pcs
      <4> HIDE DEF count
      <4>2. smp' = [smp EXCEPT !.pc = "word", !.occ = 0, !.pkt = <<>>, !.left = count]
        BY <2>4 DEF Wake, count
      <4>3. QED
        BY <1>1, <4>1, <4>2 DEF Smps
    <3>2. lens' \in Nat
      BY <1>1, <2>4
    <3>3. QED
      BY <1>1, <1>2, <2>1, <2>4, <3>1, <3>2, FineTypes
  <2>5. QED
    BY <1>15, <2>2, <2>3, <2>4, Zenon DEF TickLength
<1>16. CASE TickWord
  <2>1. UNCHANGED <<lens, next>> /\ smp.pc = "word"
    BY <1>16 DEF TickWord
  <2>2. CASE Fail /\ UNCHANGED words
    BY <1>1, <1>2, <2>1, <2>2, SleepTypes, FineTypes DEF Fail
  <2>3. CASE ReadsWord
    <3>1. smp.n + 1 \in 0 .. DrainMax
      BY <1>1, <2>1, Constants DEF Tick, Smps
    <3>2. <<>> \in Seq(Cells) /\ 0 \in 0 .. RecordWords /\ "occ" \in Pcs
      BY Constants DEF Pcs
    <3>3. smp' \in Smps
      BY <1>1, <2>1, <2>3, <3>1, <3>2, WordRead DEF ReadsWord, Smps
    <3>4. QED
      BY <1>1, <1>2, <2>1, <2>3, <3>3, WordRead, FineTypes DEF ReadsWord
  <2>4. QED
    BY <1>1, <1>16, <2>2, <2>3, WordSteps
<1>17. CASE TickPush
  <2>1. UNCHANGED fifo
    BY <1>17 DEF TickPush
  <2>2. ASSUME Wake([smp EXCEPT !.pc = "heal", !.recs = <<>>])
        PROVE  smp' \in Smps
    <3>1. <<>> \in Seq(Entries) /\ "heal" \in Pcs
      BY DEF Pcs
    <3>2. QED
      BY <1>1, <2>2, <3>1 DEF Wake, Smps
  <2>3. QED
    BY <1>1, <1>2, <1>17, <2>1, <2>2, PushSteps, SleepTypes, FineTypes DEF fifo
<1>18. ASSUME NEW late \in 0 .. RecordWords - 1, Heal(late) PROVE Types'
  <2>1. CASE Fail /\ UNCHANGED fifo
    BY <1>1, <1>2, <2>1, SleepTypes, FineTypes DEF Fail, fifo
  <2>2. CASE ResetRx(late) /\ Sleep([wpv EXCEPT !.misparse = 0])
    <3>1. [wpv EXCEPT !.misparse = 0] \in Wpvs
          /\ Len([wpv EXCEPT !.misparse = 0].ring) <= RingMax
      BY <1>1 DEF Wpvs
    <3>2. words' \in Seq(Cells) /\ lens' \in Nat /\ next' \in 0 .. Numbers - 1
      BY <1>1, <2>2, ResetLeaves
    <3>3. QED
      BY <1>2, <2>2, <3>1, <3>2, SleepTypes, FineTypes
  <2>3. QED
    BY <1>18, <2>1, <2>2 DEF Heal
<1> QED
  BY <1>4, <1>5, <1>6, <1>7, <1>8, <1>9, <1>10, <1>11, <1>12, <1>13, <1>14, <1>15, <1>16,
     <1>17, <1>18 DEF Sampler
LEMMA NewBusType ==
  ASSUME NEW sc \in Scenarios, made \in 0 .. MaxBuses, made < MaxBuses, NewBus(sc)
  PROVE  hw' \in BusObjects /\ hw'.gen = made + 1 /\ hw'.id \in Ids \ Taken
<1>1. PICK id \in Ids \ Taken, good \in BOOLEAN :
        hw' = [gen |-> made + 1, id |-> id, sc |-> sc, good |-> good]
  BY DEF NewBus
<1>2. made + 1 \in 0 .. MaxBuses
  BY Constants
<1>3. QED
  BY <1>1, <1>2 DEF BusObjects, Scenarios

LEMMA HandlerTypes ==
  ASSUME Types, Handlers
  PROVE  Types'
<1>1. /\ wpv \in Wpvs /\ Len(wpv.ring) <= RingMax /\ smp \in Smps /\ words \in Seq(Cells)
      /\ lens \in Nat /\ next \in 0 .. Numbers - 1 /\ SC \in Scenarios
      /\ current \in BusObjects /\ hw \in BusObjects /\ made \in 0 .. MaxBuses
      /\ sel \in Sels /\ get \in Gets /\ (sel.pc # "idle" => made < MaxBuses)
      /\ restarts \in 0 .. MaxRestarts /\ crossed \in BOOLEAN
  BY DEF Types
<1>2. DemoBus \in BusObjects
  BY Constants DEF DemoBus, BusObjects
<1>3. Idle \in Sels /\ Idle \in Gets
  BY <1>2 DEF Idle, Sels, Gets, Scenarios
<1>4. ASSUME NEW s \in {"wp", "plain"}, SelectScenario(s) PROVE Types'
  <2>1. SC' \in Scenarios /\ wpv' \in Wpvs /\ Len(wpv'.ring) <= RingMax
    BY <1>4, FreshType DEF SelectScenario, Scenarios
  <2>2. sel' \in Sels
    BY <1>1, <1>4 DEF SelectScenario, Sels, Scenarios
  <2>3. QED
    BY <1>1, <1>4, <2>1, <2>2 DEF SelectScenario, Types, fifo
<1>5. CASE SelectClose
  <2>1. sel' \in Sels
    BY <1>1, <1>5 DEF SelectClose, Sels
  <2>2. made < MaxBuses
    BY <1>1, <1>5 DEF SelectClose
  <2>3. QED
    BY <1>1, <1>2, <1>5, <2>1, <2>2 DEF SelectClose, Types, fifo
<1>6. CASE SelectMap
  <2>1. made < MaxBuses /\ sel.arg \in Scenarios
    BY <1>1, <1>6 DEF SelectMap, Sels
  <2>2. hw' \in BusObjects /\ current' \in BusObjects /\ made' \in 0 .. MaxBuses
    <3>1. CASE current' = DemoBus /\ UNCHANGED <<hw, made>>
      BY <1>1, <1>2, <3>1
    <3>2. CASE NewBus(sel.arg) /\ current' = hw' /\ made' = made + 1
      <4>1. hw' \in BusObjects
        BY <1>1, <2>1, <3>2, NewBusType
      <4>2. made' \in 0 .. MaxBuses
        BY <1>1, <2>1, <3>2, Constants
      <4>3. QED
        BY <3>2, <4>1, <4>2
    <3>3. QED
      BY <1>6, <3>1, <3>2, Zenon DEF SelectMap
  <2>3. sel' \in Sels /\ sel'.pc = "idle"
    BY <1>3, <1>6 DEF SelectMap, Idle
  <2>4. QED
    BY <1>1, <1>6, <2>2, <2>3 DEF SelectMap, Types, fifo
<1>7. CASE Mode
  BY <1>1, <1>2, <1>7 DEF Mode, Types, fifo
<1>8. CASE StatusBegin
  <2>1. get' \in Gets
    BY <1>1, <1>3, <1>8 DEF StatusBegin, Gets, Idle
  <2>2. QED
    BY <1>1, <1>8, <2>1 DEF StatusBegin, Types, fifo, server
<1>9. CASE StatusMagicOk
  <2>1. get' \in Gets
    BY <1>1, <1>9 DEF StatusMagicOk, Gets
  <2>2. wpv' \in Wpvs /\ Len(wpv'.ring) <= RingMax
    BY <1>1, <1>9 DEF StatusMagicOk, Wpvs
  <2>3. crossed' \in BOOLEAN
    BY <1>9 DEF StatusMagicOk
  <2>4. QED
    BY <1>1, <1>9, <2>1, <2>2, <2>3 DEF StatusMagicOk, Types, fifo, server
<1>10. CASE StatusMagicBus
  <2>1. get.bus.id \in Ids \cup {None}
    BY <1>1 DEF Gets, BusObjects
  <2>2. wpv' \in Wpvs /\ Len(wpv'.ring) <= RingMax
    BY <1>1, <1>10, <2>1 DEF StatusMagicBus, Wpvs
  <2>3. crossed' \in BOOLEAN
    BY <1>10 DEF StatusMagicBus
  <2>4. QED
    BY <1>1, <1>3, <1>10, <2>2, <2>3 DEF StatusMagicBus, Types, fifo, server
<1>11. QED
  BY <1>4, <1>5, <1>6, <1>7, <1>8, <1>9, <1>10 DEF Handlers

LEMMA RestartTypes ==
  ASSUME Types, Restart
  PROVE  Types'
<1>1. DemoBus \in BusObjects /\ "wp" \in Scenarios
  BY Constants DEF DemoBus, BusObjects, Scenarios
<1>2. sel' \in Sels /\ get' \in Gets /\ sel'.pc = "idle"
  BY <1>1 DEF Restart, Idle, Sels, Gets
<1>3. wpv' \in Wpvs /\ Len(wpv'.ring) <= RingMax
  BY <1>1, FreshType DEF Restart
<1>4. smp' \in Smps
  <2>1. Asleep = [Asleep EXCEPT !.bus = DemoBus]
    BY DEF Asleep
  <2>2. QED
    BY <1>1, <2>1, AsleepType DEF Restart
<1>5. /\ hw' \in BusObjects /\ current' \in BusObjects /\ made' \in 0 .. MaxBuses
      /\ SC' \in Scenarios
  BY <1>1, NewBusType, Constants DEF Restart, Types
<1>6. restarts' \in 0 .. MaxRestarts
  BY Constants DEF Restart, Types
<1>7. UNCHANGED fifo /\ crossed' = FALSE
  BY DEF Restart
<1>8. QED
  BY <1>2, <1>3, <1>4, <1>5, <1>6, <1>7 DEF Types, fifo

LEMMA StepTypes ==
  ASSUME Types, Tick, Room, [Next]_vars
  PROVE  Types'
<1>1. CASE Produce
  <2>1. words \in Seq(Cells) /\ lens \in Nat /\ next \in 0 .. Numbers - 1
    BY DEF Types
  <2>2. /\ words \o Arriving \in Seq(Cells) /\ (next + 1) % Numbers \in 0 .. Numbers - 1
        /\ lens + 1 \in Nat
    BY <2>1, RecordArrives
  <2>3. \/ words' = words \o Arriving /\ lens' = lens + 1
        \/ UNCHANGED <<words, lens>>
    BY <1>1 DEF Produce, Arriving
  <2>4. next' = (next + 1) % Numbers
    BY <1>1 DEF Produce
  <2>5. words' \in Seq(Cells) /\ lens' \in Nat /\ next' \in 0 .. Numbers - 1
    BY <2>1, <2>2, <2>3, <2>4
  <2>6. QED
    BY <1>1, <2>5 DEF Produce, Types, server
<1>2. CASE ApiRead
  BY <1>2, NamesAssumption DEF ApiRead, NamesAssumption, Types, server
<1>3. CASE UNCHANGED vars
  BY <1>3 DEF vars, fifo, server, Types
<1>4. QED
  BY <1>1, <1>2, <1>3, SamplerTypes, HandlerTypes, RestartTypes DEF Next
-----------------------------------------------------------------------------
(* What the sampler holds.                                                 *)

LEMMA TickStep ==
  ASSUME Types, Tick, Room, [Next]_vars
  PROVE  Tick'
<1> USE DEF Tick, Reading, OnLiveBus
<1>1. smp \in Smps /\ words \in Seq(Cells)
  BY DEF Types
<1>2. CASE UNCHANGED smp
  BY <1>2
<1>3. CASE Restart
  BY <1>3, Constants DEF Restart, Asleep
<1>4. ASSUME NEW w, Sleep(w) PROVE Tick'
  BY <1>1, <1>4, Constants DEF Sleep, Asleep, Smps
<1>5. CASE TickScenario \/ TickFit \/ TickBus \/ TickEmpty \/ TickSource
  <2>1. smp.recs = <<>> /\ smp.pkt = <<>> /\ smp.n = 0
    BY <1>5 DEF TickScenario, TickFit, TickBus, TickEmpty, TickSource
  <2>2. CASE TickScenario \/ TickFit \/ TickBus
    BY <1>1, <2>1, <2>2 DEF TickScenario, TickFit, TickBus, Wake, Smps
  <2>3. CASE TickEmpty \/ TickSource
    BY <1>1, <2>1, <2>3 DEF TickEmpty, TickSource, Wake, Smps
  <2>4. QED
    BY <1>5, <2>2, <2>3
<1>6. CASE TickDrain
  BY <1>1, <1>4, <1>6 DEF TickDrain, Fail, Wake, Smps
<1>7. CASE TickMagic \/ TickMagicOk \/ TickMagicBus
  BY <1>1, <1>4, <1>7 DEF TickMagic, TickMagicOk, TickMagicBus, Fail, Wake, Smps
<1>8. CASE TickBind
  BY <1>1, <1>4, <1>8 DEF TickBind, Fail, Wake, Smps
<1>9. CASE TickOccupancy
  <2>1. CASE Fail
    BY <1>4, <2>1 DEF Fail
  <2>2. CASE Wake([smp EXCEPT !.pc = "push"])
    BY <1>1, <1>9, <2>2 DEF TickOccupancy, Wake, Smps
  <2>3. CASE smp.n < DrainMax /\ Wake([smp EXCEPT !.pc = "rlr", !.occ = Len(words)])
    BY <1>1, <1>9, <2>3 DEF TickOccupancy, Wake, Smps
  <2>4. QED
    BY <1>1, <1>9, <2>1, <2>2, <2>3, Constants DEF TickOccupancy, Smps
<1>10. CASE TickLength
  BY <1>1, <1>4, <1>10 DEF TickLength, Fail, Wake, Smps
<1>11. CASE TickWord
  <2>1. smp.pc = "word"
    BY <1>11 DEF TickWord
  <2>2. Len(Batch) <= Len(smp.recs) + 1
    BY <1>1, <2>1, WordRead DEF Smps
  <2>3. CASE ReadsWord
    <3>1. CASE smp' = [smp EXCEPT !.pkt = Packet]
      BY <1>1, <2>1, <3>1 DEF Smps
    <3>2. CASE smp' = [smp EXCEPT !.pc = "occ", !.n = smp.n + 1, !.pkt = <<>>, !.left = 0,
                          !.recs = Batch]
      <4>1. smp.n \in Nat /\ Len(smp.recs) \in Nat /\ Len(Batch) \in Nat
        BY <1>1, <2>1, WordRead, Constants DEF Smps
      <4>2. QED
        BY <1>1, <2>1, <2>2, <3>2, <4>1 DEF Smps
    <3>3. QED
      BY <2>3, <3>1, <3>2 DEF ReadsWord
  <2>4. QED
    BY <1>1, <1>4, <1>11, <2>3, WordSteps DEF Fail
<1>12. CASE TickPush
  <2>1. CASE Wake([smp EXCEPT !.pc = "heal", !.recs = <<>>])
    BY <1>1, <1>12, <2>1 DEF TickPush, Wake, Smps
  <2>2. QED
    BY <1>4, <1>12, <2>1, PushSteps
<1>13. ASSUME NEW late \in 0 .. RecordWords - 1, Heal(late) PROVE Tick'
  BY <1>4, <1>13 DEF Heal, Fail
<1>14. QED
  BY <1>2, <1>3, <1>5, <1>6, <1>7, <1>8, <1>9, <1>10, <1>11, <1>12, <1>13
  DEF Next, Sampler, Handlers, Produce, ApiRead, SelectScenario, SelectClose, SelectMap,
      Mode, StatusBegin, StatusMagicOk, StatusMagicBus, vars
-----------------------------------------------------------------------------
(* Room.                                                                   *)

LEMMA Product ==
  /\ 0 * RecordWords = 0
  /\ \A a \in Nat : /\ a * RecordWords \in Nat
                    /\ (a + 1) * RecordWords = a * RecordWords + RecordWords
                    /\ (a - 1) * RecordWords = a * RecordWords - RecordWords
BY Constants

LEMMA RoomStep ==
  ASSUME Types, Tick, Room, [Next]_vars
  PROVE  Room'
<1>1. smp \in Smps /\ words \in Seq(Cells) /\ lens \in Nat /\ next \in 0 .. Numbers - 1
  BY DEF Types
<1>2. CASE UNCHANGED <<words, lens, smp>>
  BY <1>2 DEF Room
<1>3. CASE Produce
  <2>1. UNCHANGED smp
    BY <1>3 DEF Produce
  <2>2. CASE UNCHANGED <<words, lens>>
    BY <2>1, <2>2 DEF Room
  <2>3. CASE Len(words) + RecordWords <= Capacity /\ words' = words \o Arriving /\ lens' = lens + 1
    <3>1. Len(words') = Len(words) + RecordWords
      BY <1>1, <2>3, RecordArrives
    <3>2. lens' * RecordWords = lens * RecordWords + RecordWords /\ lens * RecordWords \in Nat
      BY <1>1, <2>3, Product
    <3>3. /\ Len(words) \in Nat /\ Len(smp.pkt) \in Nat /\ smp.left \in Nat /\ smp.occ \in Nat
      BY <1>1, Constants DEF Smps
    <3>4. Len(words') <= Capacity /\ Len(words) <= Len(words')
      BY ONLY <2>3, <3>1, <3>3, Constants
    <3>5. lens' * RecordWords <= Len(words')
      BY ONLY Room, <3>1, <3>2, <3>3, Constants DEF Room
    <3>6. smp.pc = "rlr" => 0 < smp.occ /\ smp.occ <= Len(words')
      BY ONLY Room, <3>1, <3>3, Constants DEF Room
    <3>7. smp.pc = "word" => /\ Len(smp.pkt) < smp.left
                             /\ lens' * RecordWords + smp.left - Len(smp.pkt) <= Len(words')
      BY ONLY Room, <3>1, <3>2, <3>3, Constants DEF Room
    <3>8. QED
      BY ONLY <2>1, <3>4, <3>5, <3>6, <3>7 DEF Room
  <2>4. QED
    BY <1>3, <2>2, <2>3 DEF Produce, Arriving
<1>4. ASSUME smp'.pc \notin {"rlr", "word"}, UNCHANGED <<words, lens>> PROVE Room'
  BY <1>4 DEF Room
<1>5. ASSUME NEW late \in 0 .. RecordWords - 1, ResetRx(late), smp'.pc \notin {"rlr", "word"}
      PROVE  Room'
  <2>1. Len(words') = late /\ lens' = 0
    BY <1>1, <1>5, ResetLeaves
  <2>2. QED
    BY <1>5, <2>1, Product, Constants DEF Room
<1>6. ASSUME NEW wpw, Sleep(wpw) PROVE smp'.pc = "sleep"
  BY <1>6 DEF Sleep, Asleep
<1>7. CASE Restart
  BY <1>4, <1>7 DEF Restart, Asleep, fifo
<1>8. CASE TickScenario \/ TickFit \/ TickBus \/ TickEmpty \/ TickSource
  <2>1. smp'.pc \notin {"rlr", "word"}
    BY <1>1, <1>8 DEF TickScenario, TickFit, TickBus, TickEmpty, TickSource, Wake, Smps
  <2>2. QED
    BY <1>4, <1>8, <2>1 DEF TickScenario, TickFit, TickBus, TickEmpty, TickSource, fifo
<1>9. CASE TickDrain \/ TickMagic \/ TickMagicOk \/ TickMagicBus \/ TickPush
  <2>1. smp'.pc \notin {"rlr", "word"}
    BY <1>1, <1>6, <1>9 DEF TickDrain, TickMagic, TickMagicOk, TickMagicBus, TickPush, Wake,
       Smps, Fail
  <2>2. QED
    BY <1>4, <1>9, <2>1 DEF TickDrain, TickMagic, TickMagicOk, TickMagicBus, TickPush, fifo
<1>10. CASE TickBind
  <2>1. smp'.pc \notin {"rlr", "word"}
    BY <1>1, <1>6, <1>10 DEF TickBind, Wake, Smps, Fail
  <2>2. QED
    BY <1>4, <1>5, <1>10, <2>1 DEF TickBind, fifo
<1>11. CASE TickOccupancy
  <2>1. UNCHANGED <<words, lens>>
    BY <1>11 DEF TickOccupancy, fifo
  <2>2. CASE smp'.pc \notin {"rlr", "word"}
    BY <1>4, <2>1, <2>2
  <2>3. CASE Len(words) # 0 /\ smp' = [smp EXCEPT !.pc = "rlr", !.occ = Len(words)]
    BY <1>1, <2>1, <2>3 DEF Room, Smps
  <2>4. smp'.pc \notin {"rlr", "word"}
        \/ (Len(words) # 0 /\ smp' = [smp EXCEPT !.pc = "rlr", !.occ = Len(words)])
    BY <1>1, <1>6, <1>11 DEF TickOccupancy, Fail, Wake, Smps
  <2>5. QED
    BY <2>2, <2>3, <2>4
<1>12. CASE TickLength
  <2>1. UNCHANGED words /\ smp.pc = "rlr"
    BY <1>12 DEF TickLength
  <2>2. CASE smp'.pc \notin {"rlr", "word"} /\ UNCHANGED lens
    BY <1>4, <2>1, <2>2
  <2> DEFINE count == IF smp.occ < RecordWords THEN smp.occ ELSE RecordWords
  <2>3. CASE /\ lens # 0 /\ lens' = lens - 1
             /\ smp' = [smp EXCEPT !.pc = "word", !.occ = 0, !.pkt = <<>>, !.left = count]
    <3>1. lens' * RecordWords = lens * RecordWords - RecordWords /\ lens * RecordWords \in Nat
      BY <1>1, <2>3, Product
    <3>2. count > 0 /\ count <= RecordWords /\ count \in Nat
      BY <1>1, <2>1, Constants DEF Room, Smps
    <3> HIDE DEF count
    <3>3. smp'.pc = "word" /\ smp'.left = count /\ Len(smp'.pkt) = 0
      BY <1>1, <2>3 DEF Smps
    <3>4. QED
      BY <1>1, <2>1, <3>1, <3>2, <3>3, Constants DEF Room
  <2>4. QED
    BY <1>1, <1>6, <1>12, <2>2, <2>3 DEF TickLength, Fail, Wake, Smps
<1>13. CASE TickWord
  <2>1. UNCHANGED lens /\ smp.pc = "word"
    BY <1>13 DEF TickWord
  <2>2. CASE Fail /\ UNCHANGED words
    BY <1>4, <1>6, <2>1, <2>2 DEF Fail
  <2>3. CASE ReadsWord
    <3>1. words' = Tail(words) /\ Len(words') = Len(words) - 1
      BY <1>1, <2>1, <2>3, WordRead DEF ReadsWord
    <3>2. lens * RecordWords \in Nat /\ Len(words) \in Nat /\ Len(smp.pkt) \in Nat
          /\ smp.left \in Nat
      BY <1>1, Product, Constants DEF Smps
    <3>3. CASE Len(Packet) # smp.left /\ smp' = [smp EXCEPT !.pkt = Packet]
      <4>1. smp'.pc = "word" /\ smp'.left = smp.left /\ Len(smp'.pkt) = Len(smp.pkt) + 1
        BY <1>1, <2>1, <3>3, WordRead DEF Smps
      <4>2. Len(smp.pkt) + 1 < smp.left
        BY <1>1, <2>1, <3>2, <3>3, WordRead DEF Room
      <4>3. QED
        BY ONLY Room, <2>1, <3>1, <3>2, <4>1, <4>2, Constants DEF Room
    <3>4. CASE /\ Len(Packet) = smp.left
               /\ smp' = [smp EXCEPT !.pc = "occ", !.n = smp.n + 1, !.pkt = <<>>, !.left = 0,
                            !.recs = Batch]
      <4>1. smp'.pc = "occ"
        BY <1>1, <3>4 DEF Smps
      <4>2. QED
        BY <2>1, <3>1, <3>2, <4>1, Constants DEF Room
    <3>5. QED
      BY <2>3, <3>3, <3>4 DEF ReadsWord
  <2>4. QED
    BY <1>1, <1>13, <2>2, <2>3, WordSteps
<1>14. ASSUME NEW late \in 0 .. RecordWords - 1, Heal(late) PROVE Room'
  <2>1. smp'.pc \notin {"rlr", "word"}
    BY <1>6, <1>14 DEF Heal, Fail
  <2>2. QED
    BY <1>4, <1>5, <1>14, <2>1 DEF Heal, fifo
<1>15. CASE ApiRead
  BY <1>2, <1>15, NamesAssumption DEF ApiRead, NamesAssumption
<1>16. QED
  BY <1>2, <1>3, <1>7, <1>8, <1>9, <1>10, <1>11, <1>12, <1>13, <1>14, <1>15
  DEF Next, Sampler, Handlers, SelectScenario, SelectClose, SelectMap,
      Mode, StatusBegin, StatusMagicOk, StatusMagicBus, vars, fifo
-----------------------------------------------------------------------------
(* Bus objects.                                                            *)

LEMMA SameObjects ==
  ASSUME Types, Identity, Known' \subseteq Known \cup {DemoBus}, UNCHANGED made
  PROVE  Identity'
<1>1. made \in Nat
  BY Constants DEF Types
<1>2. DemoBus.gen = 0
  BY DEF DemoBus
<1>3. \A b \in Known \cup {DemoBus} : /\ b.gen <= made
                                      /\ b.gen # 0 => b.id \in Ids
                                      /\ b.gen = 0 => b = DemoBus
  BY <1>1, <1>2 DEF Identity
<1>4. \A a, b \in Known \cup {DemoBus} : a.gen # 0 /\ b.gen # 0 /\ a.id = b.id => a = b
  BY <1>2 DEF Identity
<1>5. QED
  BY ONLY <1>3, <1>4, Known' \subseteq Known \cup {DemoBus}, made' = made DEF Identity

LEMMA OneMore ==
  ASSUME Types, Identity, Known' \subseteq {DemoBus, hw'} \cup Known, made' = made + 1,
         NEW sc \in Scenarios, made < MaxBuses, NewBus(sc)
  PROVE  Identity'
<1>1. made \in Nat
  BY Constants DEF Types
<1>2. DemoBus.gen = 0
  BY DEF DemoBus
<1>3. hw'.gen = made + 1 /\ hw'.id \in Ids \ Taken
  BY NewBusType DEF Types
<1>4. \A b \in Known : b.id # hw'.id /\ b.gen \in Nat
  <2>1. \A b \in Known : b \in BusObjects
    BY DEF Types, Known, Smps, Gets, Wpvs
  <2>2. \A b \in Known : b.gen \in Nat
    BY <2>1, Constants DEF BusObjects
  <2>3. QED
    BY <1>3, <2>2 DEF Taken, Known
<1>5. \A b \in {DemoBus, hw'} \cup Known : /\ b.gen <= made + 1
                                           /\ b.gen # 0 => b.id \in Ids
                                           /\ b.gen = 0 => b = DemoBus
  <2>1. \A b \in Known : b.gen <= made
    BY DEF Identity
  <2>2. QED
    BY <1>1, <1>2, <1>3, <1>4, <2>1 DEF Identity
<1>6. \A a, b \in {DemoBus, hw'} \cup Known : a.gen # 0 /\ b.gen # 0 /\ a.id = b.id => a = b
  BY <1>2, <1>3, <1>4 DEF Identity
<1>7. QED
  BY ONLY <1>5, <1>6, Known' \subseteq {DemoBus, hw'} \cup Known, made' = made + 1 DEF Identity

LEMMA IdentityStep ==
  ASSUME Types, Tick, Room, Identity, [Next]_vars
  PROVE  Identity'
<1>1. smp \in Smps /\ wpv \in Wpvs /\ get \in Gets /\ sel \in Sels
  BY DEF Types
<1>2. ASSUME UNCHANGED <<hw, current, get, made>>, smp'.bus \in Known \cup {DemoBus},
             wpv'.bound \in Known \cup {DemoBus}
      PROVE  Identity'
  BY <1>2, SameObjects DEF Known
<1>3. ASSUME NEW wpw, Sleep(wpw) PROVE smp'.bus = smp.bus /\ wpv' = wpw
  BY <1>1, <1>3 DEF Sleep, Asleep
<1>4. ASSUME Others PROVE UNCHANGED <<hw, current, get, made>>
  BY <1>4 DEF Others, server
<1>5. smp.bus \in Known /\ wpv.bound \in Known /\ current \in Known /\ hw \in Known
      /\ get.bus \in Known
  BY DEF Known
<1>6. CASE Sampler
  <2>1. Others
    BY <1>6 DEF Sampler, TickScenario, TickFit, TickBus, TickEmpty, TickSource, TickDrain,
       TickMagic, TickMagicOk, TickMagicBus, TickBind, TickOccupancy, TickLength,
       TickWord, TickPush, Heal
  <2>2. ASSUME smp'.bus \in {smp.bus, current}, wpv'.bound \in {wpv.bound, smp.bus, DemoBus}
        PROVE  Identity'
    BY <1>2, <1>4, <1>5, <2>1, <2>2
  <2>3. CASE TickScenario \/ TickFit \/ TickBus \/ TickEmpty \/ TickSource
    <3>1. smp'.bus \in {smp.bus, current}
      BY <1>1, <2>3 DEF TickScenario, TickFit, TickBus, TickEmpty, TickSource, Wake, Smps
    <3>2. wpv'.bound \in {wpv.bound, DemoBus}
      BY <1>1, <2>3 DEF TickScenario, TickFit, TickBus, TickEmpty, TickSource, Wpvs, Fresh
    <3>3. QED
      BY <2>2, <3>1, <3>2
  <2>4. CASE TickDrain
    BY <1>1, <1>3, <2>2, <2>4 DEF TickDrain, Fail, Wake, Smps, Wpvs
  <2>5. CASE TickMagic \/ TickMagicOk \/ TickMagicBus
    BY <1>1, <1>3, <2>2, <2>5 DEF TickMagic, TickMagicOk, TickMagicBus, Fail, Wake, Smps, Wpvs
  <2>6. CASE TickBind
    BY <1>1, <1>3, <2>2, <2>6 DEF TickBind, Fail, Wake, Smps, Wpvs
  <2>7. CASE TickOccupancy \/ TickLength
    BY <1>1, <1>3, <2>2, <2>7 DEF TickOccupancy, TickLength, Fail, Wake, Smps, Wpvs
  <2>8. CASE TickWord
    <3>1. CASE ReadsWord
      BY <1>1, <2>2, <3>1 DEF ReadsWord, Smps
    <3>2. QED
      BY <1>1, <1>3, <2>2, <2>8, <3>1, WordSteps DEF Fail
  <2>9. CASE TickPush
    <3>1. Filled.bound = wpv.bound
      BY <1>1 DEF Filled, Wpvs
    <3>2. wpv' = Filled
      BY <1>3, <2>9, PushSteps
    <3>3. smp'.bus = smp.bus
      BY <1>1, <1>3, <2>9, PushSteps DEF Wake, Smps
    <3>4. QED
      BY <2>2, <3>1, <3>2, <3>3
  <2>10. ASSUME NEW late \in 0 .. RecordWords - 1, Heal(late) PROVE Identity'
    BY <1>1, <1>3, <2>2, <2>10 DEF Heal, Fail, Wpvs
  <2>11. QED
    BY <1>6, <2>3, <2>4, <2>5, <2>6, <2>7, <2>8, <2>9, <2>10 DEF Sampler
<1>7. CASE Produce \/ ApiRead \/ UNCHANGED vars
  BY <1>2, <1>5, <1>7 DEF Produce, ApiRead, vars, server
<1>8. ASSUME NEW s \in {"wp", "plain"}, SelectScenario(s) PROVE Identity'
  BY <1>2, <1>5, <1>8 DEF SelectScenario, Fresh
<1>9. CASE SelectClose
  BY <1>5, <1>9, SameObjects DEF SelectClose, Known
<1>10. CASE SelectMap
  <2>1. UNCHANGED <<smp, get, wpv>> /\ made < MaxBuses /\ sel.arg \in Scenarios
    BY <1>1, <1>10 DEF SelectMap, Types, Sels
  <2>2. CASE current' = DemoBus /\ UNCHANGED <<hw, made>>
    BY <2>1, <2>2, SameObjects DEF Known
  <2>3. CASE NewBus(sel.arg) /\ current' = hw' /\ made' = made + 1
    <3>1. Known' \subseteq {DemoBus, hw'} \cup Known
      BY <2>1, <2>3 DEF Known
    <3>2. QED
      BY <2>1, <2>3, <3>1, OneMore
  <2>4. QED
    BY <1>10, <2>2, <2>3 DEF SelectMap
<1>11. CASE Mode
  BY <1>5, <1>11, SameObjects DEF Mode, Known
<1>12. CASE StatusBegin \/ StatusMagicOk \/ StatusMagicBus
  <2>1. UNCHANGED <<hw, current, made, smp>> /\ wpv'.bound = wpv.bound
    BY <1>1, <1>12 DEF StatusBegin, StatusMagicOk, StatusMagicBus, server, Wpvs
  <2>2. get'.bus \in Known \cup {DemoBus}
    <3>1. get'.bus \in {current, get.bus, DemoBus}
      <4>1. CASE StatusBegin
        BY <4>1 DEF StatusBegin, Idle
      <4>2. CASE StatusMagicOk
        BY <1>1, <4>2 DEF StatusMagicOk, Gets
      <4>3. CASE StatusMagicBus
        BY <4>3 DEF StatusMagicBus, Idle
      <4>4. QED
        BY <1>12, <4>1, <4>2, <4>3
    <3>2. QED
      BY <1>5, <3>1
  <2>3. QED
    BY <2>1, <2>2, SameObjects DEF Known
<1>13. CASE Restart
  <2>1. NewBus("wp") /\ made' = made + 1 /\ made < MaxBuses /\ "wp" \in Scenarios
    BY <1>13 DEF Restart, Scenarios
  <2>2. Known' \subseteq {DemoBus, hw'} \cup Known
    BY <1>13 DEF Restart, Known, Fresh, Asleep, Idle
  <2>3. QED
    BY <2>1, <2>2, OneMore
<1>14. QED
  BY <1>6, <1>7, <1>8, <1>9, <1>10, <1>11, <1>12, <1>13 DEF Next, Handlers

LEMMA InitIdentity == Init => Identity
<1> SUFFICES ASSUME Init PROVE Identity
  OBVIOUS
<1>1. Ids # {}
  BY ONLY SizesAssumption, FS_EmptySet DEF SizesAssumption
<1>2. \A b \in Known : b \in {hw, DemoBus}
  BY DEF Init, Known, Fresh, Asleep, Idle
<1>3. hw.gen = 1 /\ hw.id \in Ids /\ made = 1
  BY <1>1 DEF Init
<1>4. DemoBus.gen = 0
  BY DEF DemoBus
<1>5. QED
  BY <1>2, <1>3, <1>4 DEF Identity
-----------------------------------------------------------------------------
(* The count of invalid records.                                           *)

\* A bus once closed stays closed.
LEMMA ClosedForGood ==
  ASSUME Types, Identity, [Next]_vars, NEW b \in Known, hw'.gen # 0, b = hw'
  PROVE  Open(b)
<1>1. b.gen <= made /\ made \in Nat /\ b.gen # 0 /\ b = hw'
  BY Constants DEF Identity, Types
<1>2. CASE UNCHANGED hw
  BY <1>1, <1>2 DEF Open
<1>3. CASE SelectClose
  BY <1>1, <1>3 DEF SelectClose, DemoBus
<1>4. CASE SelectMap
  <2>1. CASE NewBus(sel.arg)
    <3>1. hw'.gen = made + 1
      BY <2>1 DEF NewBus
    <3>2. QED
      BY <1>1, <3>1
  <2>2. QED
    BY <1>2, <1>4, <2>1 DEF SelectMap
<1>5. CASE Restart
  <2>1. hw'.gen = made + 1
    BY <1>5 DEF Restart, NewBus
  <2>2. QED
    BY <1>1, <2>1
<1>6. QED
  BY <1>2, <1>3, <1>4, <1>5 DEF Next, Produce, ApiRead, Handlers, SelectScenario, Mode,
     StatusBegin, StatusMagicOk, StatusMagicBus, server, vars, Sampler, TickScenario, TickFit,
     TickBus, TickEmpty, TickSource, TickDrain, TickMagic, TickMagicOk, TickMagicBus, TickBind,
     TickOccupancy, TickLength, TickWord, TickPush, Heal, Others
LEMMA CountedStep ==
  ASSUME Types, Tick, Room, Identity, Counted, [Next]_vars
  PROVE  Counted'
<1> USE DEF Reading
<1>1. smp \in Smps /\ wpv \in Wpvs /\ get \in Gets /\ smp.n \in Nat /\ wpv.misparse \in Nat
  BY Constants DEF Types, Smps, Wpvs
<1>2. ~Open(DemoBus) /\ ~Open(DemoBus)'
  BY DEF Open, DemoBus
<1>3. ASSUME wpv'.bound = wpv.bound PROVE Open(wpv.bound)' => Open(wpv.bound)
  BY <1>3, ClosedForGood DEF Known, Open
<1>4. ASSUME NEW sc, wpv' = Fresh(sc) PROVE Counted'
  <2>1. wpv'.bound = DemoBus /\ wpv'.misparse = 0
    BY <1>4 DEF Fresh
  <2>2. QED
    BY <2>1, Constants DEF Counted
\* Nothing is counted, and the tick is elsewhere.
<1>5. ASSUME wpv'.misparse = wpv.misparse, wpv'.bound = wpv.bound,
             smp'.pc = smp.pc \/ (smp'.pc \notin Reading \cup {"heal"} /\ smp.pc # "heal"),
             smp'.bus = smp.bus \/ smp'.pc \notin Reading \cup {"heal"}, smp'.n = smp.n \/ smp'.n = 0
      PROVE  Counted'
  <2>1. wpv.misparse >= ResyncAfter => smp'.pc = "heal" \/ ~Open(wpv.bound)'
    BY <1>3, <1>5 DEF Counted
  <2>2. wpv'.misparse <= ResyncAfter - 1 + DrainMax
    BY <1>5 DEF Counted
  <2>3. CASE smp'.pc = smp.pc
    <3>1. smp'.pc \in Reading \cup {"heal"} => wpv'.bound \in {smp'.bus, DemoBus}
      BY <1>5, <2>3 DEF Counted
    <3>2. smp'.pc \in Reading /\ wpv'.bound = DemoBus => wpv'.misparse = 0
      BY <1>5, <2>3 DEF Counted
    <3>3. smp'.pc \in Reading /\ (smp'.pc = "occ" => smp'.n > 0) => wpv'.misparse < ResyncAfter
      BY <1>1, <1>5, <2>3 DEF Counted
    <3>4. QED
      BY <1>5, <2>1, <2>2, <3>1, <3>2, <3>3 DEF Counted
  <2>4. CASE smp'.pc \notin Reading \cup {"heal"}
    BY <1>1, <1>5, <2>1, <2>2, <2>4 DEF Counted
  <2>5. QED
    BY <1>5, <2>3, <2>4
<1>6. ASSUME NEW wpw, Sleep(wpw)
      PROVE  smp'.bus = smp.bus /\ smp'.pc = "sleep" /\ smp'.n = 0 /\ wpv' = wpw
  BY <1>1, <1>6 DEF Sleep, Asleep
<1>7. CASE Produce \/ ApiRead \/ UNCHANGED vars \/ SelectClose \/ SelectMap \/ Mode \/ StatusBegin
      \/ StatusMagicOk \/ StatusMagicBus
  <2>1. UNCHANGED smp /\ wpv'.misparse = wpv.misparse /\ wpv'.bound = wpv.bound
    BY <1>1, <1>7 DEF Produce, ApiRead, vars, server, SelectClose, SelectMap, Mode,
       StatusBegin, StatusMagicOk, StatusMagicBus, Wpvs
  <2>2. QED
    BY <1>5, <2>1
<1>8. ASSUME NEW s \in {"wp", "plain"}, SelectScenario(s) PROVE Counted'
  BY <1>4, <1>8 DEF SelectScenario
<1>9. CASE Restart
  BY <1>4, <1>9 DEF Restart
<1>10. ASSUME NEW wpw \in Wpvs, Sleep(wpw), wpw.misparse = wpv.misparse, wpw.bound = wpv.bound,
              smp.pc # "heal"
       PROVE  Counted'
  BY <1>5, <1>6, <1>10
<1>11. CASE TickScenario \/ TickBus \/ TickSource
  <2>1. wpv'.misparse = wpv.misparse /\ wpv'.bound = wpv.bound
    BY <1>1, <1>11 DEF TickScenario, TickBus, TickSource, Wpvs
  <2>2. smp'.pc \notin Reading \cup {"heal"} /\ smp.pc # "heal" /\ smp'.n = smp.n
    BY <1>1, <1>11 DEF TickScenario, TickBus, TickSource, Smps, Wake
  <2>3. QED
    BY <1>5, <2>1, <2>2
<1>12. CASE TickFit
  <2>1. smp'.pc \notin Reading \cup {"heal"} /\ smp.pc # "heal" /\ smp'.n = smp.n
    BY <1>1, <1>12 DEF TickFit, Smps, Wake
  <2>2. QED
    BY <1>4, <1>5, <1>12, <2>1 DEF TickFit
<1>13. CASE TickEmpty
  BY <1>4, <1>13 DEF TickEmpty
<1>14. CASE TickDrain
  <2>1. smp.pc = "drain"
    BY <1>14 DEF TickDrain
  <2>2. CASE \E wpw : Sleep(wpw) /\ wpw.misparse = wpv.misparse /\ wpw.bound = wpv.bound
    BY <1>5, <1>6, <2>1, <2>2
  <2>3. CASE Wake([smp EXCEPT !.pc = "magic"]) /\ UNCHANGED wpv
    BY <1>1, <1>5, <2>1, <2>3 DEF Wake, Smps
  <2>4. LET wpw == [wpv EXCEPT !.ring = Pushed(@, <<DemoRecord>>)]
        IN wpw.misparse = wpv.misparse /\ wpw.bound = wpv.bound
    BY <1>1 DEF Wpvs
  <2>5. QED
    BY <1>14, <2>2, <2>3, <2>4 DEF TickDrain, Fail
<1>15. CASE TickMagic \/ TickMagicOk \/ TickMagicBus
  <2>1. wpv'.misparse = wpv.misparse /\ wpv'.bound = wpv.bound
    BY <1>1, <1>6, <1>15 DEF TickMagic, TickMagicOk, TickMagicBus, Fail, Wpvs
  <2>2. smp'.pc \notin Reading \cup {"heal"} /\ smp.pc # "heal" /\ smp'.n \in {0, smp.n}
    BY <1>1, <1>6, <1>15 DEF TickMagic, TickMagicOk, TickMagicBus, Fail, Smps, Wake
  <2>3. QED
    BY <1>5, <2>1, <2>2
<1>16. CASE TickBind
  <2>1. smp.pc = "bind" /\ smp.bus # DemoBus /\ smp.n = 0
    BY <1>16 DEF TickBind, Tick, OnLiveBus, DemoBus
  <2>2. CASE Fail
    BY <1>5, <1>6, <2>1, <2>2 DEF Fail
  <2>3. CASE wpv.bound = smp.bus /\ smp' = [smp EXCEPT !.pc = "occ"] /\ UNCHANGED wpv
    <3>1. smp'.pc = "occ" /\ smp'.bus = smp.bus /\ smp'.n = 0
      BY <1>1, <2>1, <2>3 DEF Smps
    <3>2. wpv.misparse >= ResyncAfter => ~Open(wpv.bound)'
      BY <1>3, <2>1, <2>3 DEF Counted
    <3>3. QED
      BY <2>1, <2>3, <3>1, <3>2 DEF Counted
  <2>4. CASE wpv' = [wpv EXCEPT !.bound = smp.bus, !.misparse = 0] /\ smp' = [smp EXCEPT !.pc = "occ"]
    <3>1. smp'.pc = "occ" /\ smp'.bus = smp.bus
      BY <1>1, <2>4 DEF Smps
    <3>2. wpv'.bound = smp.bus /\ wpv'.misparse = 0
      BY <1>1, <2>4 DEF Wpvs
    <3>3. QED
      BY <3>1, <3>2, Constants DEF Counted
  <2>5. QED
    BY <1>16, <2>2, <2>3, <2>4 DEF TickBind, Wake
<1>17. ASSUME smp.pc \in Reading, smp.n > 0 \/ smp.pc # "occ" \/ Open(smp.bus)
       PROVE  wpv.misparse < ResyncAfter
  BY <1>1, <1>17, Constants DEF Counted
\* Reading goes on: the bus has not been closed.
<1>18. ASSUME smp.pc \in Reading, wpv.misparse < ResyncAfter, UNCHANGED wpv,
              smp'.pc \in Reading, smp'.bus = smp.bus
       PROVE  Counted'
  BY <1>1, <1>18, Constants DEF Counted
<1>19. CASE TickOccupancy
  <2>1. smp.pc = "occ"
    BY <1>19 DEF TickOccupancy
  <2>2. CASE Fail
    BY <1>5, <1>6, <2>1, <2>2 DEF Fail
  <2>3. CASE ~Fail
    <3>1. smp'.pc \in Reading /\ smp'.bus = smp.bus /\ UNCHANGED wpv
      BY <1>1, <1>19, <2>3 DEF TickOccupancy, Wake, Smps
    <3>2. smp.n > 0 \/ Open(smp.bus)
      BY <1>1, <1>19, <2>3, Constants DEF TickOccupancy
    <3>3. QED
      BY <1>17, <1>18, <2>1, <3>1, <3>2
  <2>4. QED
    BY <2>2, <2>3
<1>20. CASE TickLength
  <2>1. smp.pc = "rlr"
    BY <1>20 DEF TickLength
  <2>2. CASE Fail
    BY <1>5, <1>6, <2>1, <2>2 DEF Fail
  <2>3. CASE ~Fail
    <3>1. smp'.pc \in Reading /\ smp'.bus = smp.bus /\ UNCHANGED wpv
      BY <1>1, <1>20, <2>3 DEF TickLength, Wake, Smps
    <3>2. QED
      BY <1>17, <1>18, <2>1, <3>1
  <2>4. QED
    BY <2>2, <2>3
<1>21. CASE TickWord
  <2>1. smp.pc = "word"
    BY <1>21 DEF TickWord
  <2>2. CASE Fail
    BY <1>5, <1>6, <2>1, <2>2 DEF Fail
  <2>3. CASE ReadsWord
    <3>1. smp'.pc \in Reading /\ smp'.bus = smp.bus /\ UNCHANGED wpv
      BY <1>1, <2>1, <2>3 DEF ReadsWord, Smps
    <3>2. QED
      BY <1>17, <1>18, <2>1, <3>1
  <2>4. QED
    BY <1>1, <1>21, <2>2, <2>3, WordSteps
<1>22. CASE TickPush
  <2>1. smp.pc = "push" /\ wpv.misparse < ResyncAfter
    BY <1>17, <1>22 DEF TickPush
  <2>2. wpv' = Filled /\ Filled.bound = wpv.bound /\ Filled.misparse = Count
    BY <1>1, <1>6, <1>22, PushSteps DEF Filled, Wpvs
  <2>3. Count \in Nat /\ Count <= ResyncAfter - 1 + DrainMax
        /\ (smp.recs = <<>> => Count < ResyncAfter)
    <3>1. Len(smp.recs) \in 0 .. DrainMax /\ (smp.recs = <<>> => Len(smp.recs) = 0)
      BY <1>1, Constants DEF Tick, Smps
    <3>2. Count \in {0, wpv.misparse + Len(smp.recs)}
      BY DEF Count
    <3>3. QED
      BY ONLY <1>1, <2>1, <3>1, <3>2, Constants
  <2>4. CASE Sleep(Filled) /\ (smp.recs = <<>> \/ Count < ResyncAfter)
    <3>1. smp'.pc = "sleep" /\ Count < ResyncAfter
      BY <1>6, <2>3, <2>4
    <3>2. QED
      BY <2>2, <2>3, <3>1, Constants DEF Counted
  <2>5. CASE Wake([smp EXCEPT !.pc = "heal", !.recs = <<>>])
    <3>1. smp'.pc = "heal" /\ smp'.bus = smp.bus
      BY <1>1, <2>5 DEF Wake, Smps
    <3>2. wpv.bound \in {smp.bus, DemoBus}
      BY <2>1 DEF Counted
    <3>3. QED
      BY <2>2, <2>3, <3>1, <3>2 DEF Counted
  <2>6. QED
    BY <1>22, <2>4, <2>5, PushSteps
<1>23. ASSUME NEW late \in 0 .. RecordWords - 1, Heal(late) PROVE Counted'
  <2>1. smp.pc = "heal"
    BY <1>23 DEF Heal
  <2>2. CASE Fail /\ ~Open(smp.bus)
    <3>1. wpv.bound \in {smp.bus, DemoBus} /\ ~Open(wpv.bound)
      BY <1>2, <2>1, <2>2 DEF Counted
    <3>2. smp'.pc = "sleep" /\ wpv' = wpv
      BY <1>6, <2>2 DEF Fail
    <3>3. ~Open(wpv.bound)'
      BY <1>3, <3>1, <3>2
    <3>4. QED
      BY <3>2, <3>3 DEF Counted
  <2>3. CASE Sleep([wpv EXCEPT !.misparse = 0])
    <3>1. smp'.pc = "sleep" /\ wpv'.misparse = 0
      BY <1>1, <1>6, <2>3 DEF Wpvs
    <3>2. QED
      BY <3>1, Constants DEF Counted
  <2>4. QED
    BY <1>23, <2>2, <2>3 DEF Heal
<1>24. QED
  BY <1>7, <1>8, <1>9, <1>11, <1>12, <1>13, <1>14, <1>15, <1>16, <1>19, <1>20, <1>21, <1>22,
     <1>23 DEF Next, Handlers, Sampler
-----------------------------------------------------------------------------
(* Whole records.                                                          *)

LEMMA CellProperties ==
  ASSUME NEW q \in Seq(Cells), NEW i \in 1 .. Len(q)
  PROVE  q[i][2] \in 1 .. RecordWords /\ q[i] = <<q[i][1], q[i][2]>>
<1>1. q[i] \in Cells
  OBVIOUS
<1>2. QED
  BY <1>1 DEF Cells

LEMMA UnbrokenSuffix ==
  ASSUME NEW q \in Seq(Cells), NEW s \in Seq(Cells), NEW k \in Nat, Len(q) = Len(s) + k,
         \A i \in 1 .. Len(s) : s[i] = q[i + k], Unbroken(q)
  PROVE  Unbroken(s)
<1> SUFFICES ASSUME NEW i \in 1 .. Len(s), NEW j \in 1 .. Len(s), i <= j, j - i < s[j][2]
             PROVE  s[i] = <<s[j][1], s[j][2] - (j - i)>>
  BY DEF Unbroken
<1>1. i + k \in 1 .. Len(q) /\ j + k \in 1 .. Len(q) /\ i + k <= j + k /\ (j + k) - (i + k) = j - i
  OBVIOUS
<1>2. s[i] = q[i + k] /\ s[j] = q[j + k]
  OBVIOUS
<1>3. QED
  BY <1>1, <1>2 DEF Unbroken

LEMMA UnbrokenLonger ==
  ASSUME NEW q \in Seq(Cells), NEW s \in Seq(Cells), NEW num, Len(s) = Len(q) + RecordWords,
         \A i \in 1 .. Len(q) : s[i] = q[i],
         \A i \in 1 .. RecordWords : s[Len(q) + i] = <<num, i>>, Unbroken(q)
  PROVE  Unbroken(s)
<1> SUFFICES ASSUME NEW i \in 1 .. Len(s), NEW j \in 1 .. Len(s), i <= j, j - i < s[j][2]
             PROVE  s[i] = <<s[j][1], s[j][2] - (j - i)>>
  BY DEF Unbroken
<1>1. CASE j <= Len(q)
  BY <1>1 DEF Unbroken
<1>2. CASE j > Len(q)
  <2>1. PICK e \in 1 .. RecordWords : j = Len(q) + e
    <3>1. j - Len(q) \in 1 .. RecordWords /\ j = Len(q) + (j - Len(q))
      BY <1>2, Constants
    <3>2. QED
      BY <3>1
  <2>2. s[j] = <<num, e>>
    BY <2>1
  <2>3. e - (j - i) \in 1 .. RecordWords /\ i = Len(q) + (e - (j - i))
    BY <2>1, <2>2, Constants
  <2>4. s[i] = <<num, e - (j - i)>>
    BY <2>3
  <2>5. QED
    BY <2>2, <2>4
<1>3. QED
  BY <1>1, <1>2

LEMMA UnbrokenLeft ==
  ASSUME NEW late \in 0 .. RecordWords - 1, NEW s \in Seq(Cells), Len(s) = late, NEW num,
         \A i \in 1 .. late : s[i] = <<num, RecordWords - late + i>>
  PROVE  Unbroken(s)
<1> SUFFICES ASSUME NEW i \in 1 .. Len(s), NEW j \in 1 .. Len(s), i <= j
             PROVE  s[i] = <<s[j][1], s[j][2] - (j - i)>>
  BY DEF Unbroken
<1>1. s[i] = <<num, RecordWords - late + i>> /\ s[j] = <<num, RecordWords - late + j>>
  OBVIOUS
<1>2. s[j][1] = num /\ s[j][2] = RecordWords - late + j
  BY <1>1
<1>3. RecordWords - late + j - (j - i) = RecordWords - late + i
  BY Constants
<1>4. QED
  BY <1>1, <1>2, <1>3, Constants

\* A packet of the right length that ends as a record does is that record.
LEMMA ParsedWhole ==
  ASSUME NEW q \in Seq(Cells), Unbroken(q), NEW pkt \in Seq(Cells), Len(pkt) = RecordWords,
         RecordWords <= Len(q), \A i \in 1 .. RecordWords : pkt[i] = q[i], NEW gen
  PROVE  Parsed(pkt, gen).valid => Parsed(pkt, gen).whole
<1> SUFFICES ASSUME pkt[RecordWords][2] = RecordWords
             PROVE  \A i \in 1 .. RecordWords : pkt[i] = <<pkt[1][1], i>>
  BY DEF Parsed
<1>1. ASSUME NEW i \in 1 .. RecordWords PROVE pkt[i] = <<pkt[RecordWords][1], i>>
  <2>1. /\ i \in 1 .. Len(q) /\ RecordWords \in 1 .. Len(q) /\ i <= RecordWords
        /\ RecordWords - i < RecordWords /\ RecordWords - (RecordWords - i) = i
        /\ RecordWords \in 1 .. RecordWords
    BY Constants
  <2>2. q[i] = <<q[RecordWords][1], RecordWords - (RecordWords - i)>>
    BY <2>1 DEF Unbroken
  <2>3. QED
    BY <2>1, <2>2
<1>2. pkt[1] = <<pkt[RecordWords][1], 1>>
  BY <1>1, Constants
<1>3. QED
  BY <1>1, <1>2

LEMMA WholeAppend ==
  ASSUME NEW seq \in Seq(Entries), NEW e \in Entries, Whole(seq), e.valid => e.whole
  PROVE  Whole(Append(seq, e))
BY DEF Whole

LEMMA WholePushed ==
  ASSUME NEW ring \in Seq(Entries), NEW recs \in Seq(Entries), Whole(ring), Whole(recs)
  PROVE  Whole(Pushed(ring, recs))
<1>1. PICK over \in 0 .. Len(ring) + Len(recs) :
              /\ Len(Pushed(ring, recs)) = Len(ring) + Len(recs) - over
              /\ \A i \in 1 .. Len(Pushed(ring, recs)) :
                   Pushed(ring, recs)[i] = IF i + over <= Len(ring) THEN ring[i + over]
                                           ELSE recs[i + over - Len(ring)]
  BY PushedProperties
<1>2. Pushed(ring, recs) \in Seq(Entries)
  BY PushedProperties
<1>3. SUFFICES ASSUME NEW i \in 1 .. Len(Pushed(ring, recs))
               PROVE  Pushed(ring, recs)[i].valid => Pushed(ring, recs)[i].whole
  <2>1. DOMAIN Pushed(ring, recs) = 1 .. Len(Pushed(ring, recs))
    BY <1>2
  <2>2. QED
    BY <2>1 DEF Whole
<1>4. CASE i + over <= Len(ring)
  <2>1. i + over \in DOMAIN ring /\ Pushed(ring, recs)[i] = ring[i + over]
    BY <1>1, <1>4
  <2>2. QED
    BY <2>1 DEF Whole
<1>5. CASE i + over > Len(ring)
  <2>1. i + over - Len(ring) \in DOMAIN recs /\ Pushed(ring, recs)[i] = recs[i + over - Len(ring)]
    BY <1>1, <1>5
  <2>2. QED
    BY <2>1 DEF Whole
<1>6. QED
  BY <1>4, <1>5
LEMMA OneAcross ==
  ASSUME NEW S, NEW p \in Seq(S), NEW s \in Seq(S), s # <<>>
  PROVE  /\ Len(p \o s) = Len(Tail(s)) + (Len(p) + 1)
         /\ \A i \in 1 .. Len(Tail(s)) : Tail(s)[i] = (p \o s)[i + (Len(p) + 1)]
         /\ \A i \in 1 .. Len(p) + 1 : Append(p, Head(s))[i] = (p \o s)[i]
         /\ Append(p, Head(s)) \o Tail(s) = p \o s
<1>1. /\ Len(p \o s) = Len(p) + Len(s)
      /\ \A i \in 1 .. Len(p \o s) : (p \o s)[i] = IF i <= Len(p) THEN p[i] ELSE s[i - Len(p)]
  BY Concatenation
<1>2. /\ Len(Tail(s)) = Len(s) - 1 /\ Len(s) \in Nat /\ Len(p) \in Nat /\ Len(s) > 0
      /\ \A i \in 1 .. Len(Tail(s)) : Tail(s)[i] = s[i + 1]
  OBVIOUS
<1>3. /\ \A i \in 1 .. Len(p) : Append(p, Head(s))[i] = p[i]
      /\ Append(p, Head(s))[Len(p) + 1] = s[1]
  OBVIOUS
<1>4. Len(p \o s) = Len(Tail(s)) + (Len(p) + 1)
  BY <1>1, <1>2
<1>5. ASSUME NEW i \in 1 .. Len(Tail(s)) PROVE Tail(s)[i] = (p \o s)[i + (Len(p) + 1)]
  BY <1>1, <1>2
<1>6. ASSUME NEW i \in 1 .. Len(p) + 1 PROVE Append(p, Head(s))[i] = (p \o s)[i]
  BY <1>1, <1>2, <1>3
<1>7. Append(p, Head(s)) \o Tail(s) = p \o s
  OBVIOUS
<1>8. QED
  BY <1>4, <1>5, <1>6, <1>7

LEMMA UnbrokenArrival ==
  ASSUME NEW p \in Seq(Cells), NEW s \in Seq(Cells), Unbroken(p \o s), NEW num,
         NEW rec \in Seq(Cells), Len(rec) = RecordWords,
         \A i \in 1 .. RecordWords : rec[i] = <<num, i>>
  PROVE  Unbroken(p \o (s \o rec))
<1> DEFINE before == p \o s
           after == p \o (s \o rec)
<1>1. before \in Seq(Cells) /\ after \in Seq(Cells) /\ Len(after) = Len(before) + Len(rec)
  BY ONLY p \in Seq(Cells), s \in Seq(Cells), rec \in Seq(Cells) DEF before, after
<1>2. \A i \in 1 .. Len(before) : after[i] = before[i]
  OBVIOUS
<1>3. \A i \in 1 .. Len(rec) : after[Len(before) + i] = rec[i]
  OBVIOUS
<1> HIDE DEF after
<1>4. Unbroken(before)
  OBVIOUS
<1> HIDE DEF before
<1>5. /\ Len(after) = Len(before) + RecordWords
      /\ \A i \in 1 .. RecordWords : after[Len(before) + i] = <<num, i>>
  BY <1>1, <1>3
<1>6. Unbroken(after)
  BY <1>1, <1>2, <1>4, <1>5, UnbrokenLonger
<1>7. QED
  BY <1>6 DEF after

LEMMA RecordsStep ==
  ASSUME Types, Tick, Room, Records, [Next]_vars
  PROVE  Records'
<1>1. /\ smp \in Smps /\ wpv \in Wpvs /\ words \in Seq(Cells) /\ next \in 0 .. Numbers - 1
      /\ smp.pkt \in Seq(Cells) /\ smp.recs \in Seq(Entries) /\ wpv.ring \in Seq(Entries)
  BY DEF Types, Smps, Wpvs
<1>2. Types'
  BY StepTypes
<1>3. /\ words' \in Seq(Cells) /\ smp'.pkt \in Seq(Cells) /\ smp'.recs \in Seq(Entries)
      /\ wpv'.ring \in Seq(Entries)
  BY <1>2 DEF Types, Smps, Wpvs
<1> DEFINE q == smp.pkt \o words
<1>4. /\ q \in Seq(Cells) /\ Len(q) = Len(smp.pkt) + Len(words)
      /\ \A i \in 1 .. Len(q) : q[i] = IF i <= Len(smp.pkt) THEN smp.pkt[i]
                                       ELSE words[i - Len(smp.pkt)]
  BY <1>1, Concatenation
<1>5. Unbroken(q) /\ Whole(smp.recs) /\ Whole(wpv.ring)
  BY DEF Records
<1>6. Whole(<<>>)
  BY DEF Whole
<1>7. Unbroken(words)
  <2>1. Len(smp.pkt) \in Nat /\ Len(words) \in Nat
    BY <1>1
  <2>2. /\ Len(q) = Len(words) + Len(smp.pkt)
        /\ \A i \in 1 .. Len(words) : words[i] = q[i + Len(smp.pkt)]
    BY <1>1, <2>1
  <2> HIDE DEF q
  <2>3. QED
    BY <1>1, <1>4, <1>5, <2>1, <2>2, UnbrokenSuffix
<1> HIDE DEF q
<1>8. ASSUME smp'.pkt = <<>> PROVE smp'.pkt \o words' = words'
  BY <1>3, <1>8
<1>9. ASSUME UNCHANGED words, smp'.pkt \in {<<>>, smp.pkt} PROVE Unbroken(smp'.pkt \o words')
  BY <1>5, <1>7, <1>8, <1>9 DEF q
<1>10. ASSUME NEW wpw, Sleep(wpw)
       PROVE  smp'.pkt = <<>> /\ smp'.recs = <<>> /\ wpv' = wpw
  BY <1>1, <1>10 DEF Sleep, Asleep
<1>11. ASSUME NEW late \in 0 .. RecordWords - 1, ResetRx(late) PROVE Unbroken(words')
  BY <1>1, <1>3, <1>11, ResetLeaves, UnbrokenLeft
<1>12. CASE Produce
  <2>1. UNCHANGED <<smp, wpv>>
    BY <1>12 DEF Produce
  <2>2. CASE UNCHANGED words
    BY <1>5, <1>9, <2>1, <2>2 DEF Records
  <2>3. CASE words' = words \o Arriving
    <3>1. Unbroken(smp.pkt \o (words \o Arriving))
      <4>1. /\ Arriving \in Seq(Cells) /\ Len(Arriving) = RecordWords
            /\ \A i \in 1 .. RecordWords : Arriving[i] = <<next, i>>
        BY <1>1, RecordArrives
      <4>2. QED
        BY <1>1, <1>5, <4>1, UnbrokenArrival DEF q
    <3>2. QED
      BY <1>5, <2>1, <2>3, <3>1 DEF Records
  <2>4. QED
    BY <1>12, <2>2, <2>3 DEF Produce, Arriving
<1>13. CASE TickDrain
  <2>1. UNCHANGED words
    BY <1>13 DEF TickDrain, fifo
  <2>2. CASE Sleep([wpv EXCEPT !.ring = Pushed(@, <<DemoRecord>>)])
    <3>1. DemoRecord \in Entries /\ <<DemoRecord>> \in Seq(Entries) /\ Whole(<<DemoRecord>>)
      BY Constants DEF DemoRecord, Entries, Whole
    <3>2. Whole(Pushed(wpv.ring, <<DemoRecord>>))
      BY <1>1, <1>5, <3>1, WholePushed
    <3>3. wpv'.ring = Pushed(wpv.ring, <<DemoRecord>>)
      BY <1>1, <1>10, <2>2 DEF Wpvs
    <3>4. QED
      BY <1>6, <1>9, <1>10, <2>1, <2>2, <3>2, <3>3 DEF Records
  <2>3. CASE Fail
    BY <1>5, <1>6, <1>9, <1>10, <2>1, <2>3 DEF Records, Fail
  <2>4. CASE smp' = [smp EXCEPT !.pc = "magic"] /\ UNCHANGED wpv
    <3>1. smp'.pkt = smp.pkt /\ smp'.recs = smp.recs
      BY <1>1, <2>4 DEF Smps
    <3>2. QED
      BY <1>5, <1>9, <2>1, <2>4, <3>1 DEF Records
  <2>5. QED
    BY <1>13, <2>2, <2>3, <2>4 DEF TickDrain, Wake
<1>14. CASE TickWord
  <2>1. smp.pc = "word"
    BY <1>14 DEF TickWord
  <2>2. CASE Fail /\ UNCHANGED words
    BY <1>5, <1>6, <1>9, <1>10, <2>2 DEF Records, Fail
  <2>3. CASE ReadsWord
    <3>1. /\ words # <<>> /\ words' = Tail(words) /\ UNCHANGED wpv
          /\ Packet \in Seq(Cells) /\ Len(Packet) = Len(smp.pkt) + 1
      BY <2>1, <2>3, WordRead DEF ReadsWord
    <3>2. /\ Packet \o words' = q /\ Len(q) = Len(words') + (Len(smp.pkt) + 1)
          /\ \A i \in 1 .. Len(words') : words'[i] = q[i + (Len(smp.pkt) + 1)]
          /\ \A i \in 1 .. Len(smp.pkt) + 1 : Packet[i] = q[i]
      <4>1. smp.pkt \in Seq(Cells) /\ words \in Seq(Cells) /\ words # <<>>
        BY <1>1, <3>1 DEF Smps
      <4>2. /\ Packet \o Tail(words) = q /\ Len(q) = Len(Tail(words)) + (Len(smp.pkt) + 1)
            /\ \A i \in 1 .. Len(Tail(words)) : Tail(words)[i] = q[i + (Len(smp.pkt) + 1)]
            /\ \A i \in 1 .. Len(smp.pkt) + 1 : Packet[i] = q[i]
        BY ONLY <4>1, OneAcross, Zenon DEF q, Packet
      <4>3. QED
        BY <3>1, <4>2, Zenon
    <3>3. CASE smp' = [smp EXCEPT !.pkt = Packet]
      <4>1. smp'.pkt = Packet /\ smp'.recs = smp.recs
        BY <1>1, <3>3 DEF Smps
      <4>2. QED
        BY <1>5, <3>1, <3>2, <4>1 DEF Records
    <3>4. CASE smp' = [smp EXCEPT !.pc = "occ", !.n = smp.n + 1, !.pkt = <<>>, !.left = 0,
                         !.recs = Batch]
      <4>1. smp'.pkt = <<>> /\ smp'.recs = Batch
        BY <1>1, <3>4 DEF Smps
      <4>2. Unbroken(words')
        <5>1. Len(smp.pkt) + 1 \in Nat
          BY <1>1
        <5>2. QED
          BY <1>3, <1>4, <1>5, <3>2, <5>1, UnbrokenSuffix
      <4>3. CASE Len(Packet) = RecordWords /\ Batch = Append(smp.recs, Parsed(Packet, smp.bus.gen))
        <5>1. RecordWords <= Len(q) /\ \A i \in 1 .. RecordWords : Packet[i] = q[i]
          <6>1. Len(words') \in Nat /\ Len(smp.pkt) \in Nat
            BY <1>1, <1>3
          <6>2. RecordWords = Len(smp.pkt) + 1
            BY <3>1, <4>3
          <6>3. RecordWords <= Len(q)
            BY <3>2, <6>1, <6>2
          <6>4. \A i \in 1 .. RecordWords : Packet[i] = q[i]
            BY <3>2, <6>2, Zenon
          <6>5. QED
            BY <6>3, <6>4
        <5>2. Parsed(Packet, smp.bus.gen).valid => Parsed(Packet, smp.bus.gen).whole
          BY <1>4, <1>5, <3>1, <4>3, <5>1, ParsedWhole
        <5>3. smp.bus.gen \in 0 .. MaxBuses
          BY <1>1 DEF Smps, BusObjects
        <5>4. Whole(Batch)
          BY <1>1, <1>5, <3>1, <4>3, <5>2, <5>3, ParsedProperties, WholeAppend
        <5>5. QED
          BY <1>5, <1>8, <3>1, <4>1, <4>2, <5>4 DEF Records
      <4>4. CASE Batch = smp.recs
        BY <1>5, <1>8, <3>1, <4>1, <4>2, <4>4 DEF Records
      <4>5. QED
        BY <2>1, <4>3, <4>4, WordRead
    <3>5. QED
      BY <2>3, <3>3, <3>4 DEF ReadsWord
  <2>4. QED
    BY <1>1, <1>14, <2>2, <2>3, WordSteps
<1>15. CASE TickPush
  <2>1. UNCHANGED words /\ wpv' = Filled
    BY <1>10, <1>15, PushSteps DEF TickPush, fifo
  <2>2. Filled.ring = Pushed(wpv.ring, smp.recs)
    BY <1>1 DEF Filled, Wpvs
  <2>3. Whole(wpv'.ring)
    BY <1>1, <1>5, <2>1, <2>2, WholePushed
  <2>4. smp'.recs = <<>> /\ smp'.pkt \in {<<>>, smp.pkt}
    BY <1>1, <1>10, <1>15, PushSteps DEF Wake, Smps
  <2>5. QED
    BY <1>6, <1>9, <2>1, <2>3, <2>4 DEF Records
<1>16. ASSUME smp'.pkt \in {<<>>, smp.pkt}, smp'.recs \in {<<>>, smp.recs},
              wpv'.ring \in {<<>>, wpv.ring}, UNCHANGED words
       PROVE  Records'
  BY <1>5, <1>6, <1>9, <1>16 DEF Records
<1>17. CASE TickBind \/ \E late \in 0 .. RecordWords - 1 : Heal(late)
  <2>1. smp'.pkt \in {<<>>, smp.pkt} /\ smp'.recs \in {<<>>, smp.recs} /\ wpv'.ring = wpv.ring
    <3>1. CASE TickBind
      <4>1. smp'.pkt \in {<<>>, smp.pkt} /\ smp'.recs \in {<<>>, smp.recs}
        BY <1>1, <1>10, <3>1 DEF TickBind, Fail, Wake, Smps
      <4>2. wpv'.ring = wpv.ring
        BY <1>1, <1>10, <3>1 DEF TickBind, Fail, Wpvs
      <4>3. QED
        BY <4>1, <4>2
    <3>2. ASSUME NEW late \in 0 .. RecordWords - 1, Heal(late)
          PROVE  smp'.pkt = <<>> /\ smp'.recs = <<>> /\ wpv'.ring = wpv.ring
      BY <1>1, <1>10, <3>2 DEF Heal, Fail, Wpvs
    <3>3. QED
      BY <1>17, <3>1, <3>2
  <2>2. CASE UNCHANGED words
    BY <1>16, <2>1, <2>2
  <2>3. ASSUME NEW late \in 0 .. RecordWords - 1, ResetRx(late) PROVE Records'
    <3>1. smp.pkt = <<>>
      BY <1>17 DEF Tick, TickBind, Heal
    <3>2. QED
      BY <1>5, <1>6, <1>8, <1>11, <2>1, <2>3, <3>1 DEF Records
  <2>4. QED
    BY <1>17, <2>2, <2>3 DEF TickBind, Heal, fifo
<1>18. CASE TickScenario \/ TickFit \/ TickBus \/ TickEmpty \/ TickSource
  <2>1. smp'.pkt = smp.pkt /\ smp'.recs = smp.recs /\ UNCHANGED words
    BY <1>1, <1>18 DEF TickScenario, TickFit, TickBus, TickEmpty, TickSource, Wake, Smps, fifo
  <2>2. wpv'.ring \in {<<>>, wpv.ring}
    BY <1>1, <1>18 DEF TickScenario, TickFit, TickBus, TickEmpty, TickSource, Wpvs, Fresh
  <2>3. QED
    BY <1>16, <2>1, <2>2
<1>19. CASE TickMagic \/ TickMagicOk \/ TickMagicBus
  <2>1. smp'.pkt \in {<<>>, smp.pkt} /\ smp'.recs \in {<<>>, smp.recs} /\ UNCHANGED words
    BY <1>1, <1>10, <1>19 DEF TickMagic, TickMagicOk, TickMagicBus, Fail, Wake, Smps, fifo
  <2>2. wpv'.ring = wpv.ring
    BY <1>1, <1>10, <1>19 DEF TickMagic, TickMagicOk, TickMagicBus, Fail, Wpvs
  <2>3. QED
    BY <1>16, <2>1, <2>2
<1>20. CASE TickOccupancy \/ TickLength
  <2>1. smp'.pkt \in {<<>>, smp.pkt} /\ smp'.recs \in {<<>>, smp.recs} /\ UNCHANGED words
    BY <1>1, <1>10, <1>20 DEF TickOccupancy, TickLength, Fail, Wake, Smps, fifo
  <2>2. wpv'.ring = wpv.ring
    BY <1>1, <1>10, <1>20 DEF TickOccupancy, TickLength, Fail, Wpvs
  <2>3. QED
    BY <1>16, <2>1, <2>2
<1>21. CASE ApiRead \/ Handlers \/ UNCHANGED vars
  <2>1. UNCHANGED <<words, smp>>
    BY <1>21, NamesAssumption DEF NamesAssumption, ApiRead, Handlers, SelectScenario,
       SelectClose, SelectMap, Mode, StatusBegin, StatusMagicOk, StatusMagicBus, vars, fifo
  <2>2. wpv'.ring \in {<<>>, wpv.ring}
    BY <1>1, <1>21 DEF ApiRead, Handlers, SelectScenario, SelectClose, SelectMap, Mode,
       StatusBegin, StatusMagicOk, StatusMagicBus, vars, Fresh, Wpvs
  <2>3. QED
    BY <1>16, <2>1, <2>2
<1>22. CASE Restart
  BY <1>16, <1>22 DEF Restart, Fresh, Asleep, fifo
<1>23. QED
  BY <1>12, <1>13, <1>14, <1>15, <1>17, <1>18, <1>19, <1>20, <1>21, <1>22 DEF Next, Sampler
-----------------------------------------------------------------------------
(* One source.                                                             *)

LEMMA OfPushed ==
  ASSUME NEW ring \in Seq(Entries), NEW recs \in Seq(Entries), NEW gen,
         Of(ring, gen), Of(recs, gen)
  PROVE  Of(Pushed(ring, recs), gen)
<1>1. PICK over \in 0 .. Len(ring) + Len(recs) :
              /\ Len(Pushed(ring, recs)) = Len(ring) + Len(recs) - over
              /\ \A i \in 1 .. Len(Pushed(ring, recs)) :
                   Pushed(ring, recs)[i] = IF i + over <= Len(ring) THEN ring[i + over]
                                           ELSE recs[i + over - Len(ring)]
  BY PushedProperties
<1>2. DOMAIN Pushed(ring, recs) = 1 .. Len(Pushed(ring, recs))
  BY PushedProperties
<1>3. SUFFICES ASSUME NEW i \in 1 .. Len(Pushed(ring, recs))
               PROVE  Pushed(ring, recs)[i].from = gen
  BY <1>2 DEF Of
<1>4. CASE i + over <= Len(ring)
  <2>1. i + over \in DOMAIN ring /\ Pushed(ring, recs)[i] = ring[i + over]
    BY <1>1, <1>4
  <2>2. QED
    BY <2>1 DEF Of
<1>5. CASE i + over > Len(ring)
  <2>1. i + over - Len(ring) \in DOMAIN recs /\ Pushed(ring, recs)[i] = recs[i + over - Len(ring)]
    BY <1>1, <1>5
  <2>2. QED
    BY <2>1 DEF Of
<1>6. QED
  BY <1>4, <1>5

\* A source is told by the id() of its bus, and that is enough.
LEMMA SourceTells ==
  ASSUME Types, Identity, NEW a \in Known, NEW b \in Known
  PROVE  Source(a) # None /\ (Source(a) = Source(b) => a.gen = b.gen)
<1>1. "demo" \notin Ids /\ None \notin Ids
  BY NamesAssumption DEF NamesAssumption
<1>2. (a.gen # 0 => a.id \in Ids) /\ (b.gen # 0 => b.id \in Ids)
  BY DEF Identity
<1>3. a.gen # 0 /\ b.gen # 0 /\ a.id = b.id => a = b
  BY DEF Identity
<1>4. Source(a) # None
  BY <1>1, <1>2 DEF Source, None
<1>5. QED
  BY <1>1, <1>2, <1>3, <1>4 DEF Source

LEMMA SourcesStep ==
  ASSUME Types, Tick, Room, Identity, Sources, [Next]_vars
  PROVE  Sources'
<1>1. /\ smp \in Smps /\ wpv \in Wpvs /\ smp.recs \in Seq(Entries) /\ wpv.ring \in Seq(Entries)
      /\ smp.bus.gen \in 0 .. MaxBuses
  BY DEF Types, Smps, Wpvs, BusObjects
<1>2. \A gen : Of(<<>>, gen)
  BY DEF Of
<1>3. smp.bus \in Known /\ current \in Known
  BY DEF Known
<1>4. Of(smp.recs, smp.bus.gen) /\ \E gen \in 0 .. MaxBuses : Of(wpv.ring, gen)
  BY DEF Sources
<1>5. ASSUME NEW wpw, Sleep(wpw)
      PROVE  smp'.bus = smp.bus /\ smp'.pc = "sleep" /\ smp'.recs = <<>> /\ wpv' = wpw
  BY <1>1, <1>5 DEF Sleep, Asleep
\* The ring is as it was or empty.
<1>6. ASSUME smp'.bus = smp.bus, smp'.recs \in {<<>>, smp.recs}, wpv'.ring \in {<<>>, wpv.ring},
             wpv'.src \in {None, wpv.src}, smp'.pc # "empty" => smp.pc # "empty",
             smp'.pc = "source" => smp.pc = "source"
      PROVE  Sources'
  <2>1. Of(smp'.recs, smp'.bus.gen) /\ \E gen \in 0 .. MaxBuses : Of(wpv'.ring, gen)
    BY <1>1, <1>2, <1>4, <1>6
  <2>2. smp'.pc # "empty" => wpv'.src \in {None, Source(smp'.bus)} /\ Of(wpv'.ring, smp'.bus.gen)
    BY <1>2, <1>6 DEF Sources
  <2>3. smp'.pc = "source" => wpv'.src = None /\ wpv'.ring = <<>>
    BY <1>6 DEF Sources
  <2>4. QED
    BY <2>1, <2>2, <2>3 DEF Sources, Source
\* Records of this bus are added.
<1>7. ASSUME smp.pc # "empty", smp'.bus = smp.bus, smp'.recs = <<>> \/ Of(smp'.recs, smp.bus.gen),
             Of(wpv'.ring, smp.bus.gen), wpv'.src = wpv.src, smp'.pc # "source"
      PROVE  Sources'
  <2>1. Of(smp'.recs, smp'.bus.gen) /\ \E gen \in 0 .. MaxBuses : Of(wpv'.ring, gen)
    BY <1>1, <1>2, <1>7
  <2>2. wpv'.src \in {None, Source(smp'.bus)} /\ Of(wpv'.ring, smp'.bus.gen)
    BY <1>7 DEF Sources
  <2>3. QED
    BY <1>7, <2>1, <2>2 DEF Sources, Source
<1>8. ASSUME smp.pc # "empty" PROVE Of(wpv.ring, smp.bus.gen)
  BY <1>8 DEF Sources
<1>9. CASE Produce \/ ApiRead \/ Handlers \/ UNCHANGED vars
  <2>1. UNCHANGED smp
    BY <1>9 DEF Produce, ApiRead, Handlers, SelectScenario, SelectClose, SelectMap, Mode,
       StatusBegin, StatusMagicOk, StatusMagicBus, vars
  <2>2. wpv'.ring \in {<<>>, wpv.ring} /\ wpv'.src \in {None, wpv.src}
    BY <1>1, <1>9 DEF Produce, ApiRead, Handlers, SelectScenario, SelectClose, SelectMap, Mode,
       StatusBegin, StatusMagicOk, StatusMagicBus, vars, Fresh, Wpvs
  <2>3. QED
    BY <1>6, <2>1, <2>2
<1>10. CASE TickScenario \/ TickFit
  <2>1. smp'.bus = smp.bus /\ smp'.recs = smp.recs /\ smp.pc # "empty" /\ smp'.pc # "source"
    BY <1>1, <1>10 DEF TickScenario, TickFit, Wake, Smps
  <2>2. wpv'.ring \in {<<>>, wpv.ring} /\ wpv'.src \in {None, wpv.src}
    BY <1>1, <1>10 DEF TickScenario, TickFit, Fresh, Wpvs
  <2>3. QED
    BY <1>6, <2>1, <2>2
<1>11. CASE TickBus
  <2>1. /\ smp.pc = "bus" /\ smp.recs = <<>> /\ UNCHANGED wpv
        /\ smp' = [smp EXCEPT !.bus = current,
                      !.pc = IF wpv.src = Source(current) THEN "drain" ELSE "empty"]
    BY <1>11 DEF TickBus, Wake, Tick, Reading
  <2>2. smp'.bus = current /\ smp'.recs = <<>>
    BY <1>1, <2>1 DEF Smps
  <2>3. CASE wpv.src = Source(current)
    <3>1. smp'.pc = "drain" /\ current.gen = smp.bus.gen
      BY <1>1, <1>3, <2>1, <2>3, SourceTells DEF Sources, Smps
    <3>2. QED
      BY <1>2, <1>4, <1>8, <2>1, <2>2, <2>3, <3>1 DEF Sources, Source
  <2>4. CASE wpv.src # Source(current)
    <3>1. smp'.pc = "empty"
      BY <1>1, <2>1, <2>4 DEF Smps
    <3>2. QED
      BY <1>2, <1>4, <2>1, <2>2, <3>1 DEF Sources
  <2>5. QED
    BY <2>3, <2>4
<1>12. CASE TickEmpty
  <2>1. smp'.bus = smp.bus /\ smp'.recs = smp.recs /\ wpv'.src = None /\ wpv'.ring = <<>>
    BY <1>1, <1>12 DEF TickEmpty, Wake, Smps, Fresh
  <2>2. QED
    BY <1>1, <1>2, <1>4, <2>1 DEF Sources
<1>13. CASE TickSource
  <2>1. /\ smp'.bus = smp.bus /\ smp'.recs = smp.recs /\ smp'.pc = "drain" /\ wpv.ring = <<>>
        /\ wpv'.src = Source(smp.bus) /\ wpv'.ring = wpv.ring
    BY <1>1, <1>13 DEF TickSource, Wake, Smps, Wpvs, Sources
  <2>2. QED
    BY <1>1, <1>2, <1>4, <2>1 DEF Sources, Source
<1>14. CASE TickDrain
  <2>1. smp.pc = "drain"
    BY <1>14 DEF TickDrain
  <2>2. CASE smp.bus.gen = 0 /\ Sleep([wpv EXCEPT !.ring = Pushed(@, <<DemoRecord>>)])
    <3>1. DemoRecord \in Entries /\ <<DemoRecord>> \in Seq(Entries) /\ Of(<<DemoRecord>>, 0)
      BY Constants DEF DemoRecord, Entries, Of
    <3>2. wpv'.ring = Pushed(wpv.ring, <<DemoRecord>>) /\ wpv'.src = wpv.src
      BY <1>1, <1>5, <2>2 DEF Wpvs
    <3>3. Of(wpv'.ring, 0)
      BY <1>1, <1>8, <2>1, <2>2, <3>1, <3>2, OfPushed
    <3>4. QED
      BY <1>5, <1>7, <2>1, <2>2, <3>2, <3>3
  <2>3. CASE Fail
    BY <1>5, <1>6, <2>1, <2>3 DEF Fail
  <2>4. CASE smp' = [smp EXCEPT !.pc = "magic"] /\ UNCHANGED wpv
    <3>1. smp'.bus = smp.bus /\ smp'.recs = smp.recs /\ smp'.pc = "magic"
      BY <1>1, <2>4 DEF Smps
    <3>2. QED
      BY <1>6, <2>1, <2>4, <3>1
  <2>5. QED
    BY <1>14, <2>2, <2>3, <2>4 DEF TickDrain, Wake
<1>15. CASE TickMagic \/ TickMagicOk \/ TickMagicBus
  <2>1. smp'.bus = smp.bus /\ smp'.recs \in {<<>>, smp.recs} /\ smp.pc # "empty" /\ smp'.pc # "source"
    BY <1>1, <1>5, <1>15 DEF TickMagic, TickMagicOk, TickMagicBus, Fail, Wake, Smps
  <2>2. wpv'.ring = wpv.ring /\ wpv'.src = wpv.src
    BY <1>1, <1>5, <1>15 DEF TickMagic, TickMagicOk, TickMagicBus, Fail, Wpvs
  <2>3. QED
    BY <1>6, <2>1, <2>2
<1>16. CASE TickBind
  <2>1. smp'.bus = smp.bus /\ smp'.recs \in {<<>>, smp.recs} /\ smp.pc # "empty" /\ smp'.pc # "source"
    BY <1>1, <1>5, <1>16 DEF TickBind, Fail, Wake, Smps
  <2>2. wpv'.ring = wpv.ring /\ wpv'.src = wpv.src
    BY <1>1, <1>5, <1>16 DEF TickBind, Fail, Wpvs
  <2>3. QED
    BY <1>6, <2>1, <2>2
<1>17. CASE TickOccupancy \/ TickLength
  <2>1. smp'.bus = smp.bus /\ smp'.recs \in {<<>>, smp.recs} /\ smp.pc # "empty" /\ smp'.pc # "source"
    BY <1>1, <1>5, <1>17 DEF TickOccupancy, TickLength, Fail, Wake, Smps
  <2>2. wpv'.ring = wpv.ring /\ wpv'.src = wpv.src
    BY <1>1, <1>5, <1>17 DEF TickOccupancy, TickLength, Fail, Wpvs
  <2>3. QED
    BY <1>6, <2>1, <2>2
<1>18. CASE TickWord
  <2>1. smp.pc = "word"
    BY <1>18 DEF TickWord
  <2>2. CASE Fail
    BY <1>5, <1>6, <2>1, <2>2 DEF Fail
  <2>3. CASE ReadsWord
    <3>1. Of(Batch, smp.bus.gen)
      <4>1. CASE Batch = Append(smp.recs, Parsed(Packet, smp.bus.gen))
        <5>1. Parsed(Packet, smp.bus.gen).from = smp.bus.gen
          BY DEF Parsed
        <5>2. QED
          BY <1>1, <1>4, <4>1, <5>1 DEF Of
      <4>2. QED
        BY <1>4, <2>1, <4>1, WordRead
    <3>2. UNCHANGED wpv /\ smp'.bus = smp.bus /\ smp'.pc \in {"word", "occ"}
          /\ smp'.recs \in {smp.recs, Batch}
      BY <1>1, <2>1, <2>3 DEF ReadsWord, Smps
    <3>3. QED
      BY <1>4, <1>7, <1>8, <2>1, <3>1, <3>2
  <2>4. QED
    BY <1>1, <1>18, <2>2, <2>3, WordSteps
<1>19. CASE TickPush
  <2>1. smp.pc = "push" /\ wpv' = Filled
    BY <1>5, <1>19, PushSteps DEF TickPush
  <2>2. Filled.ring = Pushed(wpv.ring, smp.recs) /\ Filled.src = wpv.src
    BY <1>1 DEF Filled, Wpvs
  <2>3. Of(wpv'.ring, smp.bus.gen)
    BY <1>1, <1>4, <1>8, <2>1, <2>2, OfPushed
  <2>4. smp'.bus = smp.bus /\ smp'.recs = <<>> /\ smp'.pc \in {"sleep", "heal"}
    BY <1>1, <1>5, <1>19, PushSteps DEF Wake, Smps
  <2>5. QED
    BY <1>7, <2>1, <2>2, <2>3, <2>4
<1>20. ASSUME NEW late \in 0 .. RecordWords - 1, Heal(late) PROVE Sources'
  <2>1. wpv'.ring = wpv.ring /\ wpv'.src = wpv.src
    BY <1>1, <1>5, <1>20 DEF Heal, Fail, Wpvs
  <2>2. smp.pc = "heal" /\ smp'.bus = smp.bus /\ smp'.recs = <<>> /\ smp'.pc = "sleep"
    BY <1>5, <1>20 DEF Heal, Fail
  <2>3. QED
    BY <1>6, <2>1, <2>2
<1>21. CASE Restart
  BY <1>2, <1>21, Constants DEF Restart, Fresh, Asleep, Sources
<1>22. QED
  BY <1>9, <1>10, <1>11, <1>12, <1>13, <1>14, <1>15, <1>16, <1>17, <1>18, <1>19, <1>20, <1>21
  DEF Next, Sampler
-----------------------------------------------------------------------------
(* The verdict on the design.                                              *)

LEMMA VerdictStep ==
  ASSUME Types, Tick, Room, Identity, Sources, Verdict, [Next]_vars
  PROVE  Verdict'
<1> DEFINE Checked == {"bind"} \cup Reading
<1> USE DEF Reading
<1>1. smp \in Smps /\ wpv \in Wpvs /\ get \in Gets /\ crossed \in BOOLEAN
  BY DEF Types
<1>2. smp.bus \in Known /\ current \in Known
  BY DEF Known
<1>3. ASSUME NEW wpw, Sleep(wpw)
      PROVE  smp'.bus = smp.bus /\ smp'.pc = "sleep" /\ wpv' = wpw
  BY <1>1, <1>3 DEF Sleep, Asleep
<1>4. ASSUME smp'.bus = smp.bus, Open(smp.bus)' PROVE Open(smp.bus)
  BY <1>2, <1>4, ClosedForGood DEF Open
\* Nothing was noted.
<1>5. ASSUME smp'.bus = smp.bus, crossed' = crossed,
             \/ (smp.pc # "empty" /\ wpv'.magic = wpv.magic /\ wpv'.magicBus = wpv.magicBus)
             \/ wpv'.magic # "ok",
             get'.pc = "magic_bus" => get' = get,
             smp'.pc = "magic_bus" => smp.pc = "magic_bus",
             smp'.pc \in Checked => smp.pc \in Checked
      PROVE  Verdict'
  <2>1. SUFFICES ASSUME ~crossed', Open(smp.bus)'
                 PROVE  /\ wpv'.magic = "ok"
                           /\ (\/ wpv'.magicBus = smp'.bus.id \/ smp'.pc = "magic_bus"
                               \/ get'.pc = "magic_bus" /\ get'.bus = smp'.bus) => smp'.bus.good
                        /\ smp'.pc \in Checked => smp'.bus.good
    BY DEF Verdict
  <2>2. ~crossed /\ Open(smp.bus)
    BY <1>4, <1>5, <2>1
  <2>3. smp'.pc \in Checked => smp.bus.good
    BY <1>5, <2>2 DEF Verdict
  <2>4. CASE smp.pc # "empty" /\ wpv'.magic = wpv.magic /\ wpv'.magicBus = wpv.magicBus
    BY <1>5, <2>2, <2>3, <2>4 DEF Verdict
  <2>5. QED
    BY <1>5, <2>3, <2>4
<1>6. CASE Produce \/ ApiRead \/ SelectClose \/ SelectMap \/ Mode \/ UNCHANGED vars
  <2>1. UNCHANGED <<smp, wpv, crossed, get>>
    BY <1>6 DEF Produce, ApiRead, SelectClose, SelectMap, Mode, vars
  <2>2. CASE smp.pc # "empty"
    BY <1>5, <2>1, <2>2
  <2>3. CASE smp.pc = "empty"
    BY <2>1, <2>3 DEF Verdict
  <2>4. QED
    BY <2>2, <2>3
<1>7. ASSUME NEW s \in Scenarios, SelectScenario(s) PROVE Verdict'
  <2>1. UNCHANGED <<smp, crossed, get>> /\ wpv'.magic # "ok"
    BY <1>7 DEF SelectScenario, Fresh, None
  <2>2. QED
    BY <1>5, <2>1
<1>8. CASE StatusBegin
  <2>1. UNCHANGED <<smp, crossed, wpv>> /\ get'.pc = "magic_ok"
    BY <1>8 DEF StatusBegin, Idle
  <2>2. CASE smp.pc # "empty"
    BY <1>5, <2>1, <2>2
  <2>3. CASE smp.pc = "empty"
    BY <2>1, <2>3 DEF Verdict
  <2>4. QED
    BY <2>2, <2>3
\* The request notes a verdict: on the bus that is open, as long as nothing crossed.
<1>9. CASE StatusMagicOk
  <2>1. /\ UNCHANGED <<smp, hw>> /\ crossed' = (crossed \/ ~Open(get.bus))
        /\ wpv'.magic = IF get.bus.good THEN "ok" ELSE "bad"
    BY <1>1, <1>9 DEF StatusMagicOk, server, Wpvs
  <2>2. ASSUME ~crossed', Open(smp.bus) PROVE wpv'.magic = "ok" => smp.bus.good
    BY <2>1, <2>2 DEF Open
  <2>3. ASSUME ~crossed', Open(smp.bus) PROVE smp.pc \in Checked => smp.bus.good
    BY <1>1, <2>1, <2>3 DEF Verdict
  <2>4. Open(smp.bus)' = Open(smp.bus)
    BY <2>1 DEF Open
  <2>5. QED
    BY <2>1, <2>2, <2>3, <2>4 DEF Verdict
<1>10. CASE StatusMagicBus
  <2>1. /\ UNCHANGED <<smp, hw>> /\ crossed' = (crossed \/ ~Open(get.bus))
        /\ wpv'.magic = wpv.magic /\ get.pc = "magic_bus"
    BY <1>1, <1>10 DEF StatusMagicBus, server, Wpvs
  <2>2. ASSUME ~crossed', Open(smp.bus), smp.pc # "empty", wpv'.magic = "ok"
        PROVE  smp.bus.good
    <3>1. ~crossed /\ get.bus = smp.bus
      BY <1>1, <2>1, <2>2 DEF Open
    <3>2. QED
      BY <2>1, <2>2, <3>1 DEF Verdict
  <2>3. ASSUME ~crossed', Open(smp.bus) PROVE smp.pc \in Checked => smp.bus.good
    BY <1>1, <2>1, <2>3 DEF Verdict
  <2>4. Open(smp.bus)' = Open(smp.bus)
    BY <2>1 DEF Open
  <2>5. QED
    BY <2>1, <2>2, <2>3, <2>4 DEF Verdict
<1>11. ASSUME Others PROVE get' = get /\ crossed' = crossed
  BY <1>11 DEF Others
<1>12. CASE Restart
  <2>1. smp'.bus = DemoBus
    BY <1>12 DEF Restart, Asleep
  <2>2. QED
    BY <2>1 DEF Verdict, Open, DemoBus
<1>13. CASE TickScenario \/ TickFit \/ TickSource
  <2>1. smp.pc # "empty" /\ smp'.bus = smp.bus /\ smp'.pc \in {"fit", "bus", "drain"}
    BY <1>1, <1>13 DEF TickScenario, TickFit, TickSource, Wake, Smps
  <2>2. (wpv'.magic = wpv.magic /\ wpv'.magicBus = wpv.magicBus) \/ wpv'.magic # "ok"
    BY <1>1, <1>13 DEF TickScenario, TickFit, TickSource, Fresh, None, Wpvs
  <2>3. get' = get /\ crossed' = crossed
    BY <1>11, <1>13 DEF TickScenario, TickFit, TickSource
  <2>4. QED
    BY <1>5, <2>1, <2>2, <2>3
\* The source that stands is that of this very object.
<1>14. CASE TickBus
  <2>1. /\ smp.pc = "bus" /\ UNCHANGED <<wpv, get, crossed, hw>> /\ smp'.bus = current
        /\ smp'.pc = IF wpv.src = Source(current) THEN "drain" ELSE "empty"
    BY <1>1, <1>14 DEF TickBus, Wake, Others, server, Smps
  <2>2. CASE wpv.src # Source(current)
    BY <2>1, <2>2 DEF Verdict
  <2>3. CASE wpv.src = Source(current) /\ current.gen # 0
    <3>1. Source(smp.bus) = Source(current)
      BY <1>2, <2>1, <2>3, SourceTells DEF Sources
    <3>2. smp.bus = current
      BY <1>2, <2>3, <3>1, SourceTells DEF Source, Identity
    <3>3. QED
      BY <1>5, <2>1, <2>3, <3>2
  <2>4. CASE current.gen = 0
    BY <2>1, <2>4 DEF Verdict, Open
  <2>5. QED
    BY <2>2, <2>3, <2>4
<1>15. CASE TickEmpty
  <2>1. smp'.bus = smp.bus /\ smp'.pc = "source" /\ wpv'.magic # "ok"
    BY <1>1, <1>15 DEF TickEmpty, Wake, Fresh, None, Smps
  <2>2. QED
    BY <1>5, <1>11, <1>15, <2>1 DEF TickEmpty
<1>16. CASE TickDrain
  <2>1. smp.pc = "drain" /\ smp'.bus = smp.bus /\ smp'.pc \in {"sleep", "magic"}
    BY <1>1, <1>3, <1>16 DEF TickDrain, Fail, Wake, Smps
  <2>2. wpv'.magic = wpv.magic /\ wpv'.magicBus = wpv.magicBus
    BY <1>1, <1>3, <1>16 DEF TickDrain, Fail, Wpvs
  <2>3. QED
    BY <1>5, <1>11, <1>16, <2>1, <2>2 DEF TickDrain
<1>17. CASE TickMagic
  <2>1. smp.pc = "magic" /\ UNCHANGED <<wpv, get, crossed>> /\ smp'.bus = smp.bus
    BY <1>1, <1>3, <1>17 DEF TickMagic, Fail, Wake, Others, Smps
  <2>2. CASE smp'.pc \in {"sleep", "magic_ok"}
    BY <1>5, <2>1, <2>2
  <2>3. CASE smp'.pc = "bind" /\ wpv.magicBus = smp.bus.id /\ wpv.magic = "ok"
    <3>1. ASSUME ~crossed', Open(smp.bus)' PROVE smp.bus.good
      BY <1>4, <2>1, <2>3, <3>1 DEF Verdict
    <3>2. QED
      BY <2>1, <2>3, <3>1 DEF Verdict
  <2>4. QED
    BY <1>1, <1>3, <1>17, <2>2, <2>3 DEF TickMagic, Fail, Wake, Smps
<1>18. CASE TickMagicOk
  <2>1. /\ smp'.bus = smp.bus /\ smp'.pc = "magic_bus"
        /\ wpv'.magic = IF smp.bus.good THEN "ok" ELSE "bad"
    BY <1>1, <1>18 DEF TickMagicOk, Wake, Smps, Wpvs
  <2>2. QED
    BY <2>1 DEF Verdict
<1>19. CASE TickMagicBus
  <2>1. /\ smp.pc = "magic_bus" /\ UNCHANGED <<get, crossed>> /\ smp'.bus = smp.bus
        /\ wpv'.magic = wpv.magic
    BY <1>1, <1>3, <1>19 DEF TickMagicBus, Wake, Others, Smps, Wpvs
  <2>2. CASE wpv.magic = "ok"
    <3>1. ASSUME ~crossed', Open(smp.bus)' PROVE smp.bus.good
      BY <1>4, <2>1, <2>2, <3>1 DEF Verdict
    <3>2. QED
      BY <2>1, <3>1 DEF Verdict
  <2>3. CASE wpv.magic # "ok"
    <3>1. smp'.pc = "sleep"
      BY <1>3, <1>19, <2>3 DEF TickMagicBus
    <3>2. QED
      BY <1>5, <2>1, <2>3, <3>1
  <2>4. QED
    BY <2>2, <2>3
<1>20. CASE TickBind
  <2>1. smp.pc = "bind" /\ smp'.bus = smp.bus /\ smp'.pc # "magic_bus"
    BY <1>1, <1>3, <1>20 DEF TickBind, Fail, Wake, Smps
  <2>2. wpv'.magic = wpv.magic /\ wpv'.magicBus = wpv.magicBus
    BY <1>1, <1>3, <1>20 DEF TickBind, Fail, Wpvs
  <2>3. QED
    BY <1>5, <1>11, <1>20, <2>1, <2>2 DEF TickBind
<1>21. CASE TickOccupancy \/ TickLength \/ TickWord \/ TickPush
  <2>1. smp.pc \in Reading /\ smp'.bus = smp.bus /\ smp'.pc # "magic_bus"
    <3>1. CASE TickOccupancy \/ TickLength
      BY <1>1, <1>3, <3>1 DEF TickOccupancy, TickLength, Fail, Wake, Smps
    <3>2. CASE TickWord
      <4>1. smp.pc = "word"
        BY <3>2 DEF TickWord
      <4>2. QED
        BY <1>1, <1>3, <3>2, <4>1, WordSteps DEF ReadsWord, Fail, Smps
    <3>3. CASE TickPush
      <4>1. smp.pc = "push"
        BY <3>3 DEF TickPush
      <4>2. QED
        BY <1>1, <1>3, <3>3, <4>1, PushSteps DEF Wake, Smps
    <3>4. QED
      BY <1>21, <3>1, <3>2, <3>3
  <2>2. wpv'.magic = wpv.magic /\ wpv'.magicBus = wpv.magicBus
    <3>1. CASE TickOccupancy \/ TickLength
      BY <1>1, <1>3, <3>1 DEF TickOccupancy, TickLength, Fail, Wpvs
    <3>2. CASE TickWord
      BY <1>1, <1>3, <3>2, WordSteps DEF ReadsWord, Fail
    <3>3. CASE TickPush
      <4>1. wpv' = Filled
        BY <1>3, <3>3, PushSteps
      <4>2. QED
        BY <1>1, <4>1 DEF Filled, Wpvs
    <3>4. QED
      BY <1>21, <3>1, <3>2, <3>3
  <2>3. get' = get /\ crossed' = crossed
    BY <1>11, <1>21 DEF TickOccupancy, TickLength, TickWord, TickPush
  <2>4. QED
    BY <1>5, <2>1, <2>2, <2>3
<1>22. ASSUME NEW late \in 0 .. RecordWords - 1, Heal(late) PROVE Verdict'
  <2>1. smp.pc = "heal" /\ smp'.bus = smp.bus /\ smp'.pc = "sleep"
    BY <1>3, <1>22 DEF Heal, Fail
  <2>2. wpv'.magic = wpv.magic /\ wpv'.magicBus = wpv.magicBus
    BY <1>1, <1>3, <1>22 DEF Heal, Fail, Wpvs
  <2>3. QED
    BY <1>5, <1>11, <1>22, <2>1, <2>2 DEF Heal
<1>23. QED
  BY <1>6, <1>7, <1>8, <1>9, <1>10, <1>12, <1>13, <1>14, <1>15, <1>16, <1>17, <1>18, <1>19,
     <1>20, <1>21, <1>22 DEF Next, Sampler, Handlers, Scenarios
-----------------------------------------------------------------------------
(* The invalid records that count.                                         *)

\* The last n entries are invalid ones.
Tailing(seq, n) == \A i \in DOMAIN seq : i > Len(seq) - n => ~seq[i].valid

\* Invalid records behind the n that count make more of them.
LEMMA TailingPushed ==
  ASSUME NEW ring \in Seq(Entries), NEW recs \in Seq(Entries), NEW n \in Nat,
         Tailing(ring, n), ~AnyValid(recs)
  PROVE  Tailing(Pushed(ring, recs), n + Len(recs))
<1>1. PICK over \in 0 .. Len(ring) + Len(recs) :
              /\ Len(Pushed(ring, recs)) = Len(ring) + Len(recs) - over
              /\ \A i \in 1 .. Len(Pushed(ring, recs)) :
                   Pushed(ring, recs)[i] = IF i + over <= Len(ring) THEN ring[i + over]
                                           ELSE recs[i + over - Len(ring)]
  BY PushedProperties
<1>2. DOMAIN Pushed(ring, recs) = 1 .. Len(Pushed(ring, recs))
  BY PushedProperties
<1>3. SUFFICES ASSUME NEW i \in 1 .. Len(Pushed(ring, recs)),
                      i > Len(Pushed(ring, recs)) - (n + Len(recs))
               PROVE  ~Pushed(ring, recs)[i].valid
  BY <1>2 DEF Tailing
<1>4. Len(ring) \in Nat /\ Len(recs) \in Nat /\ i \in Nat /\ i > 0 /\ over \in Nat
  OBVIOUS
<1>5. CASE i + over <= Len(ring)
  <2>1. i + over \in DOMAIN ring /\ Pushed(ring, recs)[i] = ring[i + over]
    BY <1>1, <1>4, <1>5
  <2>2. i + over > Len(ring) - n
    BY <1>1, <1>3, <1>4
  <2>3. QED
    BY <2>1, <2>2 DEF Tailing
<1>6. CASE i + over > Len(ring)
  <2>1. i + over - Len(ring) \in DOMAIN recs /\ Pushed(ring, recs)[i] = recs[i + over - Len(ring)]
    BY <1>1, <1>4, <1>6
  <2>2. QED
    BY <2>1 DEF AnyValid
<1>7. QED
  BY <1>4, <1>5, <1>6

LEMMA TailedStep ==
  ASSUME Types, Tick, Room, Identity, Sources, Tailed, [Next]_vars
  PROVE  Tailed'
<1>1. /\ smp \in Smps /\ wpv \in Wpvs /\ wpv.misparse \in Nat /\ wpv.ring \in Seq(Entries)
      /\ smp.recs \in Seq(Entries) /\ smp.bus.gen \in 0 .. MaxBuses
  BY DEF Types, Wpvs, Smps, BusObjects
<1>2. Tailing(wpv.ring, wpv.misparse)
  BY DEF Tailed, Tailing
<1>3. ASSUME Tailing(wpv'.ring, wpv'.misparse), wpv'.src = "demo" \/ smp'.pc = "source"
                                                 => wpv'.misparse = 0,
             smp'.pc = "drain" /\ smp'.bus.gen = 0 => wpv'.misparse = 0,
             smp'.pc = "heal" => wpv'.misparse >= ResyncAfter \/ wpv'.ring = <<>>
      PROVE  Tailed'
  BY <1>3 DEF Tailed, Tailing
<1>4. Tailing(wpv.ring, 0)
  BY <1>1 DEF Tailing
\* The count stands or starts over.
<1>5. ASSUME wpv'.ring = wpv.ring, wpv'.src = wpv.src, wpv'.misparse \in {0, wpv.misparse},
             smp'.pc = "source" => smp.pc = "source",
             smp'.pc = "drain" => smp.pc = "drain" /\ smp'.bus = smp.bus,
             smp'.pc = "heal" => smp.pc = "heal" /\ wpv'.misparse = wpv.misparse
      PROVE  Tailed'
  <2>1. Tailing(wpv'.ring, wpv'.misparse)
    BY <1>2, <1>4, <1>5
  <2>2. QED
    BY <1>3, <1>5, <2>1 DEF Tailed
<1>6. ASSUME NEW sc, wpv' = Fresh(sc) PROVE Tailed'
  <2>1. wpv'.ring = <<>> /\ wpv'.misparse = 0
    BY <1>6 DEF Fresh
  <2>2. QED
    BY <2>1 DEF Tailed
<1>7. ASSUME NEW wpw, Sleep(wpw)
      PROVE  smp'.bus = smp.bus /\ smp'.pc = "sleep" /\ wpv' = wpw
  BY <1>1, <1>7 DEF Sleep, Asleep
<1>8. CASE Produce \/ ApiRead \/ SelectClose \/ SelectMap \/ Mode \/ StatusBegin \/ StatusMagicOk
           \/ StatusMagicBus \/ UNCHANGED vars
  <2>1. /\ UNCHANGED smp /\ wpv'.ring = wpv.ring /\ wpv'.src = wpv.src
        /\ wpv'.misparse = wpv.misparse
    BY <1>1, <1>8 DEF Produce, ApiRead, SelectClose, SelectMap, Mode, StatusBegin,
       StatusMagicOk, StatusMagicBus, vars, Wpvs
  <2>2. QED
    BY <1>5, <2>1
<1>9. CASE \E s \in Scenarios : SelectScenario(s)
  BY <1>6, <1>9 DEF SelectScenario
<1>10. CASE Restart
  BY <1>6, <1>10 DEF Restart
<1>11. CASE TickScenario
  <2>1. UNCHANGED wpv /\ smp'.pc = "fit"
    BY <1>1, <1>11 DEF TickScenario, Wake, Smps
  <2>2. QED
    BY <1>5, <2>1
<1>12. CASE TickFit
  <2>1. smp'.pc = "bus" /\ (UNCHANGED wpv \/ wpv' = Fresh(smp.sc))
    BY <1>1, <1>12 DEF TickFit, Wake, Smps
  <2>2. QED
    BY <1>5, <1>6, <2>1
<1>13. CASE TickBus
  <2>1. /\ UNCHANGED wpv /\ smp'.bus = current
        /\ smp'.pc = IF wpv.src = Source(current) THEN "drain" ELSE "empty"
    BY <1>1, <1>13 DEF TickBus, Wake, Smps
  <2>2. smp'.pc = "drain" /\ smp'.bus.gen = 0 => wpv'.misparse = 0
    BY <2>1 DEF Tailed, Source
  <2>3. QED
    BY <1>2, <1>3, <2>1, <2>2 DEF Tailed
<1>14. CASE TickEmpty
  BY <1>6, <1>14 DEF TickEmpty
<1>15. CASE TickSource
  <2>1. /\ smp.pc = "source" /\ smp'.pc = "drain" /\ wpv'.ring = wpv.ring
        /\ wpv'.misparse = wpv.misparse
    BY <1>1, <1>15 DEF TickSource, Wake, Smps, Wpvs
  <2>2. QED
    BY <1>2, <1>3, <2>1 DEF Tailed
<1>16. CASE TickDrain
  <2>1. smp.pc = "drain"
    BY <1>16 DEF TickDrain
  <2>2. CASE smp.bus.gen = 0 /\ Sleep([wpv EXCEPT !.ring = Pushed(@, <<DemoRecord>>)])
    <3>1. wpv'.misparse = 0 /\ wpv'.ring = Pushed(wpv.ring, <<DemoRecord>>) /\ smp'.pc = "sleep"
      BY <1>1, <1>7, <2>1, <2>2 DEF Tailed, Wpvs
    <3>2. DemoRecord \in Entries /\ <<DemoRecord>> \in Seq(Entries)
      BY Constants DEF DemoRecord, Entries
    <3>3. wpv'.ring \in Seq(Entries)
      <4>1. Pushed(wpv.ring, <<DemoRecord>>) \in Seq(Entries)
        BY <1>1, <3>2, PushedProperties
      <4>2. QED
        BY <3>1, <4>1
    <3>4. Tailing(wpv'.ring, 0)
      BY <3>3 DEF Tailing
    <3>5. QED
      BY <1>3, <3>1, <3>4
  <2>3. CASE Fail
    BY <1>5, <1>7, <2>3 DEF Fail
  <2>4. CASE smp' = [smp EXCEPT !.pc = "magic"] /\ UNCHANGED wpv
    <3>1. smp'.pc = "magic"
      BY <1>1, <2>4 DEF Smps
    <3>2. QED
      BY <1>5, <2>4, <3>1
  <2>5. QED
    BY <1>16, <2>2, <2>3, <2>4 DEF TickDrain, Wake
<1>17. CASE TickMagic \/ TickMagicOk \/ TickMagicBus
  <2>1. smp'.pc \notin {"source", "drain", "heal"}
    BY <1>1, <1>7, <1>17 DEF TickMagic, TickMagicOk, TickMagicBus, Fail, Wake, Smps
  <2>2. wpv'.ring = wpv.ring /\ wpv'.src = wpv.src /\ wpv'.misparse = wpv.misparse
    BY <1>1, <1>7, <1>17 DEF TickMagic, TickMagicOk, TickMagicBus, Fail, Wpvs
  <2>3. QED
    BY <1>5, <2>1, <2>2
<1>18. CASE TickBind
  <2>1. smp'.pc \notin {"source", "drain", "heal"}
    BY <1>1, <1>7, <1>18 DEF TickBind, Fail, Wake, Smps
  <2>2. /\ wpv'.ring = wpv.ring /\ wpv'.src = wpv.src
        /\ wpv'.misparse \in {0, wpv.misparse}
    BY <1>1, <1>7, <1>18 DEF TickBind, Fail, Wpvs
  <2>3. QED
    BY <1>5, <2>1, <2>2
<1>19. CASE TickOccupancy \/ TickLength
  <2>1. smp'.pc \notin {"source", "drain", "heal"}
    BY <1>1, <1>7, <1>19 DEF TickOccupancy, TickLength, Fail, Wake, Smps
  <2>2. wpv'.ring = wpv.ring /\ wpv'.src = wpv.src /\ wpv'.misparse = wpv.misparse
    BY <1>1, <1>7, <1>19 DEF TickOccupancy, TickLength, Fail, Wpvs
  <2>3. QED
    BY <1>5, <2>1, <2>2
<1>20. CASE TickWord
  <2>1. smp.pc = "word"
    BY <1>20 DEF TickWord
  <2>2. CASE Fail
    BY <1>5, <1>7, <2>2 DEF Fail
  <2>3. CASE ReadsWord
    <3>1. UNCHANGED wpv /\ smp'.pc \in {"word", "occ"}
      BY <1>1, <2>1, <2>3 DEF ReadsWord, Smps
    <3>2. QED
      BY <1>5, <3>1
  <2>4. QED
    BY <1>1, <1>20, <2>2, <2>3, WordSteps
<1>21. CASE TickPush
  <2>1. smp.pc = "push" /\ wpv' = Filled
    BY <1>7, <1>21, PushSteps DEF TickPush
  <2>2. /\ Filled.ring = Pushed(wpv.ring, smp.recs) /\ Filled.src = wpv.src
        /\ Filled.misparse = Count
    BY <1>1 DEF Filled, Wpvs
  <2>3. wpv.src # "demo"
    <3>1. smp.bus.gen # 0 /\ smp.bus.id \in Ids
      BY <2>1 DEF Tick, OnLiveBus, Reading, Identity, Known
    <3>2. wpv.src \in {None, smp.bus.id}
      BY <2>1, <3>1 DEF Sources, Source
    <3>3. QED
      BY <3>1, <3>2, NamesAssumption DEF NamesAssumption, None
  <2>4. Tailing(wpv'.ring, wpv'.misparse)
    <3>1. CASE AnyValid(smp.recs)
      <4>1. wpv'.misparse = 0 /\ wpv'.ring \in Seq(Entries)
        BY <1>1, <2>1, <2>2, <3>1, PushedProperties DEF Count
      <4>2. QED
        BY <4>1 DEF Tailing
    <3>2. CASE ~AnyValid(smp.recs)
      <4>1. Count = wpv.misparse + Len(smp.recs)
        BY <3>2 DEF Count
      <4>2. QED
        BY <1>1, <1>2, <2>1, <2>2, <3>2, <4>1, TailingPushed
    <3>3. QED
      BY <3>1, <3>2
  <2>5. CASE Sleep(Filled)
    BY <1>3, <1>7, <2>1, <2>2, <2>3, <2>4, <2>5
  <2>6. CASE Count >= ResyncAfter /\ smp' = [smp EXCEPT !.pc = "heal", !.recs = <<>>]
    <3>1. smp'.pc = "heal"
      BY <1>1, <2>6 DEF Smps
    <3>2. QED
      BY <1>3, <2>1, <2>2, <2>3, <2>4, <2>6, <3>1
  <2>7. QED
    BY <1>21, <2>5, <2>6, PushSteps DEF Wake
<1>22. ASSUME NEW late \in 0 .. RecordWords - 1, Heal(late) PROVE Tailed'
  <2>1. smp'.pc = "sleep"
    BY <1>7, <1>22 DEF Heal, Fail
  <2>2. /\ wpv'.ring = wpv.ring /\ wpv'.src = wpv.src
        /\ wpv'.misparse \in {0, wpv.misparse}
    BY <1>1, <1>7, <1>22 DEF Heal, Fail, Wpvs
  <2>3. QED
    BY <1>5, <2>1, <2>2
<1>23. QED
  BY <1>8, <1>9, <1>10, <1>11, <1>12, <1>13, <1>14, <1>15, <1>16, <1>17, <1>18, <1>19, <1>20,
     <1>21, <1>22 DEF Next, Sampler, Handlers, Scenarios
-----------------------------------------------------------------------------
(* The theorems.                                                           *)

IInv ==
  /\ Types /\ Tick /\ Room /\ Identity /\ Counted /\ Records /\ Sources /\ Verdict /\ Tailed

LEMMA InitIInv == Init => IInv
<1> SUFFICES ASSUME Init PROVE IInv
  OBVIOUS
<1>1. Types /\ Identity
  BY InitTypes, InitIdentity
<1>2. /\ smp.pc = "sleep" /\ smp.n = 0 /\ smp.recs = <<>> /\ smp.pkt = <<>> /\ smp.bus = DemoBus
      /\ wpv.src = None /\ wpv.ring = <<>> /\ wpv.misparse = 0
      /\ words = <<>> /\ lens = 0
  BY DEF Init, Asleep, Fresh
<1>3. Tick /\ Room
  BY <1>2, Constants, Product DEF Tick, Room, Reading, OnLiveBus
<1>4. Counted
  BY <1>2, Constants DEF Counted, Reading
<1>5. Records
  <2>1. smp.pkt \o words = <<>>
    BY <1>2
  <2>2. Unbroken(<<>>) /\ Whole(<<>>)
    BY DEF Unbroken, Whole
  <2>3. QED
    BY <1>2, <2>1, <2>2 DEF Records
<1>6. Sources
  BY <1>2, Constants DEF Sources, Of
<1>7. Verdict
  BY <1>2 DEF Verdict, Open, DemoBus
<1>8. Tailed
  BY <1>2 DEF Tailed, None
<1>9. QED
  BY <1>1, <1>3, <1>4, <1>5, <1>6, <1>7, <1>8 DEF IInv

LEMMA IInvStep == IInv /\ [Next]_vars => IInv'
BY StepTypes, TickStep, RoomStep, IdentityStep, CountedStep, RecordsStep, SourcesStep,
   VerdictStep, TailedStep DEF IInv

\* The number of packets the FIFO has room for.
LEMMA PacketsFit ==
  ASSUME NEW n \in Nat, n * RecordWords <= Capacity
  PROVE  n <= Capacity \div RecordWords
BY Constants

LEMMA IInvTrue == IInv => RecordsAreTrue
<1> SUFFICES ASSUME IInv PROVE RecordsAreTrue
  OBVIOUS
<1>1. TypeOK
  <2>1. lens * RecordWords <= Capacity /\ lens \in Nat
    <3>1. words \in Seq(Cells) /\ lens \in Nat
      BY DEF IInv, Types
    <3>2. Len(words) \in Nat
      BY <3>1
    <3>3. lens * RecordWords \in Nat
      BY <3>1, Product, Zenon
    <3>4. Len(words) <= Capacity /\ lens * RecordWords <= Len(words)
      BY DEF IInv, Room
    <3>5. QED
      BY <3>1, <3>2, <3>3, <3>4, Constants
  <2>2. lens \in 0 .. Capacity \div RecordWords
    BY <2>1, PacketsFit, Constants
  <2>3. wpv.misparse \in 0 .. ResyncAfter - 1 + DrainMax
    BY Constants DEF IInv, Types, Counted, Wpvs
  <2>4. wpv \in [sc : {"wp", "plain"}, src : Ids \cup {None, "demo"}, ring : Seq(Entries),
                  magic : {None, "ok", "bad"}, magicBus : Ids \cup {None}, bound : BusObjects,
                  misparse : 0 .. ResyncAfter - 1 + DrainMax]
    BY <2>3 DEF IInv, Types, Wpvs, Scenarios
  <2>5. smp.bus \in BusObjects /\ smp.n \in 0 .. DrainMax /\ smp.left \in 0 .. RecordWords
    BY DEF IInv, Types, Smps
  <2>6. Len(smp.recs) <= smp.n
    BY DEF IInv, Tick
  <2>7. Len(smp.pkt) < RecordWords
    <3>1. CASE smp.pc = "word"
      BY <3>1, Constants DEF IInv, Room, Types, Smps
    <3>2. CASE smp.pc # "word"
      BY <3>2, Constants DEF IInv, Tick
    <3>3. QED
      BY <3>1, <3>2
  <2>8. QED
    BY <2>2, <2>4, <2>5, <2>6, <2>7 DEF TypeOK, IInv, Types, Room, Scenarios
<1>2. WholeRecords
  BY DEF IInv, Records, Whole, WholeRecords
<1>3. OneSource
  <2>1. SUFFICES ASSUME NEW i \in DOMAIN wpv.ring
                 PROVE  /\ wpv.ring[i].from = wpv.ring[1].from
                        /\ smp.pc # "empty" => \A b \in {hw, current, DemoBus} :
                             wpv.src = Source(b) => wpv.ring[i].from = b.gen
    BY DEF OneSource
  <2>2. i \in 1 .. Len(wpv.ring) /\ 1 \in DOMAIN wpv.ring
    BY <2>1 DEF IInv, Types, Wpvs
  <2>3. wpv.ring[i].from = wpv.ring[1].from
    BY <2>2 DEF IInv, Sources, Of
  <2>4. ASSUME smp.pc # "empty", NEW b \in {hw, current, DemoBus}, wpv.src = Source(b)
        PROVE  wpv.ring[i].from = b.gen
    <3>1. wpv.ring[i].from = smp.bus.gen
      BY <2>4 DEF IInv, Sources, Of
    <3>2. CASE b \in Known
      <4>1. Source(b) # None
        BY <3>2, SourceTells DEF IInv
      <4>2. Source(b) = Source(smp.bus)
        BY <2>4, <4>1 DEF IInv, Sources
      <4>3. smp.bus \in Known
        BY DEF Known
      <4>4. smp.bus.gen = b.gen
        BY <3>2, <4>2, <4>3, SourceTells DEF IInv
      <4>5. QED
        BY <3>1, <4>4
    <3>3. CASE b = DemoBus
      <4>1. Source(b) = "demo" /\ b.gen = 0
        BY <3>3 DEF Source, DemoBus
      <4>2. wpv.src = Source(smp.bus)
        BY <2>4, <4>1 DEF IInv, Sources, None
      <4>3. smp.bus.gen = 0
        BY <2>4, <4>1, <4>2, NamesAssumption
        DEF IInv, Identity, Known, Source, NamesAssumption
      <4>4. QED
        BY <3>1, <4>1, <4>3
    <3>4. QED
      BY <2>4, <3>2, <3>3 DEF Known
  <2>5. QED
    BY <2>3, <2>4
<1>4. NeverUnderflows
  BY WordRead DEF IInv, NeverUnderflows
<1>5. OnlyChecked
  BY DEF IInv, Verdict, Reading, OnlyChecked
<1>6. QED
  BY <1>1, <1>2, <1>3, <1>4, <1>5 DEF RecordsAreTrue

\* What the page shows was recorded (wp_view.py tick_live): whatever was buffered
\* when the service was restarted, rebound or reset in the middle of a packet, a
\* valid record of the ring is one record; the ring is of one bus object, the one
\* its source names; RDFD is not read beyond the occupancy; and the FIFO is one
\* whose bus has shown the magic number.
THEOREM RecordsTheorem == Spec => []RecordsAreTrue
<1>1. Init => IInv
  BY InitIInv
<1>2. IInv /\ [Next]_vars => IInv'
  BY IInvStep
<1>3. IInv => RecordsAreTrue
  BY IInvTrue
<1>4. QED
  BY <1>1, <1>2, <1>3, PTL DEF Spec

\* A reset of the RX side that discards packets (wp_view.py tick_live, the heal
\* branch) has ResyncAfter invalid records in a row behind it: a stream with a
\* valid record among the last ones is not reset.
THEOREM HealthyTheorem == Spec => HealthyNeverReset
<1>1. Init => IInv
  BY InitIInv
<1>2. IInv /\ [Next]_vars => IInv'
  BY IInvStep
<1>3. ASSUME IInv, [Next]_vars, smp.pc = "heal", smp'.pc = "sleep", lens' # lens
      PROVE  \A i \in DOMAIN wpv.ring : i > Len(wpv.ring) - ResyncAfter => ~wpv.ring[i].valid
  <2>1. wpv.misparse >= ResyncAfter \/ wpv.ring = <<>>
    BY <1>3 DEF IInv, Tailed
  <2>2. wpv.misparse \in Nat /\ Len(wpv.ring) \in Nat /\ DOMAIN wpv.ring = 1 .. Len(wpv.ring)
    BY <1>3 DEF IInv, Types, Wpvs
  <2>3. CASE wpv.misparse >= ResyncAfter
    <3>1. SUFFICES ASSUME NEW i \in DOMAIN wpv.ring, i > Len(wpv.ring) - ResyncAfter
                   PROVE  i > Len(wpv.ring) - wpv.misparse
      BY <1>3 DEF IInv, Tailed
    <3>2. QED
      BY <2>2, <2>3, <3>1, Constants
  <2>4. QED
    BY <2>1, <2>3
<1>4. QED
  BY <1>1, <1>2, <1>3, PTL DEF Spec, HealthyNeverReset
=============================================================================
