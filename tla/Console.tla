------------------------------- MODULE Console -------------------------------
(***************************************************************************)
(* The guest console of the dashboard server (examples/dashboard/server.py):*)
(* ConsoleReader.poll records a ring that the guest fills, and moves the   *)
(* read pointer that keeps the guest from overwriting it; _console_tx types*)
(* into the receive FIFO of the guest.  Both run in the threads of their   *)
(* requests, the recorder CONREAD is shared and has no lock.  Ring, read   *)
(* pointer and receive FIFO are hardware (external).                       *)
(***************************************************************************)
EXTENDS Integers, Sequences

CONSTANTS
  Pollers, Typists,  \* threads of GET and of POST /api/console
  Cap,               \* CON_BYTES, and with it the size of the region
  MaxBuf,            \* MAX_BUF of the recorder
  RxBytes, RxLimit,  \* CON_RX_BYTES, and the fill level at which typing stops (250)
  Typed,             \* characters of one POST
  MaxChars,          \* bound: characters the guest prints after a clear
  MaxClears          \* bound: con_clear actions

\* As in the code: the record is longer than the ring (MaxBuf >= Cap), and the limit
\* leaves room for every typist (RxLimit + Cardinality(Typists) <= RxBytes).

VARIABLES
  ring, bytes, rptr, \* the ring: CON_BYTES and CON_RPTR are running counts
  era,               \* con_clear actions so far: what a character belongs to
  clr,               \* con_clear between its pulse and CONREAD.reset
  rec,               \* CONREAD
  rx, lostKeys,      \* characters in the receive FIFO, and overrun ones
  th,                \* threads
  overlap,           \* two polls, or a poll and a con_clear, have overlapped
  pages,             \* the threads of this behaviour: those that poll or those that type
  found              \* characters in the ring when the server started

guest == <<ring, bytes, rptr, era>>
vars == <<guest, clr, rec, rx, lostKeys, th, overlap, pages, found>>

NewRec == [buf |-> <<>>, total |-> 0, head |-> 0, lost |-> 0, ok |-> "untested"]
Rest == [pc |-> "idle", total |-> 0, new |-> 0, start |-> 0, got |-> <<>>, sent |-> 0]

\* A server that starts finds what the guest has printed and an earlier server
\* has acknowledged.
Init ==
  /\ found \in 0 .. MaxChars /\ bytes = found
  /\ rptr \in {r \in 0 .. found : found - r <= Cap}
  /\ ring = [i \in 0 .. Cap - 1 |->
       <<0, IF i < found THEN found - ((found - 1 - i) % Cap) ELSE 0>>]
  /\ era = 0 /\ clr = FALSE /\ rec = NewRec
  /\ rx = 0 /\ lostKeys = 0
  /\ th = [t \in Pollers \cup Typists |-> Rest]
  /\ overlap = FALSE /\ pages \in {Pollers, Typists}

-----------------------------------------------------------------------------
\* The difference is unsigned: a read pointer ahead of CON_BYTES looks full.
Full == bytes - rptr >= Cap \/ bytes < rptr

GuestPrints ==
  /\ bytes < MaxChars /\ ~Full
  /\ ring' = [ring EXCEPT ![bytes % Cap] = <<era, bytes + 1>>]
  /\ bytes' = bytes + 1
  /\ UNCHANGED <<rptr, era, clr, rec, rx, lostKeys, th, overlap, pages, found>>

Go(t, next) == th' = [th EXCEPT ![t] = next]
Polling == {p \in Pollers : th[p].pc # "idle"}

\* A read of the region holds the bus lock, the guest goes on meanwhile.
BusFree == \A p \in Pollers : th[p].pc # "read"

PollTotal(p) ==
  /\ th[p].pc = "idle" /\ BusFree
  /\ Go(p, [Rest EXCEPT !.pc = "new", !.total = bytes])
  /\ overlap' = (overlap \/ Polling # {} \/ clr)
  /\ UNCHANGED <<guest, clr, rec, rx, lostKeys, pages, found>>

\* A counter that went back means con_clear; what is more than a ring is lost.
PollNew(p) ==
  LET base == IF th[p].total < rec.total THEN [rec EXCEPT !.buf = <<>>, !.total = 0] ELSE rec
      new == th[p].total - base.total
      take == IF new > Cap THEN Cap ELSE new
  IN /\ th[p].pc = "new"
     /\ rec' = [base EXCEPT !.lost = @ + new - take]
     /\ Go(p, IF new = 0 THEN [th[p] EXCEPT !.pc = "rptr"]
              ELSE [th[p] EXCEPT !.pc = "read", !.new = take,
                                 !.start = (th[p].total - take) % Cap])
     /\ UNCHANGED <<guest, clr, rx, lostKeys, overlap, pages, found>>

\* The ring is read from its first character on, as far as needed.
Needed(h) == IF h.start + h.new < Cap THEN h.start + h.new ELSE Cap

PollRead(p) ==
  /\ th[p].pc = "read"
  /\ LET got == Append(th[p].got, ring[Len(th[p].got)])
     IN Go(p, [th[p] EXCEPT !.got = got, !.pc = IF Len(got) = Needed(th[p]) THEN "append" ELSE @])
  /\ UNCHANGED <<guest, clr, rec, rx, lostKeys, overlap, pages, found>>

\* The new characters in order: up to the end of the ring, then from its start.
Piece(h) == [i \in 1 .. h.new |-> h.got[((h.start + i - 1) % Cap) + 1]]

\* Mutant: the counter is read again for the record.
PollAppendReread(p) ==
  LET all == rec.buf \o Piece(th[p])
      cut == IF Len(all) > MaxBuf THEN Len(all) - MaxBuf ELSE 0
  IN /\ th[p].pc = "append"
     /\ rec' = [rec EXCEPT !.buf = SubSeq(all, cut + 1, Len(all)), !.head = @ + cut,
                           !.total = bytes]
     /\ Go(p, [th[p] EXCEPT !.pc = "rptr"])
     /\ UNCHANGED <<guest, clr, rx, lostKeys, overlap, pages, found>>

PollAppend(p) ==
  LET all == rec.buf \o Piece(th[p])
      cut == IF Len(all) > MaxBuf THEN Len(all) - MaxBuf ELSE 0
  IN /\ th[p].pc = "append"
     /\ rec' = [rec EXCEPT !.buf = SubSeq(all, cut + 1, Len(all)), !.head = @ + cut,
                           !.total = th[p].total]
     /\ Go(p, [th[p] EXCEPT !.pc = "rptr"])
     /\ UNCHANGED <<guest, clr, rx, lostKeys, overlap, pages, found>>

\* Mutant: the pointer moves only when something new was read.
PollRptrIfNew(p) ==
  /\ th[p].pc = "rptr" /\ BusFree
  /\ rptr' = IF th[p].new > 0 THEN th[p].total ELSE rptr
  /\ Go(p, [th[p] EXCEPT !.pc = "check"])
  /\ UNCHANGED <<ring, bytes, era, clr, rec, rx, lostKeys, overlap, pages, found>>

PollRptr(p) ==
  /\ th[p].pc = "rptr" /\ BusFree
  /\ rptr' = th[p].total
  /\ Go(p, [th[p] EXCEPT !.pc = "check"])
  /\ UNCHANGED <<ring, bytes, era, clr, rec, rx, lostKeys, overlap, pages, found>>

\* The value read back is the proof that the bitstream has the pointer.
PollCheck(p) ==
  /\ th[p].pc = "check" /\ BusFree
  /\ rec' = [rec EXCEPT !.ok = IF th[p].total = 0 THEN @ ELSE IF rptr = th[p].total THEN "yes" ELSE "no"]
  /\ Go(p, Rest)
  /\ UNCHANGED <<guest, clr, rx, lostKeys, overlap, pages, found>>

\* con_clear: the pulse zeroes the counters, then the record is dropped.
ClearPulse ==
  /\ ~clr /\ BusFree /\ era < MaxClears
  /\ bytes' = 0 /\ rptr' = 0 /\ era' = era + 1 /\ clr' = TRUE
  /\ overlap' = (overlap \/ Polling # {})
  /\ UNCHANGED <<ring, rec, rx, lostKeys, th, pages, found>>

ClearRecord ==
  /\ clr /\ clr' = FALSE /\ rec' = NewRec
  /\ UNCHANGED <<guest, rx, lostKeys, th, overlap, pages, found>>

-----------------------------------------------------------------------------
\* interactive_now: no verdict yet counts as yes.
Interactive == rec.ok # "no"

TypeBegin(x) ==
  /\ th[x].pc = "idle" /\ Interactive
  /\ Go(x, [Rest EXCEPT !.pc = "level"])
  /\ UNCHANGED <<guest, clr, rec, rx, lostKeys, overlap, pages, found>>

\* Mutant: the level is looked at before the first character only.
TypeLevelOnce(x) ==
  /\ th[x].pc = "level" /\ BusFree
  /\ Go(x, IF th[x].sent = 0 /\ rx >= RxLimit THEN Rest ELSE [th[x] EXCEPT !.pc = "put"])
  /\ UNCHANGED <<guest, clr, rec, rx, lostKeys, overlap, pages, found>>

\* Before every character the fill level is read; the rest is reported unsent.
TypeLevel(x) ==
  /\ th[x].pc = "level" /\ BusFree
  /\ Go(x, IF rx >= RxLimit THEN Rest ELSE [th[x] EXCEPT !.pc = "put"])
  /\ UNCHANGED <<guest, clr, rec, rx, lostKeys, overlap, pages, found>>

TypeChar(x) ==
  /\ th[x].pc = "put" /\ BusFree
  /\ IF rx = RxBytes THEN lostKeys' = 1 /\ UNCHANGED rx
                     ELSE rx' = rx + 1 /\ UNCHANGED lostKeys
  /\ Go(x, IF th[x].sent + 1 = Typed THEN Rest
           ELSE [th[x] EXCEPT !.pc = "level", !.sent = @ + 1])
  /\ UNCHANGED <<guest, clr, rec, overlap, pages, found>>

\* The guest's driver fetches a character.
Fetch ==
  /\ rx > 0 /\ rx' = rx - 1
  /\ UNCHANGED <<guest, clr, rec, lostKeys, th, overlap, pages, found>>

Poll(p) ==
  \/ PollTotal(p) \/ PollNew(p) \/ PollRead(p) \/ PollAppend(p) \/ PollRptr(p) \/ PollCheck(p)

Next ==
  \/ GuestPrints \/ ClearPulse \/ ClearRecord \/ Fetch
  \/ \E p \in pages \cap Pollers : Poll(p)
  \/ \E x \in pages \cap Typists : TypeBegin(x) \/ TypeLevel(x) \/ TypeChar(x)

\* A request that has begun goes on; the page polls again and again.
Fairness == \A p \in Pollers : WF_vars(pages = Pollers /\ Poll(p))

Spec == Init /\ [][Next]_vars /\ Fairness

-----------------------------------------------------------------------------
\* What the recorder should hold: the characters up to `total` without a gap,
\* a repetition or a stranger, and every one that is missing is counted.
Exact(r) ==
  /\ \A i \in DOMAIN r.buf : r.buf[i] = <<era, r.total - Len(r.buf) + i>>
  /\ r.total = r.lost + r.head + Len(r.buf)

\* The console is recorded losslessly as long as polls do not overlap: whatever
\* the guest prints while the ring is read, across the end of the ring, a clear
\* and the trimming of the record (ConsoleReader).  A restarted server is exempt:
\* the ring it finds is older than the pointer that protects it.
Lossless == ~overlap /\ ~clr /\ found = 0 /\ Polling = {} => Exact(rec)

\* No typed character is overrun in the receive FIFO, however many requests type
\* at the same time: the limit leaves room for one character of each.
NoKeyLost == lostKeys = 0

\* Polling keeps the guest's console going, whatever overlapped, was cleared or
\* restarted before: it does not stay full.
NeverMute == []<>(~(pages = Pollers /\ Full))
=============================================================================
