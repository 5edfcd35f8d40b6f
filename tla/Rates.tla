------------------------------- MODULE Rates -------------------------------
(***************************************************************************)
(* The byte and message rates of the dashboard (InsightState.note_counters *)
(* of insight.py, PacketRate of server.py): the difference of two samples  *)
(* of the TRACE_BYTES counter, taken by requests in threads of their own   *)
(* while the trace is cleared, reset, or belongs to another scenario.      *)
(***************************************************************************)
EXTENDS Naturals

CONSTANTS
    Askers,         \* requests for /api/state or /api/packets
    Sizes,          \* bytes recorded at a time
    MaxWritten,     \* bound: bytes
    MaxEvents       \* bound: clears and resets

VARIABLES
    tb,         \* TRACE_BYTES
    written,    \* bytes ever recorded
    last,       \* _last_beat, prev: the sample noted last
    th,         \* the requests
    measured,   \* no rate claimed more than was written
    events
vars == <<tb, written, last, th, measured, events>>

\* A sample: what was read, what was written by then, and whether a sample read
\* after it has been noted before it.
None == [ok |-> FALSE, tb |-> 0, w |-> 0, late |-> FALSE]

Init == tb = 0 /\ written = 0 /\ last = None /\ th = [t \in Askers |-> None]
        /\ measured = TRUE /\ events = 0

Record(n) ==
    /\ written + n <= MaxWritten
    /\ tb' = tb + n /\ written' = written + n
    /\ UNCHANGED <<last, th, measured, events>>

\* trace_clear, or the counters of a freshly loaded design.
TraceClear ==
    /\ events < MaxEvents /\ events' = events + 1
    /\ tb' = 0
    /\ UNCHANGED <<written, last, th, measured>>

\* InsightState.reset; PacketRate has none.
Reset ==
    /\ events < MaxEvents /\ events' = events + 1
    /\ last' = None
    /\ UNCHANGED <<tb, written, th, measured>>

Read(t) ==
    /\ ~th[t].ok
    /\ th' = [th EXCEPT ![t] = [ok |-> TRUE, tb |-> tb, w |-> written, late |-> FALSE]]
    /\ UNCHANGED <<tb, written, last, measured, events>>

\* Mutant: a smaller counter is taken for one that wrapped.
GrowthWraps(a, b) == {(b - a) % 64}
\* The growth from one counter value to the next: none after a counter reset.
Growth(a, b) == IF b < a THEN {} ELSE {b - a}

\* note_counters, PacketRate.sample: the sample replaces the one before, and
\* the rate is the growth over the time between the two.
Note(t) ==
    /\ th[t].ok
    /\ last' = th[t]
    /\ th' = [u \in Askers |-> IF u = t THEN None ELSE [th[u] EXCEPT !.late = th[u].ok]]
    /\ measured' = (measured /\ (last.ok /\ ~last.late /\ ~th[t].late =>
                                   \A g \in Growth(last.tb, th[t].tb) : g <= th[t].w - last.w))
    /\ UNCHANGED <<tb, written, events>>

Next ==
    \/ \E n \in Sizes : Record(n)
    \/ TraceClear \/ Reset
    \/ \E t \in Askers : Read(t) \/ Note(t)
Spec == Init /\ [][Next]_vars
-----------------------------------------------------------------------------
\* A rate never claims bytes that were not written between its two samples,
\* across clears, resets and reloads, while the samples are noted in the order
\* they were read in (note_counters: measured, not modelled).
RateIsMeasured == measured
=============================================================================
