------------------------------ MODULE ArchView ------------------------------
(***************************************************************************)
(* The architecture view: compact_layout.py draws a scenario into an SVG,  *)
(* a developer may rearrange it in draw.io, and sync_arch_view.py takes    *)
(* blocks, lines and arrowheads back out of the drawing into the page.     *)
(* Lengths are in twentieths of a drawing unit.  draw.io is external.      *)
(***************************************************************************)
EXTENDS Integers, Sequences, FiniteSets, SequencesExt

CONSTANTS
    Scenarios,  \* [cores, etrace, tap, sinks], small enough to draw
    Touched,    \* bound: the kinds of block a developer renames or moves
    MaxEdits    \* bound: edits in draw.io and of the catalogue

\* A core: [ingress, block], block "unset" or what ingress_block says.  tap is the
\* feature whose chain hangs below a row.
VARIABLES
    sc,         \* the scenario, as the catalogue has it
    file,       \* its drawing: ctte_view_<id>.drawio.svg
    shadow,     \* a hand-drawn variant, _aw, or None
    measured,   \* the blocks of measured/geo_<id>.json, or {}
    page,       \* what the dashboard shows, or None
    edits
vars == <<sc, file, shadow, measured, page, edits>>

None == [drawn |-> FALSE]
U(n) == 20 * n
Rows == 0 .. Len(sc.cores) - 1
Row(r) == sc.cores[r + 1]

-----------------------------------------------------------------------------
(* compact_layout.build: the blocks of a scenario *)

\* Mutant of TapX: the tap below the FIFO, where it once hung.
TapXFifo == 476
TapX == 372
\* kind -> x, width, height, and where in its row
Raster == [cpu |-> <<20, 190, 138, "mid">>, tip |-> <<236, 92, 46, "mid">>, preproc |-> <<372, 84, 46, "mid">>,
           fifo |-> <<476, 84, 62, "mid">>, msggen |-> <<580, 84, 46, "a">>, nexusfmt |-> <<684, 92, 46, "a">>,
           mseomdo |-> <<796, 100, 46, "a">>, teinst |-> <<580, 84, 46, "b">>, tepktz |-> <<684, 92, 46, "b">>,
           axis |-> <<TapX, 84, 40, "below">>, wpshim |-> <<TapX, 152, 62, "below">>,
           wpfifo |-> <<600, 116, 62, "below">>,
           kriaps |-> IF sc.tap = "axis" THEN <<236, 92, 40, "below">> ELSE <<790, 110, 62, "below">>]
RowH == IF sc.etrace THEN 158 ELSE 96
\* Mutant of Below: no room for the chain that hangs below the row.
BelowNothing == 0
Below == CASE sc.tap = "axis" -> 40 + 8 + 14 [] sc.tap = "axis_wp" -> 62 + 8 + 14 [] OTHER -> 0
Pitch == Max({RowH + Below, 138}) + 34
Lane(place, h) == CASE place = "mid" -> (RowH - h) \div 2
                    [] place = "a" -> IF sc.etrace THEN 26 ELSE 25
                    [] place = "b" -> 86
                    [] place = "below" -> RowH + 8

WantTip(core) == IF core.block # "unset" THEN core.block = "yes" ELSE core.ingress \notin {"", "H2E->TIP"}
KindsOf(r) == {"cpu", "preproc", "fifo", "msggen", "nexusfmt", "mseomdo"}
              \cup (IF WantTip(Row(r)) THEN {"tip"} ELSE {})
              \cup (IF sc.etrace THEN {"teinst", "tepktz"} ELSE {})
              \cup (CASE sc.tap = "axis" -> {"axis", "kriaps"}
                      [] sc.tap = "axis_wp" -> {"wpshim", "wpfifo", "kriaps"}
                      [] OTHER -> {})
Merging == Len(sc.cores) > 1
SinksWanted == IF sc.sinks = {} THEN {"uram"} ELSE sc.sinks
SinkOrder(s) == CASE s = "ddr" -> 0 [] s = "uram" -> 1 [] s = "pib" -> 2
SinkRank(s) == Cardinality({t \in SinksWanted : SinkOrder(t) < SinkOrder(s)})
Bottom == (Len(sc.cores) - 1) * Pitch + RowH

Box(x, y, w, h) == [x |-> x, y |-> y, w |-> w, h |-> h]
RowBox(kind, r) ==
    LET c == Raster[kind]
    IN  Box(U(c[1]), U(r * Pitch + Lane(c[4], c[3])), U(c[2]), U(c[3]))
SinkBox(s) ==
    LET n == Cardinality(SinksWanted)
        span == n * 54 + (n - 1) * 20
    IN  Box(U(IF Merging THEN 940 + 78 + 54 ELSE 796 + 100 + 64), 10 * (Bottom - span) + U(SinkRank(s) * (54 + 20)),
            U(112), U(54))
\* An id is a kind and a row; the funnel and the sinks have none.
Ids == UNION {{<<k, r>> : k \in KindsOf(r)} : r \in Rows}
       \cup (IF Merging THEN {<<"funnel", 0>>} ELSE {}) \cup {<<s, 0>> : s \in SinksWanted}
BoxOf(id) == CASE id[1] = "funnel" -> Box(U(940), 0, U(78), U(Bottom))
               [] id[1] \in {"ddr", "uram", "pib"} -> SinkBox(id[1])
               [] OTHER -> RowBox(id[1], id[2])
Blocks == [id \in Ids |-> BoxOf(id)]
Container(r) == Box(U(352), U(r * Pitch), U(796 + 100 + 20 - 352), U(RowH))

Wire(a, b, r, how) == [s |-> <<a, r>>, t |-> <<b, r>>, how |-> how]
Chain(r) ==
    (IF WantTip(Row(r)) THEN {Wire("cpu", "tip", r, "h"), Wire("tip", "preproc", r, "h")}
                        ELSE {Wire("cpu", "preproc", r, "h")})
    \cup {Wire("preproc", "fifo", r, "h"), Wire("fifo", "msggen", r, "h"), Wire("msggen", "nexusfmt", r, "h"),
          Wire("nexusfmt", "mseomdo", r, "h")}
    \cup (IF sc.etrace THEN {Wire("fifo", "teinst", r, "h"), Wire("teinst", "tepktz", r, "h")} ELSE {})
    \cup (CASE sc.tap = "axis" -> {Wire("preproc", "axis", r, "down"), Wire("axis", "kriaps", r, "left")}
            [] sc.tap = "axis_wp" -> {Wire("preproc", "wpshim", r, "down"), Wire("wpshim", "wpfifo", r, "h"),
                                      Wire("wpfifo", "kriaps", r, "h")}
            [] OTHER -> {})
Ends == {<<k, r>> : k \in (IF sc.etrace THEN {"mseomdo", "tepktz"} ELSE {"mseomdo"}), r \in Rows}
Wires == UNION {Chain(r) : r \in Rows}
         \cup (IF Merging THEN {[s |-> e, t |-> <<"funnel", 0>>, how |-> "chan"] : e \in Ends}
                               \cup {[s |-> <<"funnel", 0>>, t |-> <<k, 0>>, how |-> "h"] : k \in SinksWanted}
               ELSE {[s |-> e, t |-> <<k, 0>>, how |-> "trunk"] : e \in Ends, k \in SinksWanted})

-----------------------------------------------------------------------------
(* compact_layout.route: lines and arrowheads *)

Tip == 38
Long == 192
Half == 77
MidY(b) == b.y + (b.h \div 2)
TrunkX(blocks) == Min({blocks[k].x - U(30) : k \in {w.t : w \in {v \in Wires : v.how \in {"trunk", "chan"}}}})
Arrow(x, y, dx, dy) == {<<x + dx * Tip, y + dy * Tip>>,
                       <<x + dx * Long + dy * Half, y + dy * Long + dx * Half>>,
                       <<x + dx * Long - dy * Half, y + dy * Long - dx * Half>>}
Down(a, b) ==
    LET x == a.x + (a.w \div 2)
    IN  [path |-> <<<<x, a.y + a.h>>, <<x, b.y - Long>>>>, head |-> Arrow(x, b.y, 0, -1)]
Left(a, b) ==
    LET x == b.x + b.w
    IN  [path |-> <<<<a.x, MidY(a)>>, <<x + Long, MidY(b)>>>>, head |-> Arrow(x, MidY(b), 1, 0)]
\* Straight where the heights agree, else over the bend at x.
Across(a, b, y, x) ==
    [path |-> IF MidY(a) = y THEN <<<<a.x + a.w, y>>, <<b.x - Long, y>>>>
              ELSE <<<<a.x + a.w, MidY(a)>>, <<x, MidY(a)>>, <<x, y>>, <<b.x - Long, y>>>>,
     head |-> Arrow(b.x, y, -1, 0)]
RouteOf(a, b, how, trunk) ==
    CASE how = "down" -> Down(a, b)
      [] how = "left" -> Left(a, b)
      [] how = "chan" -> Across(a, b, MidY(a), 0)
      [] how = "trunk" -> Across(a, b, MidY(b), trunk)
      [] how = "h" -> Across(a, b, MidY(b), (a.x + a.w + b.x) \div 2)
Routes(blocks, trunk) ==
    {LET route == RouteOf(blocks[w.s], blocks[w.t], w.how, trunk)
     IN  [s |-> w.s, t |-> w.t, path |-> route.path, head |-> route.head] : w \in Wires}

-----------------------------------------------------------------------------
(* The drawing: cells of the model, and beside them what is rendered *)

At(p, d) == <<p[1] - d[1], p[2] - d[2]>>
BoxAt(b, d) == [b EXCEPT !.x = @ - d[1], !.y = @ - d[2]]
PathAt(path, d) == [i \in DOMAIN path |-> At(path[i], d)]
HeadAt(head, d) == {At(p, d) : p \in head}
\* The drawing starts 30 units left of and above everything in it.
Origin(blocks, routes) ==
    LET ends == UNION {{e.path[i] : i \in DOMAIN e.path} : e \in routes}
        shown == {blocks[k] : k \in DOMAIN blocks} \cup {Container(r) : r \in Rows}
    IN  <<Min({b.x : b \in shown} \cup {p[1] : p \in ends}) - U(30),
          Min({b.y : b \in shown} \cup {p[2] : p \in ends}) - U(30)>>

\* cells: [id, label, box, was], was the block a cell stands for.
Cell(id, label, box) == [id |-> id, label |-> label, box |-> box, was |-> id]
Rendered(cells, routes, d) ==
    [rects |-> {BoxAt(c.box, d) : c \in cells},
     lines |-> {PathAt(e.path, d) : e \in routes}, heads |-> {HeadAt(e.head, d) : e \in routes}]
Svg(blocks, routes) ==
    LET o == Origin(blocks, routes)
        cells == {Cell(k, k[1], BoxAt(blocks[k], o)) : k \in DOMAIN blocks}
                 \cup {Cell(<<"ct", r>>, "cedartools", BoxAt(Container(r), o)) : r \in Rows}
        shifted == {[e EXCEPT !.path = PathAt(e.path, o), !.head = HeadAt(e.head, o)] : e \in routes}
    IN  [mark |-> TRUE, cells |-> cells, wires |-> {<<w.s, w.t>> : w \in Wires},
         picture |-> Rendered(cells, shifted, <<0, 0>>), routes |-> shifted]
Drawn == Svg(Blocks, Routes(Blocks, TrunkX(Blocks)))

-----------------------------------------------------------------------------
(* What a developer does: draw.io keeps ids and labels of what is moved,   *)
(* gives new ids to what is copied, moves the rendered origin and drops    *)
(* the generator's mark                                                    *)

Margin == <<U(7), U(3)>>
Edited(cells, wires) ==
    LET blocks == [k \in {c.was : c \in {b \in cells : b.was[1] # "ct"}} |-> (CHOOSE c \in cells : c.was = k).box]
        routes == Routes(blocks, TrunkX(blocks))
    IN  [mark |-> FALSE, cells |-> cells, wires |-> wires, picture |-> Rendered(cells, routes, Margin), routes |-> routes]
Saved(f) ==
    /\ edits < MaxEdits /\ edits' = edits + 1
    /\ \/ file' = f /\ UNCHANGED shadow
       \/ shadow' = f /\ UNCHANGED file
    /\ UNCHANGED <<sc, measured, page>>
\* The drawing is of the scenario the developer still sees.
Current(f) == f # None /\ {c.was : c \in f.cells} = Ids \cup {<<"ct", r>> : r \in Rows}

Rename == Current(file) /\ \E c \in {b \in file.cells : b.was[1] \in Touched} :
    Saved(Edited((file.cells \ {c}) \cup {[c EXCEPT !.label = "other"]}, file.wires))
SwapRows == Current(file) /\ \E a, b \in {c \in file.cells : c.was[1] \in Touched} :
    /\ a.was[1] = b.was[1] /\ a.was[2] < b.was[2] /\ a.label = b.label
    /\ Saved(Edited((file.cells \ {a, b}) \cup {[a EXCEPT !.box = b.box], [b EXCEPT !.box = a.box]}, file.wires))
Redrawn(id) == <<"n", id>>
Redraw == Current(file) /\ (\A c \in file.cells : c.id[1] # "n")
    /\ Saved(Edited({[c EXCEPT !.id = Redrawn(c.id)] : c \in file.cells},
                    {<<Redrawn(w[1]), Redrawn(w[2])>> : w \in file.wires}))

-----------------------------------------------------------------------------
(* sync_arch_view: ids *)

Containers(cells) == {c \in cells : c.id[1] = "ct"}
Nodes(cells) == cells \ Containers(cells)
Known(cells) == \A n \in Nodes(cells) : n.id \in measured
\* Top to bottom, then left to right.
Before(a, b) == a.box.y < b.box.y \/ (a.box.y = b.box.y /\ a.box.x < b.box.x)
Rank(n, S) == Cardinality({m \in S : Before(m, n)})
MeasuredRows(kind) == {k \in measured : k[1] = kind}
Nth(S, i) == CHOOSE k \in S : Cardinality({m \in S : m[2] < k[2]}) = i

\* Mutant of RenamedTo: in the order of the sheet, from left to right.
RenamedToAcross(n, nodes) ==
    LET alike == {m \in nodes : m.label = n.label}
        rank == Cardinality({m \in alike : m.box.x < n.box.x})
    IN  IF rank < Cardinality(MeasuredRows(n.label)) THEN Nth(MeasuredRows(n.label), rank) ELSE n.id
\* The next measured block of that label; past them an ingress stage is taken for
\* the first ones again, and a Kria PS for a new one.
RenamedTo(n, nodes) ==
    LET alike == {m \in nodes : m.label = n.label}
        count == Cardinality(MeasuredRows(n.label))
        rank == Rank(n, alike)
    IN  IF rank < count THEN Nth(MeasuredRows(n.label), rank)
        ELSE IF n.label = "tip" /\ rank - count < count THEN Nth(MeasuredRows("tip"), rank - count)
        ELSE IF n.label = "kriaps" THEN <<"kriaps", rank - count>>
        ELSE n.id
\* cell -> id, for a drawing the generator did not make.
NewIds(cells) ==
    LET conts == Containers(cells) \cup {c \in cells : c.label = "cedartools"}
        nodes == cells \ conts
    IN  [c \in cells |-> IF c \in conts THEN <<"ct", Rank(c, conts)>> ELSE RenamedTo(c, nodes)]
Resolving(f) == ~f.mark /\ measured # {} /\ ~Known(f.cells)
Matched(f, id) == Resolving(f) => id[1] # "n"
IdsOf(f) == IF Resolving(f) THEN NewIds(f.cells) ELSE [c \in f.cells |-> c.id]

-----------------------------------------------------------------------------
(* sync_arch_view: lines and heads, verbatim out of the picture *)

\* Where the picture lies, from rectangles and blocks of the same size.
Offset(cells, rects) ==
    LET boxes == {c.box : c \in cells}
        offsets == UNION {{<<c.box.x - r.x, c.box.y - r.y>> : c \in {b \in cells : b.box.w = r.w /\ b.box.h = r.h}} :
                            r \in rects}
        votes == {[k |-> k, n |-> Cardinality({r \in rects : BoxAt(r, <<-k[1], -k[2]>>) \in boxes})] : k \in offsets}
    IN  (CHOOSE v \in votes : \A w \in votes : w.n <= v.n).k

Clamp(v, lo, hi) == IF v < lo THEN lo ELSE IF v > hi THEN hi ELSE v
Dist2(p, b) ==
    LET dx == Clamp(p[1], b.x, b.x + b.w) - p[1]
        dy == Clamp(p[2], b.y, b.y + b.h) - p[2]
    IN  dx * dx + dy * dy
\* Of pairs [of, d] the one at the least distance.
Closest(pairs) == (CHOOSE a \in pairs : \A b \in pairs : a.d <= b.d).of
Nearest(p, nodes) == Closest({[of |-> n, d |-> Dist2(p, n.box)] : n \in nodes})
Far(p, n) == Dist2(p, n.box) > U(40) * U(40)
Apart2(p, q) == (p[1] - q[1]) * (p[1] - q[1]) + (p[2] - q[2]) * (p[2] - q[2])
ToHead(p, head) == Min({Apart2(p, q) : q \in head})
Near(p, q) == p[1] - q[1] \in -U(14) .. U(14) /\ Apart2(p, q) < U(14) * U(14)
ClosestHead(p, heads) ==
    LET near == {h \in heads : \E q \in h : Near(p, q)}
    IN  IF near = {} THEN {} ELSE Closest({[of |-> h, d |-> ToHead(p, h)] : h \in near})
\* A line whose end meets no block is discarded.
Ends2(path) == <<path[1], path[Len(path)]>>
EdgeOf(path, nodes, ids, heads) ==
    LET e == Ends2(path)
        s == Nearest(e[1], nodes)
        t == Nearest(e[2], nodes)
    IN  IF s = t \/ Far(e[1], s) \/ Far(e[2], t) THEN {}
        ELSE {[s |-> ids[s], t |-> ids[t], path |-> path, head |-> ClosestHead(e[2], heads)]}
EdgesOf(f, ids) ==
    LET d == Offset(f.cells, f.picture.rects)
        back == <<-d[1], -d[2]>>
        nodes == {c \in f.cells : ids[c][1] # "ct" /\ Matched(f, ids[c])}
        heads == {HeadAt(h, back) : h \in f.picture.heads}
    IN  UNION {EdgeOf(PathAt(l, back), nodes, ids, heads) : l \in f.picture.lines}
\* A wire of the model that was not found in the picture has no line.
Undrawn(f, ids, drawn) ==
    LET Of(id) == ids[CHOOSE c \in f.cells : c.id = id]
        wires == {w \in {<<Of(v[1]), Of(v[2])>> : v \in f.wires} : Matched(f, w[1]) /\ Matched(f, w[2])}
    IN  {[s |-> w[1], t |-> w[2], path |-> <<>>, head |-> {}] :
           w \in {v \in wires : \A e \in drawn : <<e.s, e.t>> # v}}

-----------------------------------------------------------------------------
\* What the labels can tell: nothing is renamed or out of the order of its rows,
\* and what was measured has all of a kind or none, where a block may be invented.
Plain(f) ==
    IF ~Resolving(f) THEN \A c \in f.cells : c.id[1] # "n" ELSE
    /\ \A c \in f.cells : c.label = IF c.was[1] = "ct" THEN "cedartools" ELSE c.was[1]
    /\ \A a, b \in f.cells : a.was[1] = b.was[1] /\ a.was[2] < b.was[2] => Before(a, b)
    /\ \A k \in {"tip", "kriaps"} : MeasuredRows(k) \in {{}, {c.was : c \in {b \in f.cells : b.was[1] = k}}}
    /\ \A k \in DOMAIN Raster : \A m \in MeasuredRows(k) : \E c \in f.cells : c.was = m
    /\ \A k \in measured : \A c \in f.cells : c.was[1] = k[1] /\ c.was[2] < k[2] => c.was \in measured

Source == IF shadow # None THEN shadow ELSE file
\* Without a drawing there may be a measurement; with neither the tool stops.
FromMeasured ==
    [nodes |-> {[id |-> k, was |-> k] : k \in measured}, edges |-> {}, of |-> None, plain |-> TRUE]
FromDrawing(f) ==
    LET ids == IdsOf(f)
        edges == EdgesOf(f, ids)
    IN  [nodes |-> {[id |-> ids[c], was |-> c.was] : c \in {b \in f.cells : Matched(f, ids[b])}},
         edges |-> edges \cup Undrawn(f, ids, edges), of |-> f, plain |-> Plain(f)]
Sync ==
    /\ Source # None \/ measured # {}
    /\ page' = IF Source # None THEN FromDrawing(Source) ELSE FromMeasured
    /\ UNCHANGED <<sc, file, shadow, measured, edits>>

Generate ==
    /\ file' = Drawn
    /\ UNCHANGED <<sc, shadow, measured, page, edits>>
\* measure_geometry: the blocks the dashboard shows.
Measure ==
    /\ page # None
    /\ measured' = {n.id : n \in {m \in page.nodes : m.id[1] # "ct"}}
    /\ UNCHANGED <<sc, file, shadow, page, edits>>
\* The scenario gets another chain below its rows, or another core.
Revise ==
    /\ edits < MaxEdits /\ edits' = edits + 1
    /\ \E new \in Scenarios :
         /\ new # sc /\ new.etrace = sc.etrace /\ new.sinks = sc.sinks
         /\ \/ new.cores = sc.cores /\ sc.tap = ""
            \/ new.tap = sc.tap /\ Front(new.cores) = sc.cores
         /\ sc' = new
    /\ UNCHANGED <<file, shadow, measured, page>>

Init ==
    /\ sc \in Scenarios /\ edits = 0
    /\ file = None /\ shadow = None /\ measured = {} /\ page = None
Next == Generate \/ Rename \/ SwapRows \/ Redraw \/ Sync \/ Measure \/ Revise
Spec == Init /\ [][Next]_vars

-----------------------------------------------------------------------------
\* A generated drawing arrives whole: every line of it, between the blocks it
\* joins and with its own head, and nothing else.
PictureArrives ==
    page # None /\ page.of # None /\ page.of.mark => page.edges = page.of.routes

\* Blocks do not touch one another, a row's chain lies in its container, and a
\* line runs through no block that it does not join.
Apart(a, b) == a.x + a.w < b.x \/ b.x + b.w < a.x \/ a.y + a.h < b.y \/ b.y + b.h < a.y
Inside(b, c) == c.x <= b.x /\ b.x + b.w <= c.x + c.w /\ c.y <= b.y /\ b.y + b.h <= c.y + c.h
Segment(p, q) == Box(Min({p[1], q[1]}), Min({p[2], q[2]}), Max({p[1], q[1]}) - Min({p[1], q[1]}),
                     Max({p[2], q[2]}) - Min({p[2], q[2]}))
ClearOf(path, b) == \A i \in 1 .. Len(path) - 1 : Apart(Segment(path[i], path[i + 1]), b)
Cleanly(f) ==
    LET nodes == Nodes(f.cells)
    IN  /\ \A a, b \in nodes : a # b => Apart(a.box, b.box)
        /\ \A c \in Containers(f.cells), n \in nodes :
             n.id[2] = c.id[2] /\ n.id[1] \in {"preproc", "fifo", "msggen", "nexusfmt", "mseomdo", "teinst", "tepktz"}
               => Inside(n.box, c.box)
        /\ \A e \in f.routes : \A n \in nodes : n.id \notin {e.s, e.t} => ClearOf(e.path, n.box)
DrawnCleanly == file # None /\ file.mark => Cleanly(file)

\* A block of a rearranged drawing stays the block it was, where its label can
\* tell.
BlocksKept == page # None /\ page.plain => \A n \in page.nodes : n.id = n.was

ViewIsDrawing == PictureArrives /\ DrawnCleanly /\ BlocksKept

\* "THE CELL ID IS THE KEY, not the label. Renaming a block changes nothing."
IdIsKey == page # None /\ page.of # None /\ (\A c \in page.of.cells : c.id = c.was)
             => \A n \in page.nodes : n.id = n.was
=============================================================================
