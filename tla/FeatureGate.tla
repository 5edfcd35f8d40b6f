---------------------------- MODULE FeatureGate ----------------------------
(***************************************************************************)
(* check_feature_flags.py: the build switches, the CAPS bits, the packing  *)
(* of the runtime enables, the register description and three tables of    *)
(* the documentation are edited one by one; the gate reads them all and    *)
(* says whether they still agree.                                          *)
(***************************************************************************)
EXTENDS Integers, Sequences, FiniteSets, SequencesExt

CONSTANTS
    Base,       \* the sources as they are: a record of the parts below
    Variants,   \* part -> what an edit may make of it
    Expect,     \* ENAB_EXPECT: bit -> fields the enable comes from, {} a tie-off
    ParamCaps,  \* PARAM_CAPS: bit -> the parameter that drives it
    MaxEdits    \* bound: edited parts

\* switches: name -> 0/1; tokens: the other CT_* names; width, vendorWidth;
\* caps: lines [bit, name, by]; enab: lines [bit, name, from, marked], in the
\* order of the source; rdl: the statements; page: table -> its frame [header,
\* columns, widths of its rows, closed, section]; matrix: rows [build, refs, caps],
\* caps the set of bits claimed; list: bit -> name; flags: rows
\* [sw, refs, reset, full, caps], reset and caps -1 for a dash; prose: the tokens
\* of the flags' section; enh: rows [sw, field].
VARIABLES src, verdict, edits
vars == <<src, verdict, edits>>

None == -1
ElementsOf(s) == {s[i] : i \in DOMAIN s}

-----------------------------------------------------------------------------
(* The register description, as the full profile has it *)

\* Strings and comments are blanked; each ends at its own mark, whatever else is in
\* it.
Closer == [quote |-> "quote", line |-> "newline", block |-> "end"]
Clean(st, s) ==
    CASE st.in = "code" /\ s.t \in DOMAIN Closer -> [st EXCEPT !.in = s.t]
      [] st.in = "code" -> [st EXCEPT !.out = Append(@, s)]
      [] st.in # "code" /\ s.t = Closer[st.in] -> [st EXCEPT !.in = "code"]
      [] OTHER -> st
Cleaned(rdl) == FoldLeft(Clean, [in |-> "code", out |-> <<>>], rdl).out

\* A conditional: whether its current branch is taken, and whether one was.
Turned(c) == [on |-> ~c.taken, taken |-> TRUE]
Preprocess(st, s) ==
    CASE s.t = "ifdef" -> [st EXCEPT !.open = Append(@, [on |-> FALSE, taken |-> FALSE])]
      [] s.t = "ifndef" -> [st EXCEPT !.open = Append(@, [on |-> TRUE, taken |-> TRUE])]
      [] s.t = "else" -> [st EXCEPT !.open[Len(st.open)] = Turned(@)]
      [] s.t = "endif" -> [st EXCEPT !.open = Front(@)]
      [] OTHER -> IF \A c \in ElementsOf(st.open) : c.on THEN [st EXCEPT !.out = Append(@, s)] ELSE st
Active(rdl) == FoldLeft(Preprocess, [open |-> <<>>, out |-> <<>>], Cleaned(rdl)).out

\* A scope holds what was named in it, its own name still to come.
Scope(kind) == [kind |-> kind, fields |-> <<>>, regs |-> <<>>]
Under(name, table) == [i \in DOMAIN table |-> [table[i] EXCEPT !.path = <<name>> \o @]]
Into(top, closed, s) ==
    IF closed.kind = "field" THEN [top EXCEPT !.fields = Append(@, [path |-> <<s.name>>, bits |-> s.bits,
                                                                    reset |-> s.reset, at |-> None])]
    ELSE LET at == [i \in DOMAIN closed.fields |-> [closed.fields[i] EXCEPT !.at = IF @ = None THEN s.at ELSE @]]
         IN  [top EXCEPT !.fields = @ \o Under(s.name, at),
                         !.regs = Append(@, [path |-> <<s.name>>, at |-> s.at]) \o Under(s.name, closed.regs)]
Parse(st, s) ==
    LET n == Len(st.stack)
    IN  CASE s.t = "open" -> [st EXCEPT !.stack = Append(@, Scope(s.kind)), !.closed = <<>>]
          [] s.t = "close" -> [st EXCEPT !.stack = Front(@), !.closed = <<st.stack[n]>>]
          [] s.t = "name" /\ st.closed # <<>> ->
               [st EXCEPT !.stack[n] = Into(@, st.closed[1], s), !.closed = <<>>]
          [] s.t = "hide" -> [st EXCEPT !.hidden = @ \cup {s.name}]
          [] s.t = "mem" -> [st EXCEPT !.mems = Append(@, [path |-> <<s.name>>, at |-> s.at])]
          [] OTHER -> st
Parsed(rdl) == FoldLeft(Parse, [stack |-> <<Scope("root")>>, closed |-> <<>>, hidden |-> {}, mems |-> <<>>], Active(rdl))
\* What "->ispresent = false" hides is a type, no register.
Tables(rdl) ==
    LET p == Parsed(rdl)
        Hidden(r) == Last(r.path) \in p.hidden
        Live(r) == ~Hidden(r)
    IN  [fields |-> p.stack[1].fields, regs |-> SelectSeq(p.stack[1].regs, Live),
         anchors |-> SelectSeq(p.stack[1].regs, Hidden), mems |-> p.mems]

-----------------------------------------------------------------------------
(* A cell with references: [name, off, bits], off and bits as documented *)

EndsWith(path, ref) == IsSuffix(ref, path)
Matches(table, ref) == {i \in DOMAIN table : EndsWith(table[i].path, ref)}
\* The first one found, as a set.
Find(table, ref) ==
    LET at == Matches(table, ref) IN IF at = {} THEN {} ELSE {table[CHOOSE i \in at : \A j \in at : i <= j]}
\* A dotted name may be a field, every name a register or a type, a bare one also
\* a memory.
FieldOf(tab, ref) == IF Len(ref.name) > 1 THEN Find(tab.fields, ref.name) ELSE {}
OtherOf(tab, ref) ==
    LET mem == IF Len(ref.name) = 1 THEN Find(tab.mems, ref.name) ELSE {}
        reg == Find(tab.regs, ref.name)
    IN  IF mem # {} THEN mem ELSE IF reg # {} THEN reg ELSE Find(tab.anchors, ref.name)
TargetOf(tab, ref) == IF FieldOf(tab, ref) # {} THEN FieldOf(tab, ref) ELSE OtherOf(tab, ref)
RefOk(tab, ref) ==
    /\ TargetOf(tab, ref) # {}
    /\ \A d \in TargetOf(tab, ref) : ref.off \in {None, d.at}
    /\ \A f \in FieldOf(tab, ref) : ref.bits \in {<<>>, f.bits}
CellOk(tab, refs) == \A i \in DOMAIN refs : RefOk(tab, refs[i])
\* The first field of the cell, whose reset is compared.
FirstField(tab, refs) ==
    LET at == {i \in DOMAIN refs : FieldOf(tab, refs[i]) # {}}
    IN  IF at = {} THEN {} ELSE FieldOf(tab, refs[CHOOSE i \in at : \A j \in at : i <= j])

-----------------------------------------------------------------------------
(* CAPS and ENAB *)

Bits == 0 .. src.width - 1
LinesFor(bit) == {i \in DOMAIN src.caps : src.caps[i].bit = bit}
Mapped == {src.caps[i].bit : i \in DOMAIN src.caps}
NameOf(bit) == src.caps[CHOOSE i \in LinesFor(bit) : TRUE].name
SwitchesOf(bit) == src.caps[CHOOSE i \in LinesFor(bit) : TRUE].by
CapsOk ==
    /\ src.width = src.vendorWidth
    /\ Mapped = Bits
    /\ \A bit \in Mapped : Cardinality(LinesFor(bit)) = 1

TieOffs == {bit \in DOMAIN Expect : Expect[bit] = {}}
EnabLineOk(l) ==
    /\ l.bit \in Mapped => l.name = NameOf(l.bit)
    /\ l.bit \in DOMAIN Expect => l.from = Expect[l.bit]
    /\ (l.from = {}) = (l.bit \in TieOffs)
    /\ l.marked = (l.bit \in TieOffs)
EnabOk(tab) ==
    /\ \A i, j \in DOMAIN src.enab : i < j => src.enab[i].bit >= src.enab[j].bit
    /\ {src.enab[i].bit : i \in DOMAIN src.enab} = Bits
    /\ DOMAIN Expect = Bits
    /\ \A i \in DOMAIN src.enab : EnabLineOk(src.enab[i])
    /\ \A bit \in DOMAIN Expect : \A f \in Expect[bit] : Find(tab.fields, <<f>>) # {}

-----------------------------------------------------------------------------
(* The tables of the documentation *)

Switches == DOMAIN src.switches
Names == Switches \cup src.tokens
\* A table is found by its header, in the section where it belongs; a row with other
\* columns is reported, and so is the matrix when nothing closes it.
Framed(t, n) == src.page[t].header /\ src.page[t].widths \subseteq {n}
MatrixTable == Framed("matrix", 7) /\ src.page["matrix"].columns = 7 /\ src.page["matrix"].closed
Section == src.page["flags"].section
FlagTable == Framed("flags", 7) /\ src.page["flags"].columns = 7
EnhTable == Framed("enh", 4)

MatrixRowOk(tab, row) ==
    /\ row.build \subseteq Names
    /\ CellOk(tab, row.refs)
    /\ \A bit \in row.caps :
         /\ bit \in Mapped
         /\ SwitchesOf(bit) # {} => SwitchesOf(bit) \cap row.build # {}
         /\ Cardinality(row.caps) = 1 /\ SwitchesOf(bit) = {} => row.build \cap Switches = {}
Built == UNION {src.matrix[i].build : i \in DOMAIN src.matrix}
MatrixOk(tab) ==
    /\ MatrixTable
    /\ \A i \in DOMAIN src.matrix : MatrixRowOk(tab, src.matrix[i])
    /\ \A bit \in Mapped : SwitchesOf(bit) \subseteq Built
    /\ \A bit \in DOMAIN ParamCaps \cap Mapped : ParamCaps[bit] \in src.tokens => ParamCaps[bit] \in Built
ListOk == \A bit \in Mapped : bit \in DOMAIN src.list /\ src.list[bit] = NameOf(bit)

FlagRows(sw) == {i \in DOMAIN src.flags : src.flags[i].sw = sw}
FlagRowOk(tab, row) ==
    /\ row.sw \in Switches
    /\ row.full = src.switches[row.sw]
    /\ CellOk(tab, row.refs)
    /\ row.reset # None => IF row.refs = <<>> THEN TRUE
                           ELSE FirstField(tab, row.refs) # {} /\ \A f \in FirstField(tab, row.refs) : f.reset = row.reset
    /\ IF row.caps = None THEN \A bit \in Mapped : row.sw \notin SwitchesOf(bit)
       ELSE row.caps \in Mapped /\ row.sw \in SwitchesOf(row.caps)
\* Mutant of Covered: every row has its switch, but not every switch its row.
CoveredOneWay == \A i \in DOMAIN src.flags : Cardinality(FlagRows(src.flags[i].sw)) = 1
Covered == \A sw \in Switches \cup {src.flags[i].sw : i \in DOMAIN src.flags} : Cardinality(FlagRows(sw)) = 1
FlagsOk(tab) ==
    /\ Section /\ FlagTable
    /\ src.prose \subseteq Names
    /\ \A i \in DOMAIN src.flags : FlagRowOk(tab, src.flags[i])
    /\ Covered
    /\ \A bit \in Mapped :
         IF SwitchesOf(bit) = {} THEN bit \in DOMAIN ParamCaps /\ ParamCaps[bit] \in src.prose
         ELSE \E i \in DOMAIN src.flags : src.flags[i].caps = bit /\ src.flags[i].sw \in SwitchesOf(bit)

\* The field a row of the flags gives first.
Dotted(refs) == SelectSeq(refs, LAMBDA r : Len(r.name) > 1)
EnableOf(sw) ==
    UNION {IF Dotted(src.flags[i].refs) = <<>> THEN {} ELSE {Last(Dotted(src.flags[i].refs)[1].name)} : i \in FlagRows(sw)}
EnhOk(tab) ==
    EnhTable /\ \A i \in DOMAIN src.enh :
      LET row == src.enh[i]
      IN  row.sw \in Switches /\ Find(tab.fields, <<"Features", row.field>>) # {} /\ EnableOf(row.sw) \subseteq {row.field}

Accepts(tab) ==
    Switches # {} /\ tab.fields # <<>> /\ CapsOk /\ EnabOk(tab) /\ MatrixOk(tab) /\ ListOk /\ FlagsOk(tab) /\ EnhOk(tab)

-----------------------------------------------------------------------------
Init == src = Base /\ verdict = "none" /\ edits = 0
Edit == \E part \in DOMAIN Variants : \E v \in Variants[part] :
    /\ edits < MaxEdits /\ edits' = edits + 1
    /\ src[part] = Base[part] /\ src' = [src EXCEPT ![part] = v]
    /\ verdict' = "none"
Gate ==
    /\ verdict = "none"
    /\ \E tab \in {Tables(src.rdl)} : verdict' = IF Accepts(tab) THEN "ok" ELSE "failed"
    /\ UNCHANGED <<src, edits>>
Next == Edit \/ Gate
Spec == Init /\ [][Next]_vars

-----------------------------------------------------------------------------
(* What the sources are, by definition *)

\* What stands in a string or a comment is not said: a mark before it, itself said,
\* that nothing has closed.
Said(rdl) ==
    LET dead[i \in DOMAIN rdl] ==
            \E k \in 1 .. i - 1 : /\ rdl[k].t \in DOMAIN Closer /\ ~dead[k]
                                 /\ \A j \in k + 1 .. i - 1 : rdl[j].t # Closer[rdl[k].t]
        said == {i \in DOMAIN rdl : rdl[i].t \notin DOMAIN Closer /\ ~dead[i]}
    IN  [n \in 1 .. Cardinality(said) |-> rdl[CHOOSE i \in said : Cardinality({j \in said : j <= i}) = n]]
\* A statement counts unless a conditional around it says otherwise; conditionals
\* and scopes are found by counting brackets.
Level(rdl, i, up, down) ==
    Cardinality({k \in 1 .. i - 1 : rdl[k].t \in up}) - Cardinality({k \in 1 .. i - 1 : rdl[k].t \in down})
Ifs == {"ifdef", "ifndef"}
Around(rdl, i, up, down) ==
    {k \in 1 .. i - 1 : rdl[k].t \in up /\ \A j \in k + 1 .. i : Level(rdl, j, up, down) > Level(rdl, k, up, down)}
Elses(rdl, k, i) ==
    {j \in k + 1 .. i - 1 : rdl[j].t = "else" /\ Level(rdl, j, Ifs, {"endif"}) = Level(rdl, k, Ifs, {"endif"}) + 1}
Counts(rdl, i) ==
    \A k \in Around(rdl, i, Ifs, {"endif"}) : (rdl[k].t = "ifndef") = (Elses(rdl, k, i) = {})
\* The name of a scope follows its end.
NameAfter(rdl, k) ==
    CHOOSE j \in k + 1 .. Len(rdl) :
      /\ rdl[j].t = "name" /\ rdl[j - 1].t = "close" /\ Level(rdl, j, {"open"}, {"close"}) = Level(rdl, k, {"open"}, {"close"})
      /\ \A m \in k + 1 .. j - 1 : rdl[m].t = "name" => Level(rdl, m, {"open"}, {"close"}) > Level(rdl, k, {"open"}, {"close"})
Fields(rdl) ==
    LET live == {k \in DOMAIN rdl : rdl[k].t = "open" /\ rdl[k].kind = "field" /\ Counts(rdl, k)}
        scopes(k) == Around(rdl, k, {"open"}, {"close"})
        names(k) == {NameAfter(rdl, s) : s \in scopes(k)}
        name(k) == NameAfter(rdl, k)
    IN  {[at |-> rdl[CHOOSE j \in names(k) : \A m \in names(k) : j <= m].at,
          path |-> SetToSortSeq(names(k), LAMBDA a, b : a > b) \o <<name(k)>>, bits |-> rdl[name(k)].bits,
          reset |-> rdl[name(k)].reset] : k \in live}
TrueFields == LET rdl == Said(src.rdl)
                  Named(f) == [f EXCEPT !.path = [i \in DOMAIN f.path |-> rdl[f.path[i]].name]]
              IN  {Named(f) : f \in Fields(rdl)}
Means(ref) == {f \in TrueFields : IsSuffix(ref.name, f.path)}

\* Who looks up a switch finds one row, with its default; the field the row names
\* is in the registers, where and with what reset it says; and the row's CAPS bit
\* is the one the switch drives.
FlagsAreTrue ==
    \A sw \in Switches :
      /\ Cardinality(FlagRows(sw)) = 1
      /\ \A i \in FlagRows(sw) :
           LET row == src.flags[i]
           IN  /\ row.full = src.switches[sw]
               /\ \A j \in DOMAIN row.refs : LET r == row.refs[j] IN
                    Means(r) # {} => \E f \in Means(r) : r.off \in {None, f.at} /\ r.bits \in {<<>>, f.bits}
               /\ row.reset # None /\ row.refs # <<>> =>
                    \E j \in DOMAIN row.refs : \E f \in Means(row.refs[j]) : f.reset = row.reset
               /\ (row.caps = None) = (\A l \in ElementsOf(src.caps) : sw \notin l.by)
\* Who reads a CAPS bit finds its name in the message's list and a switch in the
\* matrix, and the enable of the same position in ENAB is that feature's.
BitsAreTrue ==
    \A bit \in Bits : \E l \in ElementsOf(src.caps) :
      /\ l.bit = bit /\ src.list[bit] = l.name /\ l.by \subseteq Built
      /\ \A i \in DOMAIN src.enab : src.enab[i].bit = bit => src.enab[i].name = l.name /\ src.enab[i].from = Expect[bit]
      /\ \A f \in Expect[bit] : \E g \in TrueFields : Last(g.path) = f
\* The suite's enables are the fields the flags name.
SuiteIsTrue ==
    \A row \in ElementsOf(src.enh) :
      /\ \E f \in TrueFields : f.path[Len(f.path)] = row.field /\ \E i \in DOMAIN f.path : f.path[i] = "Features"
      /\ \A i \in FlagRows(row.sw) : \A j \in DOMAIN Dotted(src.flags[i].refs) :
           j = 1 => Last(Dotted(src.flags[i].refs)[j].name) = row.field

\* What the gate lets pass is true, and it lets pass what nobody touched.
AcceptedIsTrue ==
    /\ verdict = "ok" => FlagsAreTrue /\ BitsAreTrue /\ SuiteIsTrue
    /\ edits = 0 => verdict \in {"none", "ok"}

\* "concatenation order is MSB-first with no gap/duplicate": the line of a bit
\* stands at its position.  A line that is there twice passes.
PackedInPlace ==
    verdict = "ok" => Len(src.enab) = src.width /\ \A i \in DOMAIN src.enab : src.enab[i].bit = src.width - i
\* The field a row gives for a switch is the one its CAPS bit is enabled by: no
\* check compares the two.
FieldIsSource ==
    verdict = "ok" => \A sw \in Switches : \A i \in FlagRows(sw) :
      src.flags[i].caps # None /\ Expect[src.flags[i].caps] # {} => EnableOf(sw) \subseteq Expect[src.flags[i].caps]
=============================================================================
