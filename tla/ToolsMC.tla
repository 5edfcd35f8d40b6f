------------------------------ MODULE ToolsMC ------------------------------
(***************************************************************************)
(* The host tools, each checked alone in one run: a behaviour is about one *)
(* tool; Etrace has its own variables, the others take x1 to x13 in turn,  *)
(* and the rest stays 0.                                                   *)
(***************************************************************************)
EXTENDS Etrace, TLC

VARIABLES tool, x1, x2, x3, x4, x5, x6, x7, x8, x9, x10, x11, x12, x13

-----------------------------------------------------------------------------
(* The tools and their bounds *)

\* Calls two deep, a function reached by a jump into its middle, a long jump out
\* of all of them, and a trap handler.
Calls == 0 :> [op |-> "call", to |-> 4] @@ 1 :> [op |-> "jump", to |-> 0]
      @@ 2 :> [op |-> "call", to |-> 7] @@ 3 :> [op |-> "mret", to |-> 0]
      @@ 4 :> [op |-> "br", to |-> 6]   @@ 5 :> [op |-> "call", to |-> 4]
      @@ 6 :> [op |-> "br", to |-> 8]   @@ 7 :> [op |-> "ret", to |-> 0]
      @@ 8 :> [op |-> "longjmp", to |-> 0]
Depth == INSTANCE CallDepth WITH
  Prog <- Calls, Entries <- {0, 2, 4, 7}, Handler <- 2, UnwindSearch <- 2, StackLimit <- 3,
  MaxRun <- 9, MaxDeep <- 4,
  LastSize <- 3, MaxFuncSize <- 2, Regions <- << <<2, 4>>, <<0, 7>> >>, TopPrefixes <- 1, MaxListed <- 2,
  PrefixOf <- [f \in {0, 2, 4, 7} |-> IF f = 2 THEN "sbi" ELSE IF f = 4 THEN "fdt" ELSE "main"],
  pc <- x1, real <- x2, epc <- x3, open <- x4, at <- x5, low <- x6, prev <- x7, stack <- x8,
  lost <- x9, perFunc <- x10, ran <- x11

Board == INSTANCE WpBoard WITH
  NSlots <- 4, ProbeSlots <- {0, 2, 3}, MaxToggles <- 2, MaxPeeks <- 2,
  enable <- x1, idx <- x2, lo <- x3, mem <- x4, src <- x5, tsType <- x6, cores <- x7, ram <- x8,
  pc <- x9, toggled <- x10, toggles <- x11, peeks <- x12

\* A walk that comes to one address twice.
WalkedTwice == <<2, 4, 2, 6>>
Checks == INSTANCE WpChecks WITH
  Expected <- WalkedTwice, Others <- {8}, TsMod <- 8, Gaps <- {1, 3}, Starts <- {4}, Tolerance <- 2,
  stream <- x1, tail <- x2, drops <- x3, at <- x4, now <- x5, fault <- x6

Oracle == INSTANCE WalkOracle WITH
  NumFuncs <- 3, NumPhases <- 2, PhaseLen <- {2}, Sizes <- {1, 3}, Targets <- {4, 9}, NSlots <- 8,
  MaxIrqs <- 1, MaxSpins <- 1,
  phases <- x1, size <- x2, target <- x3, wp <- x4, oracle <- x5, table <- x6, stage <- x7,
  core <- x8, irq <- x9, hits <- x10, count <- x11, irqs <- x12, spins <- x13

\* Inferable and uninferable calls and jumps, a return, branches over and into
\* them, and a handler; the runtime enables in three combinations.
I(op, to) == [op |-> op, to |-> to]
TracedCode == 0 :> I("OP", 0)    @@ 1 :> I("BRANCH", 5) @@ 2 :> I("CALL", 5)   @@ 3 :> I("UCALL", 0)
       @@ 4 :> I("UJUMP", 0) @@ 5 :> I("OP", 0)     @@ 6 :> I("RETURN", 0) @@ 7 :> I("BRANCH", 9)
       @@ 8 :> I("OP", 0)    @@ 9 :> I("MRET", 0)
Enables == {[ir |-> FALSE, jtc |-> FALSE, bp |-> FALSE], [ir |-> TRUE, jtc |-> TRUE, bp |-> FALSE],
            [ir |-> TRUE, jtc |-> FALSE, bp |-> TRUE]}
Demo == INSTANCE PrefixWindows WITH
  Windows <- 2, Lengths <- {2, 3}, MaxBytes <- 9, capture <- x1, job <- x2

\* One or two entries under every kind of key, with every kind of value.
Str(p) == [t |-> "str", s |-> p]
List(l) == [t |-> "list", l |-> l]
Dict(d) == [t |-> "dict", d |-> d]
Scalars == {Str(s) : s \in {"ok", "old", "ref", "bad", "path", "hex"}} \cup {[t |-> "num", n |-> 7]}
Lists == {List(<<a, b>>) : a, b \in Scalars}
Inner == {Dict([k \in {x} |-> a]) : x \in {"text", "x.bin"}, a \in Scalars}
Keys == {"data", "console", "_note", "files", "pcinfo", "build", "rtl/x.sv", "secret"}
Trees == {Dict("core" :> Str(c) @@ k :> v) : c \in {"ref", "ok"}, k \in Keys, v \in Scalars \cup Lists \cup Inner}
         \cup {Dict("core" :> Str("ref") @@ k :> v @@ "list" :> w) : k \in Keys, v \in Scalars \cup Inner, w \in Lists}
OnTheList == (Keys \ {"secret"}) \cup {"core", "list"}
Export == INSTANCE PublicExport WITH
  Recordings <- Trees, Allowed <- OnTheList, rec <- x1, page <- x2, job <- x3, out <- x4

Strip == INSTANCE CommentStrip WITH
  MaxTokens <- 5, Puzzles <- {},
  src <- x1, comments <- x2, nest <- x3, operand <- x4, last <- x5, tokens <- x6

\* Three switches, one of them behind no CAPS bit, and a bit driven by a
\* parameter; the register of the features, in the slim profile another one, and a
\* second field of the same name; a hidden type and a memory; marks of comments in a
\* string and in a comment.
Stmt(t) == <<[t |-> t]>>
Scope(kind, of, name) == <<[t |-> "open", kind |-> kind]>> \o of \o <<[t |-> "close"], name>>
Named(n, bits, reset, at) == [t |-> "name", name |-> n, bits |-> bits, reset |-> reset, at |-> at]
FieldIn(n, bits, reset) == Scope("field", <<>>, Named(n, bits, reset, -1))
RegIn(n, at, fields) == Scope("reg", fields, Named(n, <<>>, 0, at))
Remark(of) == Stmt("quote") \o Stmt("line") \o Stmt("block") \o Stmt("quote") \o Stmt("block") \o Stmt("line") \o of \o Stmt("end")
Features(if, at, reset) ==
    Stmt(if) \o RegIn("Features", at, FieldIn("EnA", <<0, 0>>, reset) \o FieldIn("EnB", <<2, 1>>, 0))
    \o Stmt("else") \o RegIn("Features", 64, FieldIn("EnA", <<3, 3>>, 1)) \o Stmt("endif")
Rdl(features) ==
    Scope("addrmap",
          Remark(Stmt("quote") \o FieldIn("EnA", <<4, 4>>, 1)) \o features \o Stmt("line") \o Stmt("else") \o Stmt("newline")
          \o RegIn("Control", 0, FieldIn("EnA", <<5, 5>>, 1) \o FieldIn("Run", <<0, 0>>, 0))
          \o RegIn("Cmd", 12, FieldIn("Op", <<1, 0>>, 0))
          \o <<[t |-> "hide", name |-> "Cmd"], [t |-> "mem", name |-> "points", at |-> 256]>>,
          Named("cpuif", <<>>, 0, 0))
RefTo(n, off, bits) == [name |-> n, off |-> off, bits |-> bits]
EnA == RefTo(<<"Features", "EnA">>, 8, <<0, 0>>)
EnB == RefTo(<<"Features", "EnB">>, 8, <<2, 1>>)
CapsLine(bit, name, by) == [bit |-> bit, name |-> name, by |-> by]
EnabLine(bit, name, from) == [bit |-> bit, name |-> name, from |-> from, marked |-> from = {}]
FlagRow(sw, refs, reset, full, caps) == [sw |-> sw, refs |-> refs, reset |-> reset, full |-> full, caps |-> caps]
MatrixRow(build, refs, caps) == [build |-> build, refs |-> refs, caps |-> caps]
FlagA == FlagRow("A", <<EnA>>, 0, 1, 0)
FlagB == FlagRow("B", <<EnB, RefTo(<<"Control", "Run">>, 0, <<>>)>>, 0, 0, 1)
FlagC == FlagRow("C", <<>>, -1, 1, -1)
\* A row of one cell less, no header or one of six columns, no end, the table outside
\* its section.
Frame(n) == [header |-> TRUE, columns |-> n, widths |-> {n}, closed |-> TRUE, section |-> TRUE]
Page == [matrix |-> Frame(7), flags |-> Frame(7), enh |-> Frame(4)]
PageEdits ==
    {[Page EXCEPT ![t].header = FALSE] : t \in DOMAIN Page}
    \cup {[Page EXCEPT ![t].widths = @ \cup {w - 1 : w \in @}] : t \in DOMAIN Page}
    \cup {[Page EXCEPT ![t].columns = @ - 1] : t \in DOMAIN Page}
    \cup {[Page EXCEPT !.matrix.closed = FALSE], [Page EXCEPT !.flags.section = FALSE]}
Sources ==
    [switches |-> "A" :> 1 @@ "B" :> 0 @@ "C" :> 1, tokens |-> {"P", "ANY"}, width |-> 3, vendorWidth |-> 3,
     caps |-> <<CapsLine(0, "FA", {"A"}), CapsLine(1, "FB", {"B"}), CapsLine(2, "FP", {})>>,
     enab |-> <<EnabLine(2, "FP", {}), EnabLine(1, "FB", {"EnB"}), EnabLine(0, "FA", {"EnA"})>>,
     rdl |-> Rdl(Features("ifndef", 8, 0)), page |-> Page,
     matrix |-> <<MatrixRow({"A", "B"}, <<EnA, RefTo(<<"points">>, 256, <<>>), RefTo(<<"Cmd">>, 12, <<>>)>>, {0, 1}),
                  MatrixRow({"P"}, <<>>, {2})>>,
     list |-> 0 :> "FA" @@ 1 :> "FB" @@ 2 :> "FP",
     flags |-> <<FlagA, FlagB, FlagC>>, prose |-> {"A", "B", "C", "P"}, enh |-> <<[sw |-> "A", field |-> "EnA"]>>]

\* What an edit may make of each part.
SwitchEdits == {[Sources.switches EXCEPT !["A"] = 0], [Sources.switches EXCEPT !["C"] = 0],
                Sources.switches @@ ("N" :> 1), "A" :> 1 @@ "C" :> 1}
CapsEdits ==
    LET c == Sources.caps
    IN  {[c EXCEPT ![1].name = "FX"], [c EXCEPT ![1].bit = 1], [c EXCEPT ![1].bit = 1, ![2].bit = 0],
         [c EXCEPT ![2].by = {"A"}], [c EXCEPT ![2].by = {}], [c EXCEPT ![3].by = {"C"}],
         Append(c, CapsLine(3, "FN", {"C"})), Append(c, c[1]), <<c[1], c[3]>>}
        \cup {[c EXCEPT ![1].by = by] : by \in {{"C"}, {"A", "B"}}}
EnabEdits ==
    LET e == Sources.enab
    IN  {[e EXCEPT ![3].name = "FX"], [e EXCEPT ![3].from = {"EnB"}], [e EXCEPT ![3].marked = TRUE],
         [e EXCEPT ![3] = EnabLine(0, "FA", {})], [e EXCEPT ![1] = EnabLine(2, "FP", {"Run"})],
         [e EXCEPT ![3].bit = 1, ![2].bit = 0], <<e[2], e[1], e[3]>>, <<e[1], e[3]>>, Append(e, e[3])}
MatrixEdits ==
    LET m == Sources.matrix
    IN  {[m EXCEPT ![1].build = {"A"}], [m EXCEPT ![1].refs[1].off = 4],
         [m EXCEPT ![1].refs[2].name = <<"gone">>], [m EXCEPT ![1].caps = {0, 1, 2}],
         [m EXCEPT ![2].build = {"Q"}], [m EXCEPT ![2].caps = {0}], <<m[1]>>}
FlagEdits ==
    {<<FlagA, FlagB>>, <<FlagA, FlagB, FlagC, FlagA>>, <<FlagB, FlagA, FlagC>>}
    \cup {<<f, FlagB, FlagC>> : f \in
            {[FlagA EXCEPT !.full = 0], [FlagA EXCEPT !.reset = 1], [FlagA EXCEPT !.sw = "N"]}
            \cup {[FlagA EXCEPT !.caps = c] : c \in {1, -1}}
            \cup {[FlagA EXCEPT !.refs = <<r>>] : r \in {EnB, [EnA EXCEPT !.off = 16], [EnA EXCEPT !.bits = <<3, 3>>],
                    [EnA EXCEPT !.name = EnB.name], [EnA EXCEPT !.name = <<"Features", "Gone">>]}}
            \cup {[FlagA EXCEPT !.refs = <<RefTo(<<"Control", "EnA">>, 0, <<5, 5>>)>>, !.reset = 1]}}
    \cup {<<FlagA, FlagB, f>> : f \in {[FlagC EXCEPT !.full = 0], [FlagC EXCEPT !.caps = 2]}}
SourceEdits ==
    [switches |-> SwitchEdits, tokens |-> {{"ANY"}}, width |-> {2, 4}, vendorWidth |-> {2, 4}, caps |-> CapsEdits,
     enab |-> EnabEdits, rdl |-> {Rdl(Features("ifdef", 8, 0)), Rdl(Features("ifndef", 16, 0)), Rdl(Features("ifndef", 8, 1)),
              Rdl(Remark(Features("ifndef", 8, 0)))},
     page |-> PageEdits, matrix |-> MatrixEdits, flags |-> FlagEdits, prose |-> {{"A", "B", "C"}, {"A", "B", "C", "P", "Q"}},
     list |-> {[Sources.list EXCEPT ![0] = "FX"], [Sources.list EXCEPT ![0] = "FB", ![1] = "FA"], 0 :> "FA" @@ 1 :> "FB"},
     enh |-> {<<[sw |-> s, field |-> f]>> : s \in {"A", "B", "N"}, f \in {"EnA", "EnB", "Run"}} \ {Sources.enh}]
Flags == INSTANCE FeatureGate WITH
  Base <- Sources, Variants <- SourceEdits, Expect <- (0 :> {"EnA"} @@ 1 :> {"EnB"} @@ 2 :> {}), ParamCaps <- (2 :> "P"),
  MaxEdits <- 2,
  src <- x1, verdict <- x2, edits <- x3

\* Registers with fields of every kind, an array of three, a type; memories of
\* one and of two words.
RegField(n, lsb, msb, sw, sticky) == [n |-> n, lsb |-> lsb, msb |-> msb, sw |-> sw, sticky |-> sticky]
RegAt(path, at, hidden, fields) == [path |-> path, at |-> at, hidden |-> hidden, fields |-> fields]
ControlFields == <<RegField("Enable", 0, 0, "rw", FALSE), RegField("Overflow", 1, 1, "rw", TRUE),
                   RegField("Mode", 2, 3, "rw", FALSE), RegField("Req", 4, 4, "w", FALSE)>>
ValueField == <<RegField("Value", 0, 1, "rw", FALSE)>>
Designs ==
    {[regs |-> <<RegAt(<<"te", "Control">>, 0, FALSE, ControlFields), RegAt(<<"Cmd">>, 0, TRUE, ValueField)>>
               \o [i \in 1 .. 3 |-> RegAt(<<"te", "Filter", "Match">>, 8 + 8 * i, FALSE, ValueField)], mems |-> {}],
     [regs |-> <<>>, mems |-> {[n |-> "Wide", at |-> 64, width |-> 64, entries |-> 2, sw |-> "rw"],
                               [n |-> "Write", at |-> 128, width |-> 32, entries |-> 2, sw |-> "w"]}]}
Helper == INSTANCE RegHelper WITH
  Designs <- Designs, WordBits <- 32, Values <- {{}, {0}, {1}, {0, 1}, {0, 32}}, MaxCalls <- 3, MaxSets <- 2,
  design <- x1, registers <- x2, memories <- x3, types <- x4, word <- x5, mem <- x6, task <- x7, calls <- x8, sets <- x9

\* One and two cores with and without a block for the ingress, three as the trio;
\* both protocols, each chain below the rows, one to three sinks.
Core(ingress, block) == [ingress |-> ingress, block |-> block]
Shim == Core("shim", "unset")
H2E == Core("H2E->TIP", "unset")
Views == [cores : {<<Shim>>, <<Shim, H2E>>}, etrace : BOOLEAN, tap : {"", "axis", "axis_wp"}, sinks : {{"uram", "ddr", "pib"}}]
         \cup [cores : {<<Shim, H2E, Shim>>, <<Core("H2E->TIP", "yes"), Shim>>}, etrace : {TRUE}, tap : {"axis"},
               sinks : {{}, {"ddr", "uram"}}]
View == INSTANCE ArchView WITH
  Scenarios <- Views, Touched <- {"tip"}, MaxEdits <- 2,
  sc <- x1, file <- x2, shadow <- x3, measured <- x4, page <- x5, edits <- x6

-----------------------------------------------------------------------------
EtraceZero ==
  /\ opts = 0 /\ hart = 0 /\ active = 0 /\ anchor = 0 /\ icnt = 0 /\ stack = 0 /\ prev = 0 /\ episode = 0
  /\ gen = 0 /\ dec = 0 /\ owed = 0 /\ lost = 0 /\ ahead = 0 /\ events = 0 /\ bad = 0
From13Zero == x13 = 0
From12Zero == x12 = 0 /\ From13Zero
From10Zero == x10 = 0 /\ x11 = 0 /\ From12Zero
From7Zero == x7 = 0 /\ x8 = 0 /\ x9 = 0 /\ From10Zero
From5Zero == x5 = 0 /\ x6 = 0 /\ From7Zero
From4Zero == x4 = 0 /\ From5Zero
From3Zero == x3 = 0 /\ From4Zero
XZero == x1 = 0 /\ x2 = 0 /\ From3Zero

InitAll ==
  \/ tool = "etrace" /\ Init /\ XZero
  \/ tool = "depth" /\ Depth!Init /\ EtraceZero /\ From12Zero
  \/ tool = "board" /\ Board!Init /\ EtraceZero /\ From13Zero
  \/ tool = "checks" /\ Checks!Init /\ EtraceZero /\ From7Zero
  \/ tool = "oracle" /\ Oracle!Init /\ EtraceZero
  \/ tool = "demo" /\ Demo!Init /\ EtraceZero /\ From3Zero
  \/ tool = "export" /\ Export!Init /\ EtraceZero /\ From5Zero
  \/ tool = "strip" /\ Strip!Init /\ EtraceZero /\ From7Zero
  \/ tool = "flags" /\ Flags!Init /\ EtraceZero /\ From4Zero
  \/ tool = "helper" /\ Helper!Init /\ EtraceZero /\ From10Zero
  \/ tool = "view" /\ View!Init /\ EtraceZero /\ From7Zero

From13 == <<x13>>
From12 == <<x12, From13>>
From10 == <<x10, x11, From12>>
From7 == <<x7, x8, x9, From10>>
From5 == <<x5, x6, From7>>
From4 == <<x4, From5>>
From3 == <<x3, From4>>
X == <<x1, x2, From3>>

NextAll ==
  /\ UNCHANGED tool
  /\ \/ tool = "etrace" /\ Next /\ UNCHANGED X
     \/ tool = "depth" /\ Depth!Next /\ UNCHANGED <<vars, From12>>
     \/ tool = "board" /\ Board!Next /\ UNCHANGED <<vars, From13>>
     \/ tool = "checks" /\ Checks!Next /\ UNCHANGED <<vars, From7>>
     \/ tool = "oracle" /\ Oracle!Next /\ UNCHANGED vars
     \/ tool = "demo" /\ Demo!Next /\ UNCHANGED <<vars, From3>>
     \/ tool = "export" /\ Export!Next /\ UNCHANGED <<vars, From5>>
     \/ tool = "strip" /\ Strip!Next /\ UNCHANGED <<vars, From7>>
     \/ tool = "flags" /\ Flags!Next /\ UNCHANGED <<vars, From4>>
     \/ tool = "helper" /\ Helper!Next /\ UNCHANGED <<vars, From10>>
     \/ tool = "view" /\ View!Next /\ UNCHANGED <<vars, From7>>
SpecAll == InitAll /\ [][NextAll]_<<vars, tool, X>>

-----------------------------------------------------------------------------
\* The call depth shown is the height of the core's stack as far as the window
\* can know it, and the coverage map withholds nothing of what ran.
AnalysisIsTrue == tool = "depth" => Depth!DepthIsHeight /\ Depth!MapIsWhole

\* A watchpoint table reported as loaded and proved is in the encoders; records
\* that pass the checks are the walk, in its order, and merge in the order of time;
\* what the tools predict of a generated program is what the core does, and the set
\* of watchpoints does not depend on the choices of a run.
WatchpointEvidence ==
  /\ tool = "board" => Board!LoadIsEvidence
  /\ tool = "checks" => Checks!SequenceExact /\ Checks!MergeInTrueOrder /\ Checks!GateProvesWalk
  /\ tool = "oracle" => Oracle!OracleIsExecution /\ Oracle!SetIsDeterministic

\* The E-Trace decoder names the instructions the hart retired, all of them and in
\* order.
NamesAll == tool = "etrace" => Exact

\* What is shown in public is what was recorded: the windows of the demo page show
\* the capture, and the prefix they cut decodes; a public bundle carries no marker,
\* loses no payload and is written as a whole; the public page has no comment left
\* and nothing else is gone.
RecordingsAreTrue ==
  /\ tool = "demo" => Demo!WindowsShowCapture /\ Demo!CleanDecodes
  /\ tool = "export" => Export!ExportIsClean
  /\ tool = "strip" => Strip!StripsComments

\* What the gate of the feature flags lets pass is true of the sources.
AcceptedIsTrue == tool = "flags" => Flags!AcceptedIsTrue

\* What is generated is what it was generated from: a task of the register helper
\* changes the field or the entry it names and nothing else, and the dashboard shows
\* the architecture that was drawn.
GeneratedIsTrue ==
  /\ tool = "helper" => Helper!TasksAreLocal
  /\ tool = "view" => View!ViewIsDrawing
=============================================================================
