----------------------------- MODULE WalkOracle -----------------------------
(***************************************************************************)
(* The demo walk and its oracle: gen_program.py lays out leaf functions    *)
(* and phase runners, gen_wp_set.py picks watchpoint addresses from the    *)
(* disassembly, check_consistency.py derives the expected hits and         *)
(* wp_gen.py the slot table; then the core runs the walk, interrupted by   *)
(* the pacer wherever it likes, and the encoder reports what the table     *)
(* says.  Names are what the generators match on: leaves and runners.      *)
(***************************************************************************)
EXTENDS Integers, Sequences, FiniteSets, SequencesExt

CONSTANTS
    NumFuncs, NumPhases,    \* NUM_FUNCS, NUM_PHASES
    PhaseLen,               \* PHASE_LEN_MIN .. PHASE_LEN_MAX
    Sizes,                  \* instructions a leaf may have
    Targets,                \* --target
    NSlots,                 \* N_SLOTS of wp_gen.py
    MaxIrqs,                \* bound: pacer interrupts
    MaxSpins                \* bound: turns of the wait loop of main

Leaves == 1 .. NumFuncs
Phases == 1 .. NumPhases

VARIABLES
    phases,     \* build_phases: the leaves each phase calls
    size,       \* instructions of each leaf
    target,     \* --target
    wp,         \* wp_set.txt
    oracle,     \* expected_hits.txt
    table,      \* wp_table.txt, the addresses
    stage,      \* what has been made: program, set, hits, table, or "failed"
    core,       \* where the core is: [phase, call, in, i]
    irq,        \* it is in the trap handler
    hits,       \* the addresses reported so far
    count,      \* how often each address was executed
    irqs, spins
made == <<phases, size, target, wp, oracle, table, stage>>
vars == <<made, core, irq, hits, count, irqs, spins>>

\* build_phases, for every seed: the leaves are dealt round-robin, so each
\* appears; the phases are padded to their length and shuffled.
BuildPhases ==
    {p \in [Phases -> UNION {[1 .. n -> Leaves] : n \in PhaseLen}] :
        \E deal \in [Leaves -> Phases] :
            /\ \A f \in Leaves : \E i \in DOMAIN p[deal[f]] : p[deal[f]][i] = f
            /\ \A q \in Phases : Cardinality({f \in Leaves : deal[f] = q}) \in
                 {NumFuncs \div NumPhases, (NumFuncs + NumPhases - 1) \div NumPhases}}

-----------------------------------------------------------------------------
(* The disassembly: main, then the leaves, the runners, the trap handler. *)

MainAt == 0                     \* the wait loop
Total(S) == FoldSet(LAMBDA f, n : n + size[f], 0, S)
LeafAt(f) == 8 + 4 * Total({g \in Leaves : g < f})
\* A runner: its entry, one call per leaf, its return.
RunnerAt(p) == 8 + 4 * (Total(Leaves) +
                        FoldSet(LAMBDA q, n : n + Len(phases[q]) + 2, 0, {q \in Phases : q < p}))
CallAt(p, i) == RunnerAt(p) + 4 * i
HandlerAt == RunnerAt(NumPhases) + 4 * (Len(phases[NumPhases]) + 2)

-----------------------------------------------------------------------------
(* gen_wp_set.py. *)

Entries == [f \in Leaves |-> LeafAt(f)] \o [p \in Phases |-> RunnerAt(p)]
\* The leaves that have an instruction i behind their entry.
Body(i) == [k \in 1 .. Cardinality({f \in Leaves : size[f] > i}) |->
               LeafAt(CHOOSE f \in Leaves : size[f] > i /\ Cardinality({g \in Leaves : g < f /\ size[g] > i}) = k - 1) + 4 * i]
Calls == FlattenSeq([p \in Phases |-> [i \in DOMAIN phases[p] |-> CallAt(p, i)]])
\* Every step-th call site, so that the rest of the quota covers all runners.
Strided == LET quota == target - Len(Entries) - Len(Body(1))
               step == IF quota > 0 /\ Len(Calls) \div quota > 1 THEN Len(Calls) \div quota ELSE 1
           IN  IF quota <= 0 THEN <<>>
               ELSE [k \in 1 .. (Len(Calls) + step - 1) \div step |-> Calls[(k - 1) * step + 1]]
\* Mutant: the whole text is on the list, the handler included.
PicksAll == <<HandlerAt>> \o Entries \o Body(1) \o Strided \o Body(2)
\* The candidates in their order of priority, the deeper body addresses last.
Picks == Entries \o Body(1) \o Strided \o Body(2)
\* The set is written, or none when the candidates do not suffice.
GenWpSet ==
    /\ stage = "program"
    /\ LET picks == Picks
       IN  IF Len(picks) >= target
           THEN wp' = {picks[i] : i \in 1 .. target} /\ stage' = "set"
           ELSE stage' = "failed" /\ UNCHANGED wp
    /\ UNCHANGED <<phases, size, target, oracle, table, core, irq, hits, count, irqs, spins>>

-----------------------------------------------------------------------------
(* check_consistency.py and wp_gen.py. *)

\* Mutant: the runner after the leaves it calls.
WalkRunnerLast(p) == [i \in DOMAIN phases[p] |-> LeafAt(phases[p][i])] \o <<RunnerAt(p)>>
\* expected_walk.txt: the runner, then its leaves in the order of the calls.
Walk(p) == <<RunnerAt(p)>> \o [i \in DOMAIN phases[p] |-> LeafAt(phases[p][i])]
\* expected_hits.txt: the entries of the walk that are in the set.
CheckConsistency ==
    /\ stage = "set" /\ stage' = "hits"
    /\ oracle' = SelectSeq(FlattenSeq([p \in Phases |-> Walk(p)]), LAMBDA a : a \in wp)
    /\ UNCHANGED <<phases, size, target, wp, table, core, irq, hits, count, irqs, spins>>

\* Mutant: the fillers are even.
FillerEven(maxa, j) == (maxa \div 4) * 4 + 4 + 4 * j
\* An odd address above all others, which no pc equals.
Filler(maxa, j) == (maxa \div 4) * 4 + 5 + 2 * j
\* wp_table.txt: the distinct hits ascending, then fillers up to the last slot.
WpGen ==
    /\ stage = "hits"
    /\ LET real == SetToSortSeq(ToSet(oracle), LAMBDA a, b : a < b)
       IN  IF Len(real) = 0 \/ Len(real) > NSlots - 2 THEN stage' = "failed" /\ UNCHANGED table
           ELSE /\ table' = real \o [j \in 1 .. NSlots - Len(real) |-> Filler(Last(real), j - 1)]
                /\ stage' = "table"
    /\ UNCHANGED <<phases, size, target, wp, oracle, core, irq, hits, count, irqs, spins>>
\* The encoder: cmd_word reports on an even address only.
Reports(a) == a % 2 = 0 /\ \E i \in DOMAIN table : table[i] = a

-----------------------------------------------------------------------------
(* The run. *)

Init ==
    /\ phases \in BuildPhases /\ size \in [Leaves -> Sizes] /\ target \in Targets
    /\ wp = {} /\ oracle = <<>> /\ table = <<>> /\ stage = "program"
    /\ core = [phase |-> 0, call |-> 0, in |-> FALSE, i |-> 0]
    /\ irq = FALSE /\ hits = <<>> /\ count = [a \in {} |-> 0]
    /\ irqs = 0 /\ spins = 0

\* The address the core executes; phase 0 is the wait loop of main.
Pc == IF irq THEN HandlerAt
      ELSE IF core.phase = 0 THEN MainAt
      ELSE IF core.in THEN LeafAt(phases[core.phase][core.call]) + 4 * core.i
      ELSE RunnerAt(core.phase) + 4 * core.call

Execute ==
    /\ stage = "table"
    /\ hits' = (IF Reports(Pc) THEN Append(hits, Pc) ELSE hits)
    /\ count' = [a \in DOMAIN count \cup {Pc} |->
                    (IF a \in DOMAIN count THEN count[a] ELSE 0) + (IF a = Pc THEN 1 ELSE 0)]
    /\ UNCHANGED made

Finished == core.phase > NumPhases

\* The pacer interrupts between any two instructions; its handler returns.
Interrupt ==
    /\ stage = "table" /\ ~irq /\ ~Finished /\ irqs < MaxIrqs
    /\ irq' = TRUE /\ irqs' = irqs + 1
    /\ UNCHANGED <<made, core, hits, count, spins>>
Handle == irq /\ Execute /\ irq' = FALSE /\ UNCHANGED <<core, irqs, spins>>

\* main waits for the tick and then runs the phases.
Spin ==
    /\ ~irq /\ core.phase = 0 /\ Execute
    /\ \/ spins < MaxSpins /\ spins' = spins + 1 /\ UNCHANGED core
       \/ core' = [core EXCEPT !.phase = 1] /\ UNCHANGED spins
    /\ UNCHANGED <<irq, irqs>>
\* The runner: entry, calls, return.
RunPhase ==
    /\ ~irq /\ core.phase \in Phases /\ ~core.in /\ Execute
    /\ core' = IF core.call = 0 THEN [core EXCEPT !.call = 1]
               ELSE IF core.call <= Len(phases[core.phase]) THEN [core EXCEPT !.in = TRUE, !.i = 0]
               ELSE [phase |-> core.phase + 1, call |-> 0, in |-> FALSE, i |-> 0]
    /\ UNCHANGED <<irq, irqs, spins>>
\* A leaf: straight-line.
RunLeaf ==
    /\ ~irq /\ core.phase \in Phases /\ core.in /\ Execute
    /\ core' = IF core.i + 1 < size[phases[core.phase][core.call]] THEN [core EXCEPT !.i = @ + 1]
               ELSE [core EXCEPT !.in = FALSE, !.call = @ + 1, !.i = 0]
    /\ UNCHANGED <<irq, irqs, spins>>

Next == GenWpSet \/ CheckConsistency \/ WpGen \/ Interrupt \/ Handle \/ Spin \/ RunPhase \/ RunLeaf
Spec == Init /\ [][Next]_vars
-----------------------------------------------------------------------------
CallsOf(f) == FoldSet(LAMBDA p, n : n + Cardinality({i \in DOMAIN phases[p] : phases[p][i] = f}), 0, Phases)

\* What the encoder reports of a walk is the oracle, in its order, whenever the
\* pacer struck; and so far it is a prefix of it.
OracleIsExecution ==
    /\ IsPrefix(hits, oracle)
    /\ Finished => hits = oracle

\* Every address of the set executes as often as the walk says (gen_wp_set.py:
\* every address executes deterministically), and the table is a search tree.
SetIsDeterministic ==
    /\ Finished => \A a \in wp :
          (IF a \in DOMAIN count THEN count[a] ELSE 0) =
            (IF \E f \in Leaves : a \in {LeafAt(f) + 4 * i : i \in 0 .. size[f] - 1}
             THEN CallsOf(CHOOSE f \in Leaves : a \in {LeafAt(f) + 4 * i : i \in 0 .. size[f] - 1})
             ELSE 1)
    /\ \A i \in 2 .. Len(table) : table[i - 1] < table[i]
=============================================================================
