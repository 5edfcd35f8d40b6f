----------------------------- MODULE CallDepth -----------------------------
(***************************************************************************)
(* The call analysis of the dashboard (insight.py, PcStreamAnalysis) read  *)
(* against the core it watches.  The core runs a program of fixed-width    *)
(* instructions, with recursion, tail calls, long jumps and traps; from    *)
(* some instruction on, its addresses are a decoded window, and the        *)
(* analysis folds over them with its own stack.  Addresses count           *)
(* instructions, so pc + 4 is pc + 1 here.                                 *)
(***************************************************************************)
EXTENDS Integers, Sequences, FiniteSets, SequencesExt

CONSTANTS
    Prog,           \* address -> [op, to]: the program in the core
    Entries,        \* the addresses of its labels
    Handler,        \* where a trap goes
    UnwindSearch,   \* UNWIND_SEARCH
    StackLimit,     \* STACK_LIMIT
    LastSize,       \* the size taken for the last function
    MaxFuncSize,    \* MAX_FUNC_BYTES
    Regions,        \* code_regions of the scenario, in order: <<low, high>>
    PrefixOf,       \* function -> what its name has before the first "_"
    TopPrefixes,    \* top_prefixes
    MaxListed,      \* functions a group lists
    MaxRun,         \* bound: instructions of a window
    MaxDeep         \* bound: frames of the core

VARIABLES
    pc,         \* the instruction the core retires next
    real,       \* the return addresses of the frames that are open
    epc,        \* where the handler returns to, or -1 outside a trap
    open,       \* the window has begun
    at,         \* the open frames when the instruction analysed last began
    low,        \* the fewest of them since the window began
    prev,       \* prev: the address analysed last, or -1
    stack,      \* stack: the return addresses the analysis holds
    lost,       \* lost: the pairing was given up
    perFunc,    \* per_func: instructions per key
    ran         \* the instructions of the window
vars == <<pc, real, epc, open, at, low, prev, stack, lost, perFunc, ran>>

\* What dis_to_symbols.py extracts from the listing: the jal/jalr that link are
\* calls, ret is a return, and j, jr and mret are neither.
Calls == {a \in DOMAIN Prog : Prog[a].op = "call"}
Rets == {a \in DOMAIN Prog : Prog[a].op \in {"ret", "longjmp"}}

\* SymbolTable.lookup: bisect for the last label that is not above the address,
\* the page of the address where there is none (pages are 8 addresses here).
\* Sorted and without duplicates, as from_text leaves the table.
Addrs == SetToSortSeq(Entries, LAMBDA a, b : a < b)
BisectRight(a) == Cardinality({i \in DOMAIN Addrs : Addrs[i] <= a})
Lookup(a) == IF BisectRight(a) = 0 THEN -1 - (a \div 8) ELSE Addrs[BisectRight(a)]

TypeOK ==
    /\ pc \in DOMAIN Prog /\ epc \in DOMAIN Prog \cup {-1}
    /\ open \in BOOLEAN /\ lost \in BOOLEAN /\ low \in 0 .. MaxDeep
    /\ prev \in DOMAIN Prog \cup {-1}

Init ==
    /\ pc = 0 /\ real = <<>> /\ epc = -1 /\ open = FALSE /\ at = 0 /\ low = 0
    /\ prev = -1 /\ stack = <<>> /\ lost = FALSE
    /\ perFunc = [k \in {} |-> 0] /\ ran = 0

-----------------------------------------------------------------------------
(* PcStreamAnalysis.__init__, one turn of its loop. *)

\* Mutant: the search for the return target begins at the oldest frame.
HitOldest(a) == {d \in 1 .. Len(stack) : stack[Len(stack) + 1 - d] = a /\ d <= UnwindSearch
                    /\ \A e \in d + 1 .. Len(stack) : stack[Len(stack) + 1 - e] # a}
\* The distance from the top of the frame a return reaches, searched in the
\* topmost UNWIND_SEARCH frames from the top.
Hit(a) == {d \in 1 .. Len(stack) : stack[Len(stack) + 1 - d] = a /\ d <= UnwindSearch
              /\ \A e \in 1 .. d - 1 : stack[Len(stack) + 1 - e] # a}

\* Mutant: a return whose target is not on the stack leaves the stack alone.
StackAfterKeeps(a) ==
    IF prev \in Calls THEN Append(stack, prev + 1)
    ELSE IF prev \in Rets /\ Hit(a) # {} THEN SubSeq(stack, 1, Len(stack) - Max(Hit(a)))
    ELSE stack
\* A call pushes its return address; a return drops the frames above and with
\* its target, or the top one when the target is unknown (a trap taken on it).
StackAfter(a) ==
    IF prev \in Calls THEN Append(stack, prev + 1)
    ELSE IF prev \in Rets /\ Hit(a) # {} THEN SubSeq(stack, 1, Len(stack) - Max(Hit(a)))
    ELSE IF prev \in Rets /\ stack # <<>> THEN Front(stack)
    ELSE stack

\* One address: the count of its function, then, at a transfer, the stack.
Analyse(a) ==
    LET key == Lookup(a)
        next == IF prev # -1 /\ a # prev + 1 /\ ~lost THEN StackAfter(a) ELSE stack
    IN  /\ perFunc' = [k \in DOMAIN perFunc \cup {key} |->
                           (IF k \in DOMAIN perFunc THEN perFunc[k] ELSE 0) + (IF k = key THEN 1 ELSE 0)]
        /\ stack' = next
        /\ lost' = (lost \/ Len(next) > StackLimit)
        /\ prev' = a

-----------------------------------------------------------------------------
(* The core. *)

\* The decoder's window begins with the next instruction.
OpenWindow ==
    /\ ~open /\ open' = TRUE /\ at' = Len(real) /\ low' = Len(real)
    /\ UNCHANGED <<pc, real, epc, prev, stack, lost, perFunc, ran>>

\* What retiring the instruction at pc leads to: the next address, the frames.
Outcomes ==
    LET i == Prog[pc]
    IN  CASE i.op = "seq"  -> {<<pc + 1, real>>}
          [] i.op = "jump" -> {<<i.to, real>>}
          [] i.op = "br"   -> {<<pc + 1, real>>, <<i.to, real>>}
          [] i.op = "call" -> IF Len(real) < MaxDeep THEN {<<i.to, Append(real, pc + 1)>>} ELSE {}
          [] i.op = "ret"  -> IF real = <<>> THEN {} ELSE {<<Last(real), Front(real)>>}
          \* out of several frames at once: to a frame of the window, with an
          \* address no frame above it returns to, within the search.
          [] i.op = "longjmp" ->
               {<<real[n], SubSeq(real, 1, n - 1)>> : n \in
                   {k \in 1 .. Len(real) : /\ open => k > low
                                           /\ Len(real) + 1 - k <= UnwindSearch
                                           /\ \A j \in k + 1 .. Len(real) : real[j] # real[k]}}
          [] i.op = "mret" -> IF epc = -1 THEN {} ELSE {<<epc, real>>}

\* The instruction retires; a trap may be taken on the way to the next one.  Not
\* on a long jump: the analysis then drops one frame, however many were left.
Retire ==
    /\ ran < MaxRun
    /\ \E o \in Outcomes, trap \in BOOLEAN :
         /\ trap => epc = -1 /\ Prog[pc].op # "longjmp"
         /\ pc' = (IF trap THEN Handler ELSE o[1])
         /\ real' = o[2]
         /\ epc' = (IF trap THEN o[1] ELSE IF Prog[pc].op = "mret" THEN -1 ELSE epc)
    /\ IF open THEN /\ Analyse(pc)
                    /\ ran' = ran + 1
                    /\ at' = Len(real)
                    /\ low' = (IF Len(real) < low THEN Len(real) ELSE low)
       ELSE UNCHANGED <<at, low, prev, stack, lost, perFunc, ran>>
    /\ UNCHANGED open

Next == OpenWindow \/ Retire
Spec == Init /\ [][Next]_vars

-----------------------------------------------------------------------------
(* The coverage map (server.py coverage_tree): region, prefix, function.   *)
(* The area of a function is its size, its colour what ran of it.          *)

\* SymbolTable.sizes: up to the next function, capped.
Raw(f) == LET above == {g \in Entries : g > f} IN IF above = {} THEN LastSize ELSE Min(above) - f
Clamped(f) == Raw(f) > MaxFuncSize
SizeOf(f) == IF Clamped(f) THEN MaxFuncSize ELSE Raw(f)
InstrOf(f) == IF f \in DOMAIN perFunc THEN perFunc[f] ELSE 0

\* The first region that has the function; a function in none is outside.
InRegion(f) == {r \in DOMAIN Regions : Regions[r][1] <= f /\ f < Regions[r][2]}
FunctionsOf(r) == {f \in Entries : InRegion(f) # {} /\ Min(InRegion(f)) = r}
Outside == {f \in Entries : InRegion(f) = {}}

Total(F, Of(_)) == FoldSet(LAMBDA f, n : Of(f) + n, 0, F)
\* The largest first, in the order met when equal.
Largest(S, n, Of(_), Met(_)) ==
    {a \in S : Cardinality({b \in S : Of(b) > Of(a) \/ (Of(b) = Of(a) /\ Met(b) < Met(a))}) < n}
Figures(F) == [size |-> Total(F, SizeOf), instr |-> Total(F, InstrOf),
               seen |-> Cardinality({f \in F : InstrOf(f) # 0})]

\* Mutant of Grouped: what is not among the largest groups is left out.
GroupedTopOnly(r) ==
    LET Area(F) == Total(F, SizeOf)
        groups == {{f \in FunctionsOf(r) : PrefixOf[f] = p} : p \in {PrefixOf[f] : f \in FunctionsOf(r)}}
    IN  Largest(groups, TopPrefixes, Area, Min)
\* The functions of a region by prefix; behind the largest groups the rest is one.
Grouped(r) ==
    LET Area(F) == Total(F, SizeOf)
        groups == {{f \in FunctionsOf(r) : PrefixOf[f] = p} : p \in {PrefixOf[f] : f \in FunctionsOf(r)}}
        top == Largest(groups, TopPrefixes, Area, Min)
    IN  IF top = groups THEN top ELSE top \cup {UNION (groups \ top)}
CoverageTree ==
    [regions |-> {[of |-> r, has |-> Figures(FunctionsOf(r)), funcs |-> Cardinality(FunctionsOf(r)),
                   groups |-> {[has |-> Figures(F), funcs |-> Largest(F, MaxListed, SizeOf, LAMBDA f : f)] :
                                 F \in Grouped(r)}] :
                    r \in {r \in DOMAIN Regions : FunctionsOf(r) # {}}},
     clamped |-> Cardinality({f \in Entries \ Outside : Clamped(f)}),
     outside |-> Cardinality(Outside)]
\* InsightState.coverage: the functions of the table that were seen at all.
SeenAtAll == Cardinality(DOMAIN perFunc \cap Entries)

-----------------------------------------------------------------------------
\* The depth shown for a window is the number of frames entered in it and still
\* open: through recursion, tail calls, long jumps and traps, taken on a call or
\* a return included, and whatever was open when the window began.
\* (PcStreamAnalysis: a number that is not the depth is not displayed.)
DepthIsHeight == (open /\ ran > 0 /\ ~lost) => Len(stack) = at - low

\* The map withholds nothing: the areas and the instructions of the groups of a
\* region are those of the region, a list is cut only where it is too long, and
\* what ran lies in a region, in a function outside or on a page without one.
\* It agrees with the ratio shown beside it. (coverage_tree: a map that silently
\* withholds area lies about the total size.)
MapIsWhole ==
    LET tree == CoverageTree
        Sum(S, Of(_)) == FoldSet(LAMBDA e, n : Of(e.has) + n, 0, S)
        Size(has) == has.size
        Instr(has) == has.instr
        Seen(has) == has.seen
    IN  /\ \A e \in tree.regions :
             /\ Sum(e.groups, Size) = e.has.size /\ Sum(e.groups, Instr) = e.has.instr
             /\ Sum(e.groups, Seen) = e.has.seen
             /\ \A g \in e.groups : g.has.seen <= Cardinality(g.funcs) \/ Cardinality(g.funcs) = MaxListed
        /\ Sum(tree.regions, Instr) + Total(Outside, InstrOf) + Total(DOMAIN perFunc \ Entries, InstrOf) = ran
        /\ SeenAtAll = Sum(tree.regions, Seen) + Cardinality({f \in Outside : InstrOf(f) # 0})
=============================================================================
