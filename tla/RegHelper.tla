----------------------------- MODULE RegHelper -----------------------------
(***************************************************************************)
(* generate_wb_pkg.py: from the elaborated register description to tasks   *)
(* for testbenches, and what the tasks do to the registers.  The walker,   *)
(* the register block and the hardware behind it are external.  A word is  *)
(* the set of its bits that are 1.                                         *)
(***************************************************************************)
EXTENDS Integers, Sequences, FiniteSets, SequencesExt

CONSTANTS
    Designs,    \* descriptions: [regs, mems]
    WordBits,   \* WB_DATA_WIDTH: 32
    Values,     \* values a testbench writes
    MaxCalls,   \* bound: tasks called
    MaxSets     \* bound: flags the hardware sets

\* A register: [path, at, hidden, fields], path its regfiles and its name; a
\* field: [n, lsb, msb, sw, sticky].  A memory: [n, at, width, entries, sw].
VARIABLES
    design,     \* the description
    registers, memories, types,     \* what the generator made of it; {} before
    word,       \* the registers: address -> word
    mem,        \* the words of memories: address -> word
    task,       \* the task under way
    calls, sets
generated == <<registers, memories, types>>
vars == <<design, generated, word, mem, task, calls, sets>>

Bytes(bits) == bits \div 8
Idle == [pc |-> "idle"]
SlotOf(f) == f.lsb .. f.msb
FieldWidth(f) == f.msb - f.lsb + 1
Present == {i \in DOMAIN design.regs : ~design.regs[i].hidden}

Init ==
    /\ design \in Designs
    /\ registers = {} /\ memories = {} /\ types = {}
    /\ word = [a \in {design.regs[i].at : i \in Present} |-> {}]
    /\ mem = [a \in UNION {{m.at + 4 * k : k \in 0 .. m.entries * (m.width \div WordBits) - 1} : m \in design.mems}
                |-> {}]
    /\ task = Idle /\ calls = 0 /\ sets = 0

-----------------------------------------------------------------------------
(* The generator *)

\* The name of a register: regfiles and register, joined.
LogicalName(path) == FoldLeft(LAMBDA s, n : IF s = "" THEN n ELSE s \o "_" \o n, "", path)

\* Mutant of Stride: the distance of the first to the last instance.
StrideOfAll(S) == Max(S) - Min(S)
Stride(S) == IF Cardinality(S) > 1 THEN Min(S \ {Min(S)}) - Min(S) ELSE 0
\* enter_Reg and get_registers: what has the same name is an array, with the
\* fields of its first instance.
Group(name) ==
    LET of == {i \in Present : LogicalName(design.regs[i].path) = name}
        at == {design.regs[i].at : i \in of}
    IN  [name |-> name, at |-> Min(at), len |-> Cardinality(at), stride |-> Stride(at),
         fields |-> design.regs[Min(of)].fields]
Registers == {Group(LogicalName(design.regs[i].path)) : i \in Present}
\* The registers that are only types, and their enumerations.
Hidden == {i \in DOMAIN design.regs : design.regs[i].hidden}
TypeAnchors == {[name |-> Last(design.regs[i].path), fields |-> design.regs[i].fields] : i \in Hidden}

\* main: a description without registers and memories is refused.
Generate ==
    /\ registers = {} /\ memories = {} /\ (Present # {} \/ design.mems # {})
    /\ registers' = Registers /\ memories' = design.mems /\ types' = TypeAnchors
    /\ UNCHANGED <<design, word, mem, task, calls, sets>>

-----------------------------------------------------------------------------
(* The bus and the hardware *)

FieldsAt(a) == LET i == CHOOSE j \in Present : design.regs[j].at = a IN design.regs[i].fields
FieldsOf(S) == {S[k] : k \in DOMAIN S}
BitsOf(fields) == UNION {SlotOf(f) : f \in fields}
Readable(sw) == sw \in {"rw", "r"}
Plain(a) == BitsOf({f \in FieldsOf(FieldsAt(a)) : f.sw = "rw" /\ ~f.sticky})
Sticky(a) == BitsOf({f \in FieldsOf(FieldsAt(a)) : f.sticky})
\* A sticky flag is cleared by writing a 1, a pulse is not stored.
BusRead(a) == word[a] \cap BitsOf({f \in FieldsOf(FieldsAt(a)) : Readable(f.sw)})
BusWrite(a, w) == word' = [word EXCEPT ![a] = (w \cap Plain(a)) \cup (word[a] \ (Plain(a) \cup (w \cap Sticky(a))))]

HardwareSets == \E a \in DOMAIN word : \E b \in Sticky(a) \ word[a] :
    /\ sets < MaxSets /\ sets' = sets + 1
    /\ word' = [word EXCEPT ![a] = word[a] \cup {b}]
    /\ UNCHANGED <<design, generated, mem, task, calls>>

-----------------------------------------------------------------------------
(* The tasks of a register *)

\* Where a task looks for instance id.
AddrExpr(r, id) == r.at + id * r.stride
Shifted(f, v) == {f.lsb + b : b \in v}
InField(f, v) == {b \in v : b < FieldWidth(f)}
Instances(r) == IF r.stride # 0 THEN 0 .. r.len - 1 ELSE {0}
\* A single bit has no masks, and what cannot be read has no Get.
TasksOf(f) == {"Set"} \cup (IF FieldWidth(f) > 1 THEN {"SetMask", "ClearMask"} ELSE {})
                     \cup (IF Readable(f.sw) THEN {"Get"} ELSE {})

Call == \E r \in registers : \E id \in Instances(r) : \E f \in FieldsOf(r.fields) :
        \E kind \in TasksOf(f) : \E v \in IF kind = "Get" THEN {{}} ELSE {InField(f, x) : x \in Values} :
    /\ task.pc = "idle" /\ calls < MaxCalls /\ calls' = calls + 1
    /\ task' = [pc |-> "read", kind |-> kind, reg |-> r.name, id |-> id, at |-> AddrExpr(r, id), f |-> f,
                v |-> v, got |-> {}, before |-> word, since |-> {}]
    /\ UNCHANGED <<design, generated, word, mem, sets>>

\* Every one of them reads the register first.
ReadBack ==
    /\ task.pc = "read"
    /\ LET got == IF task.at \in DOMAIN word THEN BusRead(task.at) ELSE {}
       IN  task' = [task EXCEPT !.pc = IF task.kind = "Get" THEN "returned" ELSE "write", !.got = got]
    /\ UNCHANGED <<design, generated, word, mem, calls, sets>>

\* Mutant of Modified: the field is not cleared first.
ModifiedOr(t) == t.got \cup Shifted(t.f, t.v)
Modified(t) ==
    CASE t.kind = "Set" -> (t.got \ SlotOf(t.f)) \cup Shifted(t.f, t.v)
      [] t.kind = "SetMask" -> t.got \cup Shifted(t.f, t.v)
      [] t.kind = "ClearMask" -> t.got \ Shifted(t.f, t.v)
WriteBack ==
    /\ task.pc = "write"
    /\ IF task.at \in DOMAIN word THEN BusWrite(task.at, Modified(task)) ELSE UNCHANGED word
    /\ task' = [task EXCEPT !.pc = "returned"]
    /\ UNCHANGED <<design, generated, mem, calls, sets>>
Return ==
    /\ task.pc = "returned"
    /\ task' = Idle
    /\ UNCHANGED <<design, generated, word, mem, calls, sets>>

-----------------------------------------------------------------------------
(* The tasks of a memory: an entry of several words goes word by word *)

EntryWords(m) == IF m.width > WordBits THEN m.width \div WordBits ELSE 1
EntryBytes(m) == IF m.width = 0 THEN 4 ELSE Bytes(m.width)
\* Mutant of WordAddr: an entry is one word.
WordAddrNarrow(m, index, k) == m.at + 4 * index + 4 * k
WordAddr(m, index, k) == m.at + index * EntryBytes(m) + 4 * k
Slice(v, k) == {b - k * WordBits : b \in {x \in v : x \div WordBits = k}}
Held(m, a) == IF a \in DOMAIN mem /\ Readable(m.sw) THEN mem[a] ELSE {}
MemTasks(m) == {"WriteMem", "SetMaskMem", "ClearMaskMem", "ReadMem"} \cup (IF Readable(m.sw) THEN {"GetMem"} ELSE {})
Reads(kind) == kind # "WriteMem"

CallMem == \E m \in memories : \E index \in 0 .. m.entries - 1 : \E kind \in MemTasks(m) :
           \E v \in IF kind \in {"ReadMem", "GetMem"} THEN {{}} ELSE {x \cap (0 .. m.width - 1) : x \in Values} :
    /\ task.pc = "idle" /\ calls < MaxCalls /\ calls' = calls + 1
    /\ task' = [pc |-> IF Reads(kind) THEN "load" ELSE "store", kind |-> kind, m |-> m, index |-> index,
                v |-> v, got |-> {}, k |-> 0, before |-> mem]
    /\ UNCHANGED <<design, generated, word, mem, sets>>
LoadWord ==
    /\ task.pc = "load"
    /\ LET w == {b + task.k * WordBits : b \in Held(task.m, WordAddr(task.m, task.index, task.k))}
           got == task.got \cup w
           entry == CASE task.kind = "SetMaskMem" -> got \cup task.v
                      [] task.kind = "ClearMaskMem" -> got \ task.v
                      [] OTHER -> got
       IN  task' = IF task.k + 1 < EntryWords(task.m) THEN [task EXCEPT !.got = got, !.k = task.k + 1]
                   ELSE [task EXCEPT !.got = got, !.v = entry, !.k = 0,
                                     !.pc = IF task.kind \in {"ReadMem", "GetMem"} THEN "loaded" ELSE "store"]
    /\ UNCHANGED <<design, generated, word, mem, calls, sets>>
StoreWord ==
    /\ task.pc = "store"
    /\ LET a == WordAddr(task.m, task.index, task.k)
       IN  mem' = [x \in DOMAIN mem |-> IF x = a THEN Slice(task.v, task.k) ELSE mem[x]]
    /\ task' = IF task.k + 1 < EntryWords(task.m) THEN [task EXCEPT !.k = task.k + 1] ELSE [task EXCEPT !.pc = "stored"]
    /\ UNCHANGED <<design, generated, word, calls, sets>>
ReturnMem ==
    /\ task.pc \in {"loaded", "stored"}
    /\ task' = Idle
    /\ UNCHANGED <<design, generated, word, mem, calls, sets>>

Next == \/ Generate \/ HardwareSets \/ Call \/ ReadBack \/ WriteBack \/ Return
        \/ CallMem \/ LoadWord \/ StoreWord \/ ReturnMem
Spec == Init /\ [][Next]_vars

-----------------------------------------------------------------------------
\* The instance a task means: the id-th in the description of that path.
Named(name) == {i \in Present : LogicalName(design.regs[i].path) = name}
Meant(name, id) ==
    CHOOSE a \in {design.regs[i].at : i \in Named(name)} :
        Cardinality({i \in Named(name) : design.regs[i].at < a}) = id

\* A field task reaches the instance it names and changes its field as told and
\* nothing else, in its own register and in all others, over the hardware that
\* meanwhile sets flags; but a flag it has read as set, it clears.
FieldTaskIsLocal ==
    task.pc = "returned" =>
      LET t == task
          old == t.before[t.at]
          slot == SlotOf(t.f)
          plain == Plain(t.at)
          want == CASE t.kind = "Get" -> old
                    [] t.kind = "Set" -> (old \ slot) \cup Shifted(t.f, t.v)
                    [] t.kind = "SetMask" -> old \cup Shifted(t.f, t.v)
                    [] t.kind = "ClearMask" -> old \ Shifted(t.f, t.v)
      IN  /\ t.at = Meant(t.reg, t.id)
          /\ word[t.at] \cap plain = want \cap plain
          /\ \A a \in DOMAIN word \ {t.at} : t.before[a] \subseteq word[a] /\ word[a] \ t.before[a] \subseteq Sticky(a)
          /\ \A b \in Sticky(t.at) \ slot : b \in old /\ b \notin word[t.at] => b \in t.got /\ t.kind # "Get"
          /\ t.kind = "Get" /\ slot \subseteq plain => t.got \cap slot = old \cap slot

\* The header of the helper: "all other bits in the register are preserved".
OthersPreserved ==
    task.pc = "returned" =>
      \A b \in Sticky(task.at) \ SlotOf(task.f) : b \in task.before[task.at] => b \in word[task.at]

\* A memory task changes the entry it names, all of it, and no other; one that
\* reads needs a memory that can be read.
EntryOf(m, index, held) ==
    UNION {{b + k * WordBits : b \in held[m.at + index * EntryWords(m) * 4 + 4 * k]} : k \in 0 .. EntryWords(m) - 1}
EntryTaskIsLocal ==
    task.pc \in {"loaded", "stored"} =>
      LET t == task
          old == EntryOf(t.m, t.index, t.before)
          new == EntryOf(t.m, t.index, mem)
      IN  /\ t.pc = "loaded" => mem = t.before /\ (Readable(t.m.sw) => t.got = old)
          /\ t.kind \in {"WriteMem", "SetMaskMem", "ClearMaskMem"} => new = t.v
          /\ t.kind = "SetMaskMem" /\ Readable(t.m.sw) => old \subseteq new
          /\ t.kind = "ClearMaskMem" => new \subseteq old
          /\ \A m \in memories : \A i \in 0 .. m.entries - 1 :
               <<m.n, i>> # <<t.m.n, t.index>> => EntryOf(m, i, mem) = EntryOf(m, i, t.before)
TasksAreLocal == FieldTaskIsLocal /\ EntryTaskIsLocal
=============================================================================
