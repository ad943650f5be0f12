------------------------------- MODULE IrCode -------------------------------
(***************************************************************************)
(* The code of a function, in the form MIR and LLVM IR have in common: one *)
(* instruction per line, labelled blocks, values assigned once and memory  *)
(* slots; and a machine that runs it beside a recorded run of the source.  *)
(***************************************************************************)
EXTENDS Integers, Sequences, FiniteSets

(* Operands: numbers, parameters, results of instructions, slots.          *)
Param(name) == <<"param", name>>
Const(n) == <<"const", n>>
Temp(n) == <<"t", n>>
Slot(name) == <<"addr", name>>
NoDest == <<"none", 0>>
IsConst(v) == v[1] = "const"

Label(name, n) == <<name, n>>
Entry == Label("entry", 0)

(* ty: the type of the result, a number of 32 bits or a bool (i1).         *)
Typed(op, ty, dest, args) == [op |-> op, ty |-> ty, dest |-> dest, args |-> args, to |-> <<>>]
Instr(op, dest, args) == Typed(op, "i32", dest, args)
Branch(op, args, to) == [op |-> op, ty |-> "void", dest |-> NoDest, args |-> args, to |-> to]
BlockLine(label) == Branch("block", <<>>, <<label>>)

Terminators == {"br", "br_cond", "ret"}

RangeOf(s) == {s[i] : i \in DOMAIN s}
Uses(line) == {v \in RangeOf(line.args) : v[1] \notin {"const", "param"}}
LinesWith(code, op) == {i \in DOMAIN code : code[i].op = op}

(* The block a line belongs to, and the blocks it may go on to.            *)
BlockStart(code, i) == CHOOSE b \in LinesWith(code, "block") :
    b <= i /\ \A c \in LinesWith(code, "block") : c <= i => c <= b
BlockOf(code, i) == code[BlockStart(code, i)].to[1]
LineOf(code, label) == CHOOSE i \in LinesWith(code, "block") : code[i].to[1] = label
HasLabel(code, label) == \E i \in LinesWith(code, "block") : code[i].to[1] = label

-----------------------------------------------------------------------------
(* The machine.  Nothing is known of a value that was never assigned.      *)
Undef == -1
Known(f, v) == IF v \in DOMAIN f THEN f[v] ELSE Undef
Extend(f, v, n) == [x \in DOMAIN f \cup {v} |-> IF x = v THEN n ELSE f[x]]

(* at: the effects of the source that have been repeated; strayed: it did  *)
(* something else; grown: the slots taken from the stack so far.           *)
NewMachine == [pc |-> 1, regs |-> <<>>, mem |-> <<>>, block |-> Entry, from |-> Entry,
               at |-> 0, grown |-> 0, done |-> FALSE, strayed |-> FALSE]

Eval(m, v) == IF IsConst(v) THEN v[2] ELSE Known(m.regs, v)
Next1(m) == [m EXCEPT !.pc = @ + 1]
Assign1(m, v, n) == [m EXCEPT !.pc = @ + 1, !.regs = Extend(@, v, n)]
Stray(m) == [m EXCEPT !.strayed = TRUE]
Jump(code, m, label) ==
    IF HasLabel(code, label)
    THEN [m EXCEPT !.pc = LineOf(code, label) + 1, !.from = m.block, !.block = label]
    ELSE Stray(m)

Truth(b) == IF b THEN 1 ELSE 0
Result(op, a, b) ==
    CASE op = "add" -> a + b
      [] op = "ne" -> Truth(a # b)
      [] op = "eq" -> Truth(a = b)
      [] op = "lt" -> Truth(a < b)
Operations == {"add", "ne", "eq", "lt"}

(* An effect must be the next one of the source; a call takes its answer   *)
(* from there.                                                             *)
Repeats(m, log, kind) == m.at < Len(log) /\ log[m.at + 1][1] = kind
Effect(m) == [m EXCEPT !.at = @ + 1]

MachineStep(code, m, log) ==
    LET l == code[m.pc]
        a == Eval(m, l.args[1])
        b == Eval(m, l.args[2])
    IN  CASE l.op = "block" -> [Next1(m) EXCEPT !.from = m.block, !.block = l.to[1]]
          [] l.op = "alloca" -> [Next1(m) EXCEPT !.mem = Extend(@, l.dest, Undef), !.grown = @ + 1]
          [] l.op = "store" -> [Next1(m) EXCEPT !.mem = Extend(@, l.args[2], a)]
          [] l.op = "load" -> Assign1(m, l.dest, Known(m.mem, l.args[1]))
          [] l.op \in {"const", "copy", "zext"} -> Assign1(m, l.dest, a)
          [] l.op \in Operations ->
                Assign1(m, l.dest, IF Undef \in {a, b} THEN Undef ELSE Result(l.op, a, b))
          [] l.op = "phi" ->
                IF \E k \in DOMAIN l.to : l.to[k] = m.from
                THEN Assign1(m, l.dest, Eval(m, l.args[CHOOSE k \in DOMAIN l.to : l.to[k] = m.from]))
                ELSE Stray(m)
          [] l.op \in {"call", "call_indirect"} ->
                LET kind == IF l.op = "call" THEN "read" ELSE "closure"
                IN  IF Repeats(m, log, kind) THEN Assign1(Effect(m), l.dest, log[m.at + 1][2]) ELSE Stray(m)
          [] l.op = "print" ->
                IF Repeats(m, log, "print") /\ log[m.at + 1][2] = a THEN Next1(Effect(m)) ELSE Stray(m)
          [] l.op = "br" -> Jump(code, m, l.to[1])
          [] l.op = "br_cond" -> IF a = Undef THEN Stray(m) ELSE Jump(code, m, l.to[IF a # 0 THEN 1 ELSE 2])
          [] l.op = "ret" ->
                IF Repeats(m, log, "ret") /\ log[m.at + 1][2] = a
                THEN [Effect(m) EXCEPT !.done = TRUE] ELSE Stray(m)

-----------------------------------------------------------------------------
(* Forms of code.                                                          *)
(* Every value that is used is assigned, once.                             *)
SsaForm(code) ==
    \A i \in DOMAIN code : \A v \in Uses(code[i]) :
        Cardinality({j \in DOMAIN code : code[j].dest = v}) = 1

(* What a branch asks is a bool.                                           *)
AsksBools(code) ==
    \A i \in LinesWith(code, "br_cond") :
        LET cond == code[i].args[1] IN
        \/ cond \in {Const(0), Const(1)}
        \/ \E j \in DOMAIN code : code[j].dest = cond /\ code[j].ty = "bool"

(* Every block ends with its only terminator.                              *)
OneTerminatorEach(code) ==
    \A i \in DOMAIN code :
        (code[i].op \in Terminators) <=> (i = Len(code) \/ code[i + 1].op = "block")

(* The blocks a value is merged from are those that branch to the merge.   *)
MergesItsPredecessors(code) ==
    \A i \in LinesWith(code, "phi") :
        /\ RangeOf(code[i].to) =
            {BlockOf(code, j) : j \in {k \in DOMAIN code :
                code[k].op \in {"br", "br_cond"} /\ BlockOf(code, i) \in RangeOf(code[k].to)}}
        /\ code[i - 1].op \in {"block", "phi"}
=============================================================================
