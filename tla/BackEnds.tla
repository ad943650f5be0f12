------------------------------ MODULE BackEnds ------------------------------
(***************************************************************************)
(* A function through a back end: the LLVM code generator ("llvm"), or the *)
(* compiler's own, which lowers to MIR and may optimise it ("self" and     *)
(* "self-opt", src/src/main.vix).  The code is then run beside the source. *)
(***************************************************************************)
EXTENDS MirOpt, LlvmEmit

CONSTANTS Programs, Closures, Backends

VARIABLES backend, program,
          stage,     \* what the compiler does next, or "running"
          line,      \* the next statement to lower
          built,     \* the builder
          code,      \* the code of the function
          run,       \* the source, run so far
          machine    \* the code, run so far

vars == <<backend, program, stage, line, built, code, run, machine>>

Init ==
    /\ backend \in Backends
    /\ program \in Programs
    /\ stage = "lowering" /\ line = 1
    /\ built = IF backend = "llvm" THEN llvm_emit_function_header(Closures) ELSE mir_function_begin(Closures)
    /\ code = <<>>
    /\ run = NewRun
    /\ machine = NewMachine

LowerStatement ==
    /\ stage = "lowering" /\ line <= Len(program)
    /\ built' = IF backend = "llvm" THEN codegen_stmt_in_loop(built, program[line])
                ELSE mir_stmt(built, program, line)
    /\ line' = line + 1
    /\ UNCHANGED <<backend, program, stage, code, run, machine>>

EndFunction ==
    /\ stage = "lowering" /\ line > Len(program)
    /\ code' = IF backend = "llvm" THEN Printed(llvm_emit_end_function(built))
               ELSE mir_function_end(built).lines
    /\ stage' = IF backend = "self-opt" THEN "promoting" ELSE "running"
    /\ built' = mir_builder_new
    /\ UNCHANGED <<backend, program, line, run, machine>>

(* mir_opt_program, pass by pass.                                          *)
Pass(at, next, out) ==
    /\ stage = at
    /\ stage' = next
    /\ code' = out
    /\ UNCHANGED <<backend, program, line, built, run, machine>>

Promote == Pass("promoting", "propagating", mir_opt_promote_single_store_allocas(code))
Propagate == Pass("propagating", "trimming", mir_opt_function(code))
Trim == Pass("trimming", "running",
             mir_opt_remove_fallthrough_branches(mir_opt_remove_empty_blocks(mir_opt_remove_unreachable(code))))

SourceKnown == run.done \/ Cut(run)
RunSource ==
    /\ stage = "running" /\ ~SourceKnown
    /\ run' \in SourceSteps(program, run)
    /\ UNCHANGED <<backend, program, stage, line, built, code, machine>>

Repeated == SourceKnown /\ machine.at = Len(run.log)
RunCode ==
    /\ stage = "running" /\ SourceKnown /\ ~Repeated /\ ~machine.strayed
    /\ machine' = IF machine.pc \in DOMAIN code THEN MachineStep(code, machine, run.log) ELSE Stray(machine)
    /\ UNCHANGED <<backend, program, stage, line, built, code, run>>

Next == LowerStatement \/ EndFunction \/ Promote \/ Propagate \/ Trim \/ RunSource \/ RunCode

(* The compiler and the program it makes are sequential: whichever of them *)
(* can go on does.  This is WF_vars(Next) with the condition under which   *)
(* Next is enabled written out.                                            *)
CanStep == stage # "running" \/ ~SourceKnown \/ (~Repeated /\ ~machine.strayed)
Spec == Init /\ [][Next]_vars /\ ([]<>~CanStep \/ []<><<Next>>_vars)

-----------------------------------------------------------------------------
(* The operands of `and' and `or' are bools, and the sides of an `if' have *)
(* one type.  Inference also admits a number there (ty.vix:132).           *)
RECURSIVE BoolOperands(_)
BoolOperands(e) ==
    CASE e.tag \in LogicTags ->
            \A side \in {e.left, e.right} : mir_expr_type(side) = "bool" /\ BoolOperands(side)
      [] e.tag \in {"add", "eq"} -> BoolOperands(e.left) /\ BoolOperands(e.right)
      [] e.tag = "if_expr" ->
            /\ mir_expr_type(e.then) = mir_expr_type(e.else)
            /\ \A side \in {e.cond, e.then, e.else} : BoolOperands(side)
      [] OTHER -> TRUE
ExpressionsOf(s) == {s[f] : f \in DOMAIN s \cap {"e", "lo", "hi"}}
AsksOnlyBools(p) == \A i \in DOMAIN p : \A e \in ExpressionsOf(p[i]) : BoolOperands(e)

(* The compiler's own back end takes such a number for a bool as it is.    *)
Compiles(p) == backend = "llvm" \/ AsksOnlyBools(p)

(* The code does what the source does, in its order, and stops where it    *)
(* stops: no call is lost, repeated or made with something else.           *)
SameEffects == machine.strayed => ~Compiles(program)

(* What is printed for the next tool is code: each block ends with its     *)
(* only terminator, values are assigned once and merged from the blocks    *)
(* that lead to the merge, and branches ask bools.  The optimiser lets     *)
(* blocks fall through.                                                    *)
Fresh0 == run = NewRun /\ stage \notin {"lowering", "propagating", "trimming"}
WellFormed ==
    Fresh0 =>
        /\ SsaForm(code)
        /\ stage = "promoting" \/ backend # "self-opt" => OneTerminatorEach(code)
        /\ MergesItsPredecessors(code)
        /\ Compiles(program) => AsksBools(code)

(* However often a loop runs, the stack holds every slot once (LLVM).      *)
StackBounded ==
    backend = "llvm" => machine.grown <= Cardinality(LinesWith(code, "alloca"))

(* What the source does is done in the end, whatever the compiler removed. *)
CodeFinishes == <>(Repeated \/ ~Compiles(program))

(* What spec.vic says of MIR, in the optimised code too: every value is    *)
(* assigned once (98), and what a branch asks is a bool (110).             *)
KeepsMirRules == stage = "running" => SsaForm(code) /\ AsksBools(code)
=============================================================================
