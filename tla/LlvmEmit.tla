------------------------------ MODULE LlvmEmit ------------------------------
(***************************************************************************)
(* src/src/codegen.vix on the wrappers of IrBuilder: a function body to    *)
(* LLVM IR, one statement at a time.  A statement is emitted only while    *)
(* its block has no terminator, and a region that was left jumps nowhere.  *)
(***************************************************************************)
EXTENDS IrBuilder

llvm_current_block_terminated(g) == vix_LLVMGetBasicBlockTerminator(g, g.cur) # NoDest
llvm_append_blocks(g, l) ==
    LET with[k \in 0..Len(l)] == IF k = 0 THEN Took(g, l) ELSE vix_LLVMAppendBasicBlock(with[k - 1], l[k])
    IN  with[Len(l)]

\* Mutant of JumpTo: the guard is dropped.
JumpToWrong(g, dest) == vix_LLVMBuildBr(g, dest)
JumpTo(g, dest) == IF llvm_current_block_terminated(g) THEN g ELSE vix_LLVMBuildBr(g, dest)
Onto(g, label) == vix_LLVMPositionBuilderAtEnd(g, label)
JumpOnto(g, dest, label) == Onto(JumpTo(g, dest), label)

llvm_define_var(g, slot, v) == vix_LLVMBuildStore(vix_LLVMBuildAlloca(g, slot), v, slot)
llvm_build_icmp_value(g, op, l, r) ==
    LET cmp == vix_LLVMBuildICmp(g, op, l, r) IN vix_LLVMBuildZExt(cmp.b, cmp.name)
llvm_build_truthy_typed_i1(v) == vix_LLVMBuildICmp(v.b, "ne", v.name, Const(0))

RECURSIVE codegen_expr_value_typed(_, _)

(* `and' and `or': the side that decides alone has a block of its own, and *)
(* the answer is merged from there and from the end of the right side.     *)
(* Last first: each part is given what the one before it emitted.          *)
CodegenLogicMerge(phi, one, zero) ==
    [phi EXCEPT !.b = vix_LLVMAddIncoming(vix_LLVMAddIncoming(@, phi.name, Const(1), one),
                                          phi.name, Const(0), zero)]

CodegenLogicDecided(right, conj, alone, merge) ==
    LET rhs_end == vix_LLVMGetInsertBlock(right.b)
        g1 == vix_LLVMBuildCondBr(right.b, right.name, IF conj THEN merge ELSE alone, IF conj THEN alone ELSE merge)
    IN  CodegenLogicMerge(vix_LLVMBuildPHI(Onto(vix_LLVMBuildBr(Onto(g1, alone), merge), merge)),
                          IF conj THEN rhs_end ELSE alone, IF conj THEN alone ELSE rhs_end)

CodegenLogicRight(left, e, conj, l) ==
    LET g1 == vix_LLVMBuildCondBr(llvm_append_blocks(left.b, l), left.name, l[1], l[2])
        g2 == Onto(g1, l[IF conj THEN 1 ELSE 2])
    IN  CodegenLogicDecided(llvm_build_truthy_typed_i1(codegen_expr_value_typed(g2, e.right)),
                            conj, l[IF conj THEN 2 ELSE 1], l[3])

CodegenLogicLeft(left, e, conj) ==
    CodegenLogicRight(left, e, conj,
        Labels(left.b, IF conj THEN <<"and.rhs", "and.false", "and.merge">> ELSE <<"or.true", "or.rhs", "or.merge">>))
CodegenLogic(g, e) ==
    CodegenLogicLeft(llvm_build_truthy_typed_i1(codegen_expr_value_typed(g, e.left)), e, e.tag = "and")

CodegenIfExpr(g, e) ==
    LET slot == Temp(g.temps)
        l == Labels(g, <<"ifexpr.then", "ifexpr.else", "ifexpr.end">>)
        g1 == llvm_append_blocks(vix_LLVMBuildAlloca(Fresh(g), slot), l)
        cond == llvm_build_truthy_typed_i1(codegen_expr_value_typed(g1, e.cond))
        yes == codegen_expr_value_typed(Onto(vix_LLVMBuildCondBr(cond.b, cond.name, l[1], l[2]), l[1]), e.then)
        no == codegen_expr_value_typed(JumpOnto(vix_LLVMBuildStore(yes.b, yes.name, slot), l[3], l[2]), e.else)
    IN  vix_LLVMBuildLoad2(JumpOnto(vix_LLVMBuildStore(no.b, no.name, slot), l[3], l[3]), slot, "i32")

CodegenBinop(g, e) ==
    LET l == codegen_expr_value_typed(g, e.left)
        r == codegen_expr_value_typed(l.b, e.right)
    IN  IF e.tag = "eq" THEN llvm_build_icmp_value(r.b, "eq", l.name, r.name)
        ELSE vix_LLVMBuildAdd(r.b, l.name, r.name)

codegen_expr_value_typed(g, e) ==
    CASE e.tag \in {"num", "bool"} -> Emitted(g, Const(e.n), "i32")
      [] e.tag = "block_expr" -> Emitted(g, Const(0), "i32")
      [] e.tag = "ident" -> vix_LLVMBuildLoad2(g, Slot(e.name), "i32")
      [] e.tag = "read" -> vix_LLVMBuildCall2(g, "call", <<>>)
      [] e.tag = "closure" ->
            LET c == vix_LLVMBuildLoad2(g, Slot(e.name), "i32")
            IN  vix_LLVMBuildCall2(c.b, "call_indirect", <<c.name>>)
      [] e.tag \in LogicTags -> CodegenLogic(g, e)
      [] e.tag = "if_expr" -> CodegenIfExpr(g, e)
      [] e.tag \in {"add", "eq"} -> CodegenBinop(g, e)

CodegenCondition(g, e) == llvm_build_truthy_typed_i1(codegen_expr_value_typed(g, e))

-----------------------------------------------------------------------------
(* Statements.                                                             *)
CodegenSimple(g, s) ==
    LET v == codegen_expr_value_typed(g, s.e)
    IN  CASE s.tag = "let" -> llvm_define_var(v.b, Slot(s.name), v.name)
          [] s.tag = "assign" -> vix_LLVMBuildStore(v.b, v.name, Slot(s.name))
          [] s.tag = "print" -> Insert(v.b, Instr("print", NoDest, <<v.name>>))
          [] s.tag = "use" -> v.b
          [] s.tag = "return_expr" -> vix_LLVMBuildRet(v.b, v.name)
          [] s.tag = "break" -> vix_LLVMBuildBr(g, BreakLabel(g))
          [] s.tag = "continue" -> vix_LLVMBuildBr(g, ContinueLabel(g))

CodegenIf(g, s) ==
    LET l == Labels(g, <<"if.then", "if.else", "if.end">>)
        cond == CodegenCondition(llvm_append_blocks(g, l), s.e)
    IN  Open(Onto(vix_LLVMBuildCondBr(cond.b, cond.name, l[1], l[2]), l[1]), Frame("if", l))

(* i: the else block still to be filled.                                   *)
CodegenElse(g) == Retop(JumpOnto(g, Top(g).l[3], Top(g).l[2]), [Top(g) EXCEPT !.i = Top(g).l[2]])
CodegenEndIf(g) == LET f == Top(g) IN
    JumpOnto(IF f.i = NoDest THEN JumpOnto(g, f.l[3], f.l[2]) ELSE g, f.l[3], f.l[3])

CodegenWhile(g, s) ==
    LET l == Labels(g, <<"while.cond", "while.body", "while.end">>)
        cond == CodegenCondition(JumpOnto(llvm_append_blocks(g, l), l[1], l[1]), s.e)
    IN  Open(Onto(vix_LLVMBuildCondBr(cond.b, cond.name, l[2], l[3]), l[2]), Frame("while", l))

CodegenEndWhile(g) == JumpOnto(g, Top(g).l[1], Top(g).l[3])

(* Both ends of the range are read before either is stored.                *)
CodegenFor(g, s) ==
    LET l == Labels(g, <<"for.cond", "for.body", "for.step", "for.end">>)
        lo == codegen_expr_value_typed(llvm_append_blocks(g, l), s.lo)
        hi == codegen_expr_value_typed(lo.b, s.hi)
        end_name == <<"limit", hi.b.labels>>
        g1 == llvm_define_var(llvm_define_var(hi.b, Slot(s.name), lo.name), end_name, hi.name)
        iter == vix_LLVMBuildLoad2(JumpOnto(g1, l[1], l[1]), Slot(s.name), "i32")
        limit == vix_LLVMBuildLoad2(iter.b, end_name, "i32")
        cond == llvm_build_truthy_typed_i1(llvm_build_icmp_value(limit.b, "lt", iter.name, limit.name))
    IN  Open(Onto(vix_LLVMBuildCondBr(cond.b, cond.name, l[2], l[4]), l[2]),
             [Frame("for", l) EXCEPT !.i = Slot(s.name)])

\* Mutant of CodegenEndFor: the next number is not stored.
CodegenEndForWrong(g) ==
    LET current == vix_LLVMBuildLoad2(JumpOnto(g, Top(g).l[3], Top(g).l[3]), Top(g).i, "i32")
        next == vix_LLVMBuildAdd(current.b, current.name, Const(1))
    IN  Onto(vix_LLVMBuildBr(next.b, Top(g).l[1]), Top(g).l[4])
CodegenEndFor(g) ==
    LET f == Top(g)
        current == vix_LLVMBuildLoad2(JumpOnto(g, f.l[3], f.l[3]), f.i, "i32")
        next == vix_LLVMBuildAdd(current.b, current.name, Const(1))
    IN  Onto(vix_LLVMBuildBr(vix_LLVMBuildStore(next.b, next.name, f.i), f.l[1]), f.l[4])

(* l: where the match ends, where the next test stands; i: the default arm *)
(* has been emitted there.                                                 *)
CodegenMatch(g, s) ==
    LET v == codegen_expr_value_typed(g, s.e)
        l == Labels(v.b, <<"match.end", "match.test">>)
    IN  Open(JumpTo(llvm_append_blocks(v.b, l), l[2]), [Frame("match", l) EXCEPT !.subject = v.name])

CodegenArm(g, s) ==
    LET f == Top(g)
        g1 == JumpOnto(g, f.l[1], f.l[2])
        l == Labels(g1, <<"match.body", "match.test">>)
        cmp == llvm_build_truthy_typed_i1(
                   llvm_build_icmp_value(llvm_append_blocks(g1, l), "eq", f.subject, Const(s.pattern)))
    IN  IF s.pattern = DefaultPattern THEN Retop(g1, [f EXCEPT !.i = f.l[2]])
        ELSE Retop(Onto(vix_LLVMBuildCondBr(cmp.b, cmp.name, l[1], l[2]), l[1]), [f EXCEPT !.l[2] = l[2]])

CodegenEndMatch(g) == LET f == Top(g) IN
    JumpOnto(IF f.i = NoDest THEN JumpOnto(g, f.l[1], f.l[2]) ELSE g, f.l[1], f.l[1])

CodegenOpen(g, s) ==
    CASE s.tag = "if" -> CodegenIf(g, s)
      [] s.tag = "while" -> CodegenWhile(g, s)
      [] s.tag = "for" -> CodegenFor(g, s)
      [] s.tag = "match" -> CodegenMatch(g, s)

CodegenClose(g) ==
    CASE Top(g).kind = "if" -> CodegenEndIf(g)
      [] Top(g).kind = "while" -> CodegenEndWhile(g)
      [] Top(g).kind = "for" -> CodegenEndFor(g)
      [] Top(g).kind = "match" -> CodegenEndMatch(g)

codegen_stmt_in_loop(g, s) ==
    CASE s.tag \in OpenTags ->
            IF llvm_current_block_terminated(g) THEN Open(g, DeadFrame(s.tag)) ELSE CodegenOpen(g, s)
      [] s.tag = "else" -> IF Top(g).dead THEN g ELSE CodegenElse(g)
      [] s.tag = "arm" -> IF Top(g).dead THEN g ELSE CodegenArm(g, s)
      [] s.tag = "end" -> Closed(IF Top(g).dead THEN g ELSE CodegenClose(g))
      [] OTHER -> IF llvm_current_block_terminated(g) THEN g ELSE CodegenSimple(g, s)

(* A function: its closure parameters first, a return of zero at the end.  *)
llvm_emit_function_header(params) ==
    LET begun == Onto(vix_LLVMAppendBasicBlock(NewFunction, Entry), Entry)
        spill[S \in SUBSET params] ==
            IF S = {} THEN begun
            ELSE LET x == CHOOSE y \in S : TRUE IN llvm_define_var(spill[S \ {x}], Slot(x), Param(x))
    IN  spill[params]

llvm_emit_end_function(g) == IF llvm_current_block_terminated(g) THEN g ELSE vix_LLVMBuildRet(g, Const(0))
=============================================================================
