------------------------------ MODULE MirEmit ------------------------------
(***************************************************************************)
(* src/src/mir/mir.vix: a function body to MIR, one statement at a time.   *)
(* Every variable is a slot; a line is appended to `lines'; a terminator   *)
(* closes the block and what follows is not emitted until the next block.  *)
(***************************************************************************)
EXTENDS Lowering

mir_builder_new == [lines |-> <<>>, temps |-> 0, labels |-> 0, terminated |-> FALSE, frames |-> <<>>]

mir_block_is_open(b) == ~b.terminated
mir_line(b, line) == [b EXCEPT !.lines = Append(@, line)]
mir_block(b, label) == [mir_line(b, BlockLine(label)) EXCEPT !.terminated = FALSE]
mir_emit_term(b, line) == IF mir_block_is_open(b) THEN [mir_line(b, line) EXCEPT !.terminated = TRUE] ELSE b
BrTo(b, label) == mir_emit_term(b, Branch("br", <<>>, <<label>>))
BrOn(b, cond, yes, no) == mir_emit_term(b, Branch("br_cond", <<cond>>, <<yes, no>>))
ReturnValue(b, v) == mir_emit_term(b, Branch("ret", <<v>>, <<>>))

Assigned(b, op, args, ty) ==
    LET t == Temp(b.temps)
    IN  Emitted([mir_line(b, Typed(op, ty, t, args)) EXCEPT !.temps = @ + 1], t, ty)
StoreTo(b, v, slot) == mir_line(b, Instr("store", NoDest, <<v, slot>>))
Alloca(b, slot) == mir_line(b, Instr("alloca", slot, <<>>))

(* Variables, calls and sums are numbers.  An `if' is what its first side  *)
(* is.                                                                     *)
RECURSIVE mir_expr_type(_)
mir_expr_type(e) ==
    IF e.tag = "if_expr" THEN mir_expr_type(e.then)
    ELSE IF e.tag \in LogicTags \cup {"bool", "eq"} THEN "bool" ELSE "i32"

(* A bool that has to be a number is widened.  A number that has to be a   *)
(* bool is only called one: no instruction makes it 0 or 1.                *)
mir_cast_if_needed(v, ty) ==
    IF v.ty = ty THEN v
    ELSE IF ty = "i32" THEN Assigned(v.b, "zext", <<v.name>>, ty)
    ELSE Emitted(Fresh(v.b), v.name, ty)

(* What is taken for a bool is asked as it is.                             *)
mir_truthy(v) == IF v.ty = "bool" THEN v ELSE Assigned(v.b, "ne", <<v.name, Const(0)>>, "bool")

(* mir_expr_value_typed; mir_expr_value expects the expression's own type. *)
RECURSIVE mir_expr_value_typed(_, _, _)
mir_expr_value(b, e) == mir_expr_value_typed(b, e, mir_expr_type(e))

(* `and' and `or' store the answer of the side that decided: the left one, *)
(* then, in a block of its own, the right one.  Both are expected bools.   *)
SideStored(v, slot, end, label) == mir_block(BrTo(StoreTo(v.b, v.name, slot), end), label)
MirLogicRight(b, e, slot, l) ==
    Assigned(SideStored(mir_truthy(mir_expr_value_typed(b, e.right, "bool")), slot, l[3], l[3]),
             "load", <<slot>>, "bool")

MirLogicShort(b, cond, e, slot, l) ==
    LET conj == e.tag = "and"
        b1 == BrOn(Took(b, l), cond, l[IF conj THEN 2 ELSE 1], l[IF conj THEN 1 ELSE 2])
        short == Emitted(mir_block(b1, l[1]), Const(IF conj THEN 0 ELSE 1), "bool")
    IN  MirLogicRight(SideStored(short, slot, l[3], l[2]), e, slot, l)

MirLogicLeft(left, e) ==
    MirLogicShort(Alloca(Fresh(left.b), Temp(left.b.temps)), left.name, e, Temp(left.b.temps),
                  Labels(left.b, <<"logic.short", "logic.right", "logic.end">>))
MirLogic(b, e) == MirLogicLeft(mir_truthy(mir_expr_value_typed(b, e.left, "bool")), e)

(* Both sides are stored as the type the `if' is expected to have.         *)
MirIfExprElse(yes, e, ty, slot, l) ==
    Assigned(SideStored(mir_expr_value_typed(SideStored(yes, slot, l[3], l[2]), e.else, ty), slot, l[3], l[3]),
             "load", <<slot>>, ty)
MirIfExprThen(cond, e, ty, slot, l) ==
    MirIfExprElse(mir_expr_value_typed(mir_block(BrOn(cond.b, cond.name, l[1], l[2]), l[1]), e.then, ty),
                  e, ty, slot, l)
MirIfExprCond(b, e, ty, slot, l) ==
    MirIfExprThen(mir_truthy(mir_expr_value(Took(Alloca(Fresh(b), slot), l), e.cond)), e, ty, slot, l)
MirIfExpr(b, e, ty) ==
    MirIfExprCond(b, e, ty, Temp(b.temps), Labels(b, <<"ifexpr.then", "ifexpr.else", "ifexpr.end">>))

(* Both operands of a comparison or a sum are expected numbers.            *)
MirBinopDone(right, left, e) ==
    IF e.tag = "eq" THEN Assigned(right.b, "eq", <<left.name, right.name>>, "bool")
    ELSE Assigned(right.b, "add", <<left.name, right.name>>, "i32")
MirBinopRight(left, e) == MirBinopDone(mir_expr_value_typed(left.b, e.right, "i32"), left, e)
MirBinop(b, e) == MirBinopRight(mir_expr_value_typed(b, e.left, "i32"), e)

(* ty: the type that is expected; a constant, a comparison, `and' and `or' *)
(* do not look at it.                                                      *)
mir_expr_value_typed(b, e, ty) ==
    CASE e.tag = "num" -> Emitted(b, Const(e.n), "i32")
      [] e.tag = "bool" -> Emitted(b, Const(e.n), "bool")
      [] e.tag = "block_expr" -> Assigned(b, "const", <<Const(0)>>, ty)
      [] e.tag = "ident" -> mir_cast_if_needed(Assigned(b, "load", <<Slot(e.name)>>, "i32"), ty)
      [] e.tag = "read" -> mir_cast_if_needed(Assigned(b, "call", <<>>, "i32"), ty)
      [] e.tag = "closure" ->
            LET c == Assigned(b, "load", <<Slot(e.name)>>, "ptr")
            IN  mir_cast_if_needed(Assigned(c.b, "call_indirect", <<c.name>>, "i32"), ty)
      [] e.tag \in LogicTags -> MirLogic(b, e)
      [] e.tag = "if_expr" -> MirIfExpr(b, e, ty)
      [] e.tag \in {"add", "eq"} -> MirBinop(b, e)

MirCondition(b, e) == mir_truthy(mir_expr_value(b, e))
mir_store_expr_to_name(b, n, e) == LET v == mir_expr_value_typed(b, e, "i32") IN StoreTo(v.b, v.name, Slot(n))

-----------------------------------------------------------------------------
(* Statements.                                                             *)
MirSimple(b, s) ==
    CASE s.tag = "let" -> mir_store_expr_to_name(Alloca(b, Slot(s.name)), s.name, s.e)
      [] s.tag = "assign" -> mir_store_expr_to_name(b, s.name, s.e)
      [] s.tag = "print" -> LET v == mir_expr_value_typed(b, s.e, "i32") IN mir_line(v.b, Instr("print", NoDest, <<v.name>>))
      [] s.tag = "use" -> mir_expr_value(b, s.e).b
      [] s.tag = "return_expr" -> LET v == mir_expr_value_typed(b, s.e, "i32") IN ReturnValue(v.b, v.name)
      [] s.tag = "break" -> BrTo(b, BreakLabel(b))
      [] s.tag = "continue" -> BrTo(b, ContinueLabel(b))

MirIf(b, s, hasElse) ==
    LET l == Labels(b, <<"if.then", "if.else", "if.end">>)
        cond == MirCondition(Took(b, l), s.e)
        b1 == BrOn(cond.b, cond.name, l[1], IF hasElse THEN l[2] ELSE l[3])
    IN  Open(mir_block(b1, l[1]), Frame("if", l))

MirElse(b) == mir_block(BrTo(b, Top(b).l[3]), Top(b).l[2])
MirEndIf(b) == mir_block(BrTo(b, Top(b).l[3]), Top(b).l[3])

MirWhile(b, s) ==
    LET l == Labels(b, <<"while.cond", "while.body", "while.end">>)
        cond == MirCondition(mir_block(BrTo(Took(b, l), l[1]), l[1]), s.e)
    IN  Open(mir_block(BrOn(cond.b, cond.name, l[2], l[3]), l[2]), Frame("while", l))

MirEndWhile(b) == mir_block(BrTo(b, Top(b).l[1]), Top(b).l[3])

(* The end of the range has a variable of its own, read in every round.    *)
MirForCompared(cmp, s, l) ==
    Open(mir_block(BrOn(cmp.b, cmp.name, l[2], l[4]), l[2]), [Frame("for", l) EXCEPT !.i = Slot(s.name)])
MirForTested(iter, s, limit, l) ==
    LET last == Assigned(iter.b, "load", <<limit>>, "i32")
    IN  MirForCompared(Assigned(last.b, "lt", <<iter.name, last.name>>, "bool"), s, l)
MirForLimited(b, s, limit, l) ==
    MirForTested(mir_expr_value(SideStored(mir_expr_value_typed(Alloca(b, limit), s.hi, "i32"), limit, l[1], l[1]), Ident(s.name)),
                 s, limit, l)
MirForBegun(b, s, l) == MirForLimited(b, s, <<"limit", b.labels>>, l)
MirFor(b, s) ==
    LET l == Labels(b, <<"for.cond", "for.body", "for.step", "for.end">>)
    IN  MirForBegun(mir_store_expr_to_name(Alloca(Took(b, l), Slot(s.name)), s.name, s.lo), s, l)

MirEndFor(b) ==
    LET f == Top(b)
        cur == Assigned(mir_block(BrTo(b, f.l[3]), f.l[3]), "load", <<f.i>>, "i32")
        inc == Assigned(cur.b, "add", <<cur.name, Const(1)>>, "i32")
    IN  mir_block(BrTo(StoreTo(inc.b, inc.name, f.i), f.l[1]), f.l[4])

(* l: where the match ends, where the next test stands.                    *)
MirMatch(b, s) ==
    LET v == mir_expr_value(b, s.e)
        l == Labels(v.b, <<"match.end", "match.test">>)
    IN  Open(BrTo(Took(v.b, l), l[2]), [Frame("match", l) EXCEPT !.subject = v.name])

MirArm(b, s) ==
    LET f == Top(b)
        b1 == mir_block(BrTo(b, f.l[1]), f.l[2])
        l == Labels(b1, <<"match.body", "match.test">>)
        cmp == Assigned(Took(b1, l), "eq", <<f.subject, Const(s.pattern)>>, "bool")
    IN  IF s.pattern = DefaultPattern THEN Retop(b1, [f EXCEPT !.l[2] = NoDest])
        ELSE Retop(mir_block(BrOn(cmp.b, cmp.name, l[1], l[2]), l[1]), [f EXCEPT !.l[2] = l[2]])

(* Without a default arm the last test leads to the end.                   *)
MirEndMatch(b) ==
    LET f == Top(b)
        b1 == BrTo(b, f.l[1])
        b2 == IF f.l[2] = NoDest THEN b1 ELSE BrTo(mir_block(b1, f.l[2]), f.l[1])
    IN  mir_block(b2, f.l[1])

MirOpen(b, p, i) ==
    LET s == p[i] IN
    CASE s.tag = "if" -> MirIf(b, s, p[Boundary(p, i + 1)].tag = "else")
      [] s.tag = "while" -> MirWhile(b, s)
      [] s.tag = "for" -> MirFor(b, s)
      [] s.tag = "match" -> MirMatch(b, s)

MirClose(b) ==
    CASE Top(b).kind = "if" -> MirEndIf(b)
      [] Top(b).kind = "while" -> MirEndWhile(b)
      [] Top(b).kind = "for" -> MirEndFor(b)
      [] Top(b).kind = "match" -> MirEndMatch(b)

(* mir_stmt emits nothing into a block that is closed.                     *)
mir_stmt(b, p, i) ==
    LET s == p[i] IN
    CASE s.tag \in OpenTags -> IF mir_block_is_open(b) THEN MirOpen(b, p, i) ELSE Open(b, DeadFrame(s.tag))
      [] s.tag = "else" -> IF Top(b).dead THEN b ELSE MirElse(b)
      [] s.tag = "arm" -> IF Top(b).dead THEN b ELSE MirArm(b, s)
      [] s.tag = "end" -> Closed(IF Top(b).dead THEN b ELSE MirClose(b))
      [] OTHER -> IF mir_block_is_open(b) THEN MirSimple(b, s) ELSE b

(* A function: its closure parameters first, a return of zero at the end.  *)
mir_function_begin(params) ==
    LET Spill(b, x) == StoreTo(Alloca(b, Slot(x)), Param(x), Slot(x))
        begun == mir_block(mir_builder_new, Entry)
        spill[S \in SUBSET params] ==
            IF S = {} THEN begun
            ELSE LET x == CHOOSE y \in S : TRUE IN Spill(spill[S \ {x}], x)
    IN  spill[params]

mir_function_end(b) == ReturnValue(b, Const(0))
=============================================================================
