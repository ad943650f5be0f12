----------------------------- MODULE IrBuilder -----------------------------
(***************************************************************************)
(* src/src/helper.c, the wrappers of the LLVM builder the code generator   *)
(* calls.  LLVM itself is external: a function is its blocks in the order  *)
(* they were appended, each a sequence of instructions, and the builder    *)
(* stands at the end of one of them.                                       *)
(***************************************************************************)
EXTENDS Lowering

NewFunction == [blocks |-> <<>>, code |-> <<>>, cur |-> Entry, temps |-> 0, labels |-> 0, frames |-> <<>>]

vix_LLVMAppendBasicBlock(g, label) ==
    [g EXCEPT !.blocks = Append(@, label), !.code = Extend(@, label, <<>>)]
vix_LLVMPositionBuilderAtEnd(g, label) == [g EXCEPT !.cur = label]
vix_LLVMGetInsertBlock(g) == g.cur

vix_LLVMGetBasicBlockTerminator(g, label) ==
    IF g.code[label] = <<>> THEN NoDest
    ELSE LET last == g.code[label][Len(g.code[label])]
         IN  IF last.op \in Terminators THEN <<last.op, Len(g.code[label])>> ELSE NoDest

Insert(g, line) == [g EXCEPT !.code[g.cur] = Append(@, line)]

\* Mutant of vix_LLVMBuildAlloca: the slot is taken where the builder stands.
vix_LLVMBuildAllocaWrong(g, slot) == Insert(g, Instr("alloca", slot, <<>>))

(* Slots are taken at the front of the entry block, wherever the builder   *)
(* stands: a slot taken in a loop would grow the stack in every round.     *)
vix_LLVMBuildAlloca(g, slot) ==
    [g EXCEPT !.code[Entry] = <<Instr("alloca", slot, <<>>)>> \o @]

vix_LLVMBuildStore(g, v, slot) == Insert(g, Instr("store", NoDest, <<v, slot>>))

(* An instruction with a result.  The wrappers of the other operations     *)
(* (subtraction to negation) differ from that of addition in `op' alone.   *)
Built(g, op, args, ty) ==
    LET t == Temp(g.temps) IN Emitted(Fresh(Insert(g, Typed(op, ty, t, args))), t, ty)

vix_LLVMBuildLoad2(g, slot, ty) == Built(g, "load", <<slot>>, ty)
vix_LLVMBuildAdd(g, l, r) == Built(g, "add", <<l, r>>, "i32")
vix_LLVMBuildICmp(g, op, l, r) == Built(g, op, <<l, r>>, "bool")
vix_LLVMBuildZExt(g, v) == Built(g, "zext", <<v>>, "i32")
vix_LLVMBuildCall2(g, op, args) == Built(g, op, args, "i32")

vix_LLVMBuildPHI(g) == Built(g, "phi", <<>>, "i32")
vix_LLVMAddIncoming(g, phi, value, block) ==
    LET k == CHOOSE k \in DOMAIN g.code[g.cur] : g.code[g.cur][k].dest = phi
    IN  [g EXCEPT !.code[g.cur][k].args = Append(@, value), !.code[g.cur][k].to = Append(@, block)]

vix_LLVMBuildBr(g, dest) == Insert(g, Branch("br", <<>>, <<dest>>))
vix_LLVMBuildCondBr(g, cond, yes, no) == Insert(g, Branch("br_cond", <<cond>>, <<yes, no>>))
vix_LLVMBuildRet(g, v) == Insert(g, Branch("ret", <<v>>, <<>>))

(* The text of the function.                                               *)
Printed(g) ==
    LET text[k \in 0..Len(g.blocks)] ==
            IF k = 0 THEN <<>>
            ELSE text[k - 1] \o <<BlockLine(g.blocks[k])>> \o g.code[g.blocks[k]]
    IN  text[Len(g.blocks)]
=============================================================================
