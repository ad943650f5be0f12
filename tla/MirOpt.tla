------------------------------- MODULE MirOpt -------------------------------
(***************************************************************************)
(* The optimiser of MIR: src/src/mir/opt.vix, and in src/src/helper.c the  *)
(* scalar pass that it calls.  Both work on the text of a function; here   *)
(* a line is an instruction, and a token of it an operand.                 *)
(***************************************************************************)
EXTENDS MirEmit
LOCAL INSTANCE SequencesExt

Keep(code, Kept(_)) ==
    LET keep[i \in 0..Len(code)] ==
            IF i = 0 THEN <<>>
            ELSE IF Kept(i) THEN Append(keep[i - 1], code[i]) ELSE keep[i - 1]
    IN  keep[Len(code)]

mir_contains_token(line, v) == v \in RangeOf(line.args)
mir_replace_token(line, alias) ==
    [line EXCEPT !.args = Tuple([k \in DOMAIN @ |-> IF @[k] = alias.name THEN alias.value ELSE @[k]])]

(* The aliases one after the other, in the order they were found.          *)
Rewritten(line, aliases) == FoldLeft(mir_replace_token, line, aliases)

-----------------------------------------------------------------------------
(* mir_opt_promote_single_store_allocas.                                   *)
IsStoreTo(line, slot) == line.op = "store" /\ line.args[2] = slot
IsLoadOf(line, slot) == line.op = "load" /\ line.args[1] = slot

mir_opt_slot_is_address_only(code, slot) ==
    \A i \in DOMAIN code : mir_contains_token(code[i], slot) =>
        \/ IsLoadOf(code[i], slot)
        \/ IsStoreTo(code[i], slot)

StoredOnce(code, slot) ==
    LET stores == {i \in DOMAIN code : IsStoreTo(code[i], slot)}
    IN  Cardinality(stores) = 1 /\ \A i \in stores : BlockOf(code, i) = Entry

mir_opt_promotable(code) ==
    {slot \in {code[i].dest : i \in LinesWith(code, "alloca")} :
        mir_opt_slot_is_address_only(code, slot) /\ StoredOnce(code, slot)}

(* A load of a promoted slot is an alias of what the slot was given; the   *)
(* lines that stay are rewritten, the aliases themselves are not.          *)
mir_opt_promote_single_store_allocas(code) ==
    LET slots == mir_opt_promotable(code)
        Given(slot) == code[CHOOSE i \in DOMAIN code : IsStoreTo(code[i], slot)].args[1]
        Step(acc, line) ==
            IF line.op = "alloca" /\ line.dest \in slots THEN acc
            ELSE IF \E slot \in slots : IsStoreTo(line, slot) THEN acc
            ELSE IF \E slot \in slots : IsLoadOf(line, slot)
            THEN [acc EXCEPT !.aliases = Append(@, [name |-> line.dest, value |-> Given(line.args[1])])]
            ELSE [acc EXCEPT !.out = Append(@, Rewritten(line, acc.aliases))]
    IN  FoldLeft(Step, [out |-> <<>>, aliases |-> <<>>], code).out

-----------------------------------------------------------------------------
(* vix_mir_opt_scalar.                                                     *)
\* Mutant of mir_fold_branch: the labels are taken the other way round.
mir_fold_branchWrong(line) ==
    IF line.op = "br_cond" /\ IsConst(line.args[1])
    THEN Branch("br", <<>>, <<line.to[IF line.args[1] = Const(1) THEN 2 ELSE 1]>>) ELSE line
mir_fold_branch(line) ==
    IF line.op = "br_cond" /\ line.args[1] \in {Const(0), Const(1)}
    THEN Branch("br", <<>>, <<line.to[IF line.args[1] = Const(1) THEN 1 ELSE 2]>>) ELSE line

(* Copies and integer constants are aliases from their line on.            *)
mir_alias_value(line) == IF line.op \in {"copy", "const"} THEN line.args[1] ELSE NoDest

mir_propagate(code) ==
    LET Step(acc, line) ==
            LET l == Rewritten(line, acc.aliases)
            IN  [out |-> Append(acc.out, mir_fold_branch(l)),
                 aliases |-> IF mir_alias_value(l) = NoDest THEN acc.aliases
                             ELSE Append(acc.aliases, [name |-> l.dest, value |-> mir_alias_value(l)])]
    IN  FoldLeft(Step, [out |-> <<>>, aliases |-> <<>>], code).out

(* A line whose result no other line uses goes, unless it is a call.       *)
mir_unused(code) ==
    {i \in DOMAIN code :
        /\ code[i].dest # NoDest /\ code[i].op # "call"
        /\ \A j \in DOMAIN code : j # i => ~mir_contains_token(code[j], code[i].dest)}

RECURSIVE mir_drop_unused(_)
mir_drop_unused(code) ==
    LET unused == mir_unused(code)
        Used(i) == i \notin unused
    IN  IF unused = {} THEN code ELSE mir_drop_unused(Keep(code, Used))

mir_opt_function(code) == mir_drop_unused(mir_propagate(code))

-----------------------------------------------------------------------------
(* The blocks.                                                             *)
mir_opt_remove_unreachable(code) ==
    LET Reached(i) == code[i].op = "block"
                        \/ \A j \in BlockStart(code, i)..(i - 1) : code[j].op \notin Terminators
    IN  Keep(code, Reached)

(* A block without a line is the one that follows.                         *)
mir_opt_remove_empty_blocks(code) ==
    LET Empty(i) == /\ code[i].op = "block" /\ code[i].to[1] # Entry
                    /\ i < Len(code) /\ code[i + 1].op = "block"
        empty == {i \in DOMAIN code : Empty(i)}
        Filled(i) == i \notin empty
        Past(label) == IF \E i \in empty : code[i].to[1] = label
                       THEN code[FirstOf({j \in DOMAIN code : code[j].op = "block" /\ j > LineOf(code, label)
                                            /\ j \notin empty}, 0)].to[1] ELSE label
        onward == [i \in DOMAIN code |-> [code[i] EXCEPT !.to = Tuple([k \in DOMAIN @ |-> Past(@[k])])]]
    IN  IF empty = {} THEN code ELSE Keep(onward, Filled)

(* A branch to the block that follows is left to fall through.             *)
mir_opt_remove_fallthrough_branches(code) ==
    LET Needed(i) == ~(code[i].op = "br" /\ i < Len(code) /\ code[i + 1] = BlockLine(code[i].to[1]))
    IN  Keep(code, Needed)
=============================================================================
