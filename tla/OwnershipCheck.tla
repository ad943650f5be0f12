--------------------------- MODULE OwnershipCheck ---------------------------
(***************************************************************************)
(* The ownership and borrow checker: ownership_check_function and          *)
(* everything it calls (src/analysis/typed_analysis.vix:355-916), walking  *)
(* one function body statement by statement.                               *)
(*                                                                         *)
(* The recursion of ownership_check_stmt is the stack `frames', one frame  *)
(* per region being walked.  A frame keeps the state its caller holds on   *)
(* to while it walks clones of it: `base' is the state of the caller,      *)
(* `left' the clone that walked the `then' region of an `if'.  `st' is the *)
(* state of the innermost walk.                                            *)
(***************************************************************************)
EXTENDS OwnershipState

CONSTANTS
    Programs,       \* the function bodies to check
    Params,         \* the entries of globals and parameters, in order
    ReturnType,     \* the declared return type, one of Types
    MaxPasses       \* the bound on the passes over a `while' body (8 in the code)

ASSUME ProgramsAssumption == \A p \in Programs : p \in Seq(Statement) /\ OnlyArms(p)
ASSUME ParamsAssumption ==
    /\ Params \in Seq(Entry)
    /\ \A i \in DOMAIN Params :
        Params[i] = NewEntry(Params[i].name, Params[i].ty, Params[i].mutable, Params[i].param)
ASSUME ReturnTypeAssumption == ReturnType \in Types
ASSUME MaxPassesAssumption == MaxPasses \in Nat \ {0}

VARIABLES prog, pc, st, frames, finished,
    reported        \* history: every diagnostic any walk has reported

checkVars == <<prog, pc, st, frames, finished, reported>>

-----------------------------------------------------------------------------
(* Expressions.  consume says whether the value is taken.                  *)
CheckIdent(s, n, consume, line) ==
    LET i == Find(s.vars, n) IN
    IF i = 0 THEN s
    ELSE IF s.vars[i].status = "Moved" THEN Report(s, "E5001", n, line)
    ELSE IF ~consume \/ IsCopy(s.vars[i].ty) THEN s
    ELSE IF Borrowed(s.vars[i]) THEN Report(s, "E5002", n, line)
    ELSE [s EXCEPT !.vars[i].status = "Moved"]

(* The entry a granted borrow was taken from, 0 when it was refused.       *)
Lender(vars, n, m) == IF Granted(vars, n, m) THEN Find(vars, n) ELSE 0

(* A borrow that lasts for its own expression: created, then given back.   *)
CheckAddr(s, n, m, line) ==
    [CreateBorrow(s, n, m, line) EXCEPT !.vars = ReleaseDirect(@, Lender(s.vars, n, m), m)]

CheckSimpleExpr(s, e, consume, line) ==
    CASE e.tag = "ident" -> CheckIdent(s, e.name, consume, line)
      [] e.tag = "addr" -> CheckAddr(s, e.name, e.mutable, line)
      [] OTHER -> s

(* `&x' or `&mut x' given to a reference parameter: held until the call    *)
(* is over.                                                                *)
IsDirect(arg) == IsReference(arg.param) /\ arg.e.tag = "addr"

CheckArg(s, arg, line) ==
    IF ~IsDirect(arg) THEN CheckSimpleExpr(s, arg.e, ~IsReference(arg.param), line)
    ELSE LET lent == CreateBorrow(s, arg.e.name, arg.e.mutable, line)
         IN  IF arg.param = "mut" /\ ~arg.e.mutable
             THEN Report(lent, "E5005", arg.e.name, line)
             ELSE lent

ReleaseArg(vars, before, arg) ==
    IF IsDirect(arg)
    THEN ReleaseDirect(vars, Lender(before, arg.e.name, arg.e.mutable), arg.e.mutable)
    ELSE vars

CheckCall(s, e, line) ==
    LET s1 == CheckArg(s, e.first, line)
        s2 == CheckArg(s1, e.second, line)
    IN  [s2 EXCEPT !.vars = ReleaseArg(ReleaseArg(@, s.vars, e.first), s1.vars, e.second)]

CheckExpr(s, e, consume, line) ==
    CASE e.tag = "call" -> CheckCall(s, e, line)
      [] e.tag = "refcall" -> CheckAddr(s, e.name, e.mutable, line)
      [] OTHER -> CheckSimpleExpr(s, e, consume, line)

-----------------------------------------------------------------------------
(* Simple statements.                                                      *)

(* `let n = &source': the reference stays released when it is refused.     *)
LetBorrow(s, n, m, source, borrowMut, line) ==
    LET borrowEnd == IF Granted(s.vars, source, borrowMut)
                     THEN LastOf({LastUse(prog, n), line}, line) ELSE Released
    IN  AddVar(CreateBorrow(s, source, borrowMut, line),
               NewRefEntry(n, RefType(borrowMut), m, source, borrowMut, borrowEnd))

CheckLet(s, x, line) ==
    CASE x.e.tag = "addr" -> LetBorrow(s, x.name, x.mutable, x.e.name, x.e.mutable, line)
      [] x.e.tag = "refcall" ->
            LetBorrow(CheckExpr(s, x.e, FALSE, line),
                      x.name, x.mutable, x.e.name, x.e.returnsMut, line)
      [] x.e.tag = "call" /\ IsReference(x.ty) ->   \* no argument it could borrow from
            AddVar(Report(CheckExpr(s, x.e, FALSE, line), "E5008", NoName, line),
                   NewRefEntry(x.name, x.ty, x.mutable, NoName, FALSE, Released))
      [] OTHER ->
            LET ty == IF x.e.tag = "ident" THEN TypeOf(s.vars, x.e.name) ELSE x.ty
            IN  AddVar(CheckExpr(s, x.e, TRUE, line), NewEntry(x.name, ty, x.mutable, 0))

ReportIf(cond, s, code, n, line) == IF cond THEN Report(s, code, n, line) ELSE s

CheckAssign(s, x, line) ==
    LET i == Find(s.vars, x.name) IN
    IF i = 0 THEN CheckExpr(s, x.e, TRUE, line)
    ELSE LET s1 == ReportIf(~s.vars[i].mutable, s, "E5004", x.name, line)
             s2 == ReportIf(Borrowed(s.vars[i]), s1, "E5002", x.name, line)
         IN  [CheckExpr(s2, x.e, TRUE, line) EXCEPT !.vars[i].status = "Available"]

(* ownership_check_mutation of the place's root.                           *)
CheckMutation(s, n, line) ==
    LET i == Find(s.vars, n) IN
    IF i = 0 THEN s
    ELSE IF s.vars[i].ty = "shr" THEN Report(s, "E5006", n, line)
    ELSE IF s.vars[i].ty # "mut" /\ ~s.vars[i].mutable THEN Report(s, "E5004", n, line)
    ELSE ReportIf(Borrowed(s.vars[i]), s, "E5002", n, line)

CheckStore(s, x, line) ==
    LET place == CheckIdent(CheckMutation(s, x.name, line), x.name, FALSE, line)
    IN  CheckExpr(place, x.e, TRUE, line)

(* The name a returned reference borrows from, NoName when unknown.        *)
ReturnSource(s, e) ==
    CASE e.tag = "addr" -> e.name
      [] e.tag = "ident" /\ Find(s.vars, e.name) # 0 ->
            LET v == s.vars[Find(s.vars, e.name)]
            IN  IF v.source # NoName THEN v.source
                ELSE IF IsReference(v.ty) THEN e.name ELSE NoName
      [] OTHER -> NoName

OutlivesWrong(v) == v.param # 0
Outlives(v) == v.param = 2 \/ (v.param = 1 /\ IsReference(v.ty))

CheckReturn(s, e, line) ==
    LET source == ReturnSource(s, e)
        i == Find(s.vars, source)
    IN  IF ~IsReference(ReturnType) THEN s
        ELSE ReportIf(\/ source = NoName
                      \/ i = 0
                      \/ ~Outlives(s.vars[i])
                      \/ ReturnType = "mut" /\ s.vars[i].ty # "mut",
                      s, "E5008", source, line)

CheckReturnExpr(s, x, line) ==
    [CheckExpr(CheckReturn(s, x.e, line), x.e, ~IsReference(ReturnType), line)
        EXCEPT !.terminated = TRUE]

(* `break' and `continue' fall through every case of ownership_check_stmt. *)
CheckSimple(s, x, line) ==
    CASE x.tag = "let" -> CheckLet(s, x, line)
      [] x.tag = "assign" -> CheckAssign(s, x, line)
      [] x.tag = "store" -> CheckStore(s, x, line)
      [] x.tag = "use" -> CheckExpr(s, x.e, FALSE, line)
      [] x.tag = "return_expr" -> CheckReturnExpr(s, x, line)
      [] x.tag = "return" -> [s EXCEPT !.terminated = TRUE]
      [] OTHER -> s

-----------------------------------------------------------------------------
(* Merging clones back.                                                    *)
MergeVarsWrong(vars, l, r) ==   \* a value moved on one side only stays available
    [i \in DOMAIN vars |->
        [vars[i] EXCEPT
            !.status = IF l[i].status = r[i].status THEN l[i].status ELSE "Available",
            !.shared = IF l[i].shared > r[i].shared THEN l[i].shared ELSE r[i].shared,
            !.mutBorrow = l[i].mutBorrow \/ r[i].mutBorrow]]

MergeVars(vars, l, r) ==
    [i \in DOMAIN vars |->
        [vars[i] EXCEPT
            !.status = IF "Moved" \in {l[i].status, r[i].status} THEN "Moved" ELSE "Available",
            !.shared = IF l[i].shared > r[i].shared THEN l[i].shared ELSE r[i].shared,
            !.mutBorrow = l[i].mutBorrow \/ r[i].mutBorrow]]

MergeDiags(target, s) == [target EXCEPT !.diags = @ \cup s.diags]
MergeState(target, l, r) ==
    [MergeDiags(MergeDiags(target, l), r) EXCEPT !.vars = MergeVars(@, l.vars, r.vars)]

JoinBranches(base, l, r) ==
    IF l.terminated /\ r.terminated
    THEN [MergeDiags(MergeDiags(base, l), r) EXCEPT !.terminated = TRUE]
    ELSE IF l.terminated THEN MergeDiags(MergeState(base, r, r), l)
    ELSE IF r.terminated THEN MergeDiags(MergeState(base, l, l), r)
    ELSE MergeState(base, l, r)

JoinOntoWrong(base, s) ==       \* the diagnostics of a body that returns are dropped
    IF s.terminated THEN base ELSE MergeState(base, base, s)

(* One loop body or match arm folded into the state of the statement.      *)
JoinOnto(base, s) ==
    IF s.terminated THEN MergeDiags(base, s) ELSE MergeState(base, base, s)

-----------------------------------------------------------------------------
(* The walk.                                                               *)
NoState == [vars |-> <<>>, diags |-> {}, terminated |-> FALSE]
Kinds == {"block", "then", "else", "while", "for", "match", "arm"}
Frame == [kind : Kinds, base : State, left : State, start : Nat,
          head : Nat, passes : Nat, joined : BOOLEAN]

NewFrame(kind, base, start) ==
    [kind |-> kind, base |-> base, left |-> NoState, start |-> start,
     head |-> pc, passes |-> 0, joined |-> FALSE]

Top == frames[Len(frames)]
Push(f) == frames' = Append(frames, f)
Pop == frames' = SubSeq(frames, 1, Len(frames) - 1)
ReplaceTop(f) == frames' = [frames EXCEPT ![Len(frames)] = f]

Walking == ~finished /\ pc <= Len(prog)
At(tag) == Walking /\ prog[pc].tag = tag
Opening(tag) == At(tag) /\ ~st.terminated
Closing(tag, kinds) == At(tag) /\ frames # <<>> /\ Top.kind \in kinds

Init ==
    /\ prog \in Programs
    /\ pc = 1
    /\ st = [vars |-> Params, diags |-> {}, terminated |-> FALSE]
    /\ frames = <<>>
    /\ finished = FALSE
    /\ reported = {}

SimpleStmt ==
    /\ Walking /\ ~st.terminated /\ prog[pc].tag \in SimpleTags
    /\ st' = CheckSimple(Expire(st, pc), prog[pc], pc)
    /\ pc' = pc + 1
    /\ UNCHANGED <<prog, frames, finished>>

(* The rest of a region is not walked once the region has returned.        *)
SkipDeadCode ==
    /\ Walking /\ st.terminated
    /\ pc # Boundary(prog, pc)
    /\ pc' = Boundary(prog, pc)
    /\ UNCHANGED <<prog, st, frames, finished>>

OpenBlock ==
    /\ Opening("block")
    /\ st' = Expire(st, pc)
    /\ Push(NewFrame("block", st', Len(st.vars)))
    /\ pc' = pc + 1
    /\ UNCHANGED <<prog, finished>>

OpenCondition(tag, kind) ==
    /\ Opening(tag)
    /\ st' = CheckExpr(Expire(st, pc), prog[pc].e, FALSE, pc)
    /\ Push(NewFrame(kind, st', Len(st.vars)))
    /\ pc' = pc + 1
    /\ UNCHANGED <<prog, finished>>

OpenIf == OpenCondition("if", "then")
OpenWhile == OpenCondition("while", "while")
OpenMatch == OpenCondition("match", "match")

OpenFor ==
    /\ Opening("for")
    /\ LET base == Expire(st, pc)
       IN  /\ Push(NewFrame("for", base, Len(st.vars) + 1))
           /\ st' = AddVar(base, NewEntry(prog[pc].name, "copy", TRUE, 0))
    /\ pc' = pc + 1
    /\ UNCHANGED <<prog, finished>>

EnterElse ==
    /\ Closing("else", {"then"})
    /\ ReplaceTop([Top EXCEPT !.kind = "else", !.left = LeaveScope(st, Top.start)])
    /\ st' = Expire(Top.base, pc)
    /\ pc' = pc + 1
    /\ UNCHANGED <<prog, finished>>

(* The arms of a match join one by one onto the state later arms clone.    *)
EnterArm ==
    /\ Closing("arm", {"match", "arm"})
    /\ LET arm == LeaveScope(st, Top.start)
           joined == IF Top.kind = "match" THEN Top.base ELSE JoinOnto(Top.base, arm)
       IN  /\ ReplaceTop([Top EXCEPT !.kind = "arm", !.base = joined,
                                     !.joined = @ \/ (Top.kind = "arm" /\ ~arm.terminated)])
           /\ st' = Expire(joined, pc)
    /\ pc' = pc + 1
    /\ UNCHANGED <<prog, finished>>

Close(kinds, s) ==
    /\ Closing("end", kinds)
    /\ st' = s
    /\ Pop
    /\ pc' = pc + 1
    /\ UNCHANGED <<prog, finished>>

EndBlock == Close({"block"}, LeaveScope(st, Top.start))
EndThen == Close({"then"}, JoinBranches(Top.base, LeaveScope(st, Top.start), Top.base))
EndElse == Close({"else"}, JoinBranches(Top.base, Top.left, LeaveScope(st, Top.start)))
EndFor == Close({"for"}, JoinOnto(Top.base, LeaveScope(st, Top.start)))
EndEmptyMatch == Close({"match"}, Top.base)
EndMatch ==
    LET arm == LeaveScope(st, Top.start)
        joined == JoinOnto(Top.base, arm)
    IN  Close({"arm"}, [joined EXCEPT !.terminated = @ \/ (arm.terminated /\ ~Top.joined)])

(* Another pass over a `while' body, until a pass changes nothing.         *)
PassResult == JoinOnto(Top.base, LeaveScope(st, Top.start))
AgainWrong == PassResult.vars # Top.base.vars /\ Top.passes + 1 < 1
Again == PassResult.vars # Top.base.vars /\ Top.passes + 1 < MaxPasses

RepeatWhileWrong ==             \* whatever the pass changed, and passes not counted
    /\ Closing("end", {"while"})
    /\ ReplaceTop([Top EXCEPT !.base = PassResult])
    /\ st' = PassResult
    /\ pc' = Top.head + 1
    /\ UNCHANGED <<prog, finished>>

RepeatWhile ==
    /\ Closing("end", {"while"})
    /\ Again
    /\ ReplaceTop([Top EXCEPT !.base = PassResult, !.passes = @ + 1])
    /\ st' = PassResult
    /\ pc' = Top.head + 1
    /\ UNCHANGED <<prog, finished>>

EndWhile == Close({"while"}, PassResult) /\ ~Again

Finish ==
    /\ ~finished /\ pc = Len(prog) + 1 /\ frames = <<>>
    /\ st' = LeaveScope(st, Len(Params))
    /\ finished' = TRUE
    /\ UNCHANGED <<prog, pc, frames>>

Step ==
    \/ SimpleStmt \/ SkipDeadCode
    \/ OpenBlock \/ OpenIf \/ OpenWhile \/ OpenMatch \/ OpenFor
    \/ EnterElse \/ EnterArm
    \/ EndBlock \/ EndThen \/ EndElse \/ EndFor \/ EndEmptyMatch \/ EndMatch
    \/ RepeatWhile \/ EndWhile
    \/ Finish

Check == Step /\ reported' = reported \cup st'.diags

Spec == Init /\ [][Check]_checkVars
FairSpec == Spec /\ WF_checkVars(Check)

Accepted == finished /\ st.diags = {}

-----------------------------------------------------------------------------
(* Properties.                                                             *)
TypeOK ==
    /\ prog \in Programs
    /\ pc \in 1..(Len(prog) + 1)
    /\ st \in State
    /\ frames \in Seq(Frame)
    /\ finished \in BOOLEAN
    /\ reported \in SUBSET Diagnostic

(***************************************************************************)
(* No diagnostic is lost: whatever a walk of any clone reports - in a      *)
(* branch that returns, in an arm, in a pass over a loop body that is      *)
(* walked again - is among the diagnostics of the finished check.          *)
(* ownership_check_function decides acceptance from the final state only.  *)
(***************************************************************************)
NoDiagnosticLost == finished => st.diags = reported

(***************************************************************************)
(* The counters never claim that an owner is borrowed both mutably and     *)
(* shared, through every merge that takes the maximum of two clones - if   *)
(* no reference hides its owner: `let x = &mut x' in a branch is given     *)
(* back to itself, and the outer x stays borrowed for good.                *)
(***************************************************************************)
Borrowing(s) == s.tag = "let" /\ s.e.tag \in {"addr", "refcall"}
OwnersNotHidden == \A k \in DOMAIN prog : Borrowing(prog[k]) => prog[k].e.name # prog[k].name

Exclusive ==
    OwnersNotHidden => \A i \in DOMAIN st.vars : ~(st.vars[i].mutBorrow /\ st.vars[i].shared > 0)

(***************************************************************************)
(* The borrows an owner's counters claim are exactly the references that   *)
(* are out: active, not yet released, and naming it as their source.       *)
(* Counters are taken up and given back in four places (create_borrow,     *)
(* release_direct, expire_borrows, leave_scope), once each per borrow in   *)
(* straight-line code whose names are apart: a source is looked up by its  *)
(* name again when it is given back.  Regions break it: see                *)
(* MC_OwnershipMoves.                                                      *)
(***************************************************************************)
Out(vars, i, m) ==
    {r \in DOMAIN vars : /\ vars[r].active /\ vars[r].borrowEnd >= 0
                         /\ vars[r].borrowMut = m /\ Find(vars, vars[r].source) = i}

NamesApart ==
    \A j \in DOMAIN prog : prog[j].tag = "let" =>
        /\ \A k \in 1..(j - 1) : ~(prog[k].tag = "let" /\ prog[k].name = prog[j].name)
        /\ \A i \in DOMAIN Params : Params[i].name # prog[j].name
StraightLine == NamesApart /\ \A k \in DOMAIN prog : prog[k].tag \in SimpleTags

Accounting ==
    StraightLine => \A i \in DOMAIN st.vars : st.vars[i].active =>
        /\ st.vars[i].shared = Cardinality(Out(st.vars, i, FALSE))
        /\ st.vars[i].mutBorrow <=> Out(st.vars, i, TRUE) # {}

(***************************************************************************)
(* Aliasing or mutation, never both: in straight-line code, while a        *)
(* mutable reference is out, no other reference to its owner is.           *)
(***************************************************************************)
AliasXorMutable ==
    StraightLine => \A i \in DOMAIN st.vars : Out(st.vars, i, TRUE) # {} =>
        Cardinality(Out(st.vars, i, TRUE) \cup Out(st.vars, i, FALSE)) = 1

(***************************************************************************)
(* The passes over a `while' body stop because the last one changed        *)
(* nothing, never because the bound on the passes was hit: the state that  *)
(* follows the loop covers every number of iterations.                     *)
(***************************************************************************)
LoopsSettle ==
    Closing("end", {"while"}) /\ ~Again => PassResult.vars = Top.base.vars

(* The check of a function body comes to an end, whatever loops it has.    *)
Terminates == <>finished
=============================================================================
