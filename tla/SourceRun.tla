----------------------------- MODULE SourceRun -----------------------------
(***************************************************************************)
(* What a program means: the statements of VixProgram with conditions,     *)
(* numbers, calls and prints, and a run of them on the source.  Both back  *)
(* ends (src/src/codegen.vix, src/src/mir/mir.vix) translate these.  A run *)
(* is known by its effects: what it read from a function outside, what a   *)
(* closure answered, what it printed and what it returned.                 *)
(***************************************************************************)
EXTENDS VixProgram

CONSTANTS Inputs,    \* what a function outside may answer
          MaxLog     \* a run is followed for so many effects

(* Expressions.                                                            *)
Num(n) == [tag |-> "num", n |-> n]
Bool(n) == [tag |-> "bool", n |-> n]
Read == [tag |-> "read"]
ClosureCall(f) == [tag |-> "closure", name |-> f]
EmptyBlock == [tag |-> "block_expr"]        \* a block without a value: zero
Add(l, r) == [tag |-> "add", left |-> l, right |-> r]
Eq(l, r) == [tag |-> "eq", left |-> l, right |-> r]
And(l, r) == [tag |-> "and", left |-> l, right |-> r]
Or(l, r) == [tag |-> "or", left |-> l, right |-> r]
IfExpr(c, t, e) == [tag |-> "if_expr", cond |-> c, then |-> t, else |-> e]
LogicTags == {"and", "or"}
Inc(e) == Add(e, Num(1))

LetVar(n, e) == Let(n, "copy", TRUE, e)
Show(e) == [tag |-> "print", e |-> e]
ForRange(n, lo, hi) == [tag |-> "for", name |-> n, lo |-> lo, hi |-> hi]
ArmOf(n) == [tag |-> "arm", pattern |-> n]
DefaultPattern == -1
MatchOn(e) == Match(e, FALSE)

-----------------------------------------------------------------------------
(* Structure.                                                              *)
HeadOf(p, i) == LastOf({j \in 1..i : p[j].tag \in OpenTags /\ EndOf(p, j + 1) >= i}, 0)
LoopAround(p, i) ==
    LastOf({j \in 1..i : p[j].tag \in {"while", "for"} /\ EndOf(p, j + 1) >= i}, 0)
ArmsOf(p, i) ==
    {j \in (i + 1)..EndOf(p, i + 1) : p[j].tag = "arm" /\ Balance(p, i + 1, j - 1) = 0}

(* What the lowering relies on: arms first in a match, the default arm the *)
(* last one, no name declared twice.                                       *)
Declared(s) == IF s.tag \in {"let", "for"} THEN {s.name} ELSE {}
Plain(p) ==
    /\ OnlyArms(p)
    /\ \A i \in DOMAIN p : p[i].tag = "match" =>
        \A j, k \in ArmsOf(p, i) : j < k => p[j].pattern # DefaultPattern
    /\ \A i, j \in DOMAIN p : i # j => Declared(p[i]) \cap Declared(p[j]) = {}

-----------------------------------------------------------------------------
(* Values of expressions: every way the functions outside may answer.      *)
Got(n, log) == [n |-> n, log |-> log]
Answers(kind, log) == {Got(n, Append(log, <<kind, n>>)) : n \in Inputs}

RECURSIVE Value(_, _, _)
Value(e, vals, log) ==
    LET Truthy(x, l) == {[r EXCEPT !.n = IF @ # 0 THEN 1 ELSE 0] : r \in Value(x, vals, l)}
    IN  CASE e.tag \in {"num", "bool"} -> {Got(e.n, log)}
          [] e.tag = "block_expr" -> {Got(0, log)}
          [] e.tag = "ident" -> {Got(vals[e.name], log)}
          [] e.tag \in {"read", "closure"} -> Answers(e.tag, log)
          [] e.tag \in {"add", "eq"} ->
                UNION {{[r EXCEPT !.n = IF e.tag = "add" THEN l.n + @ ELSE IF l.n = @ THEN 1 ELSE 0] :
                           r \in Value(e.right, vals, l.log)} : l \in Value(e.left, vals, log)}
          [] e.tag \in LogicTags ->
                UNION {IF (l.n # 0) = (e.tag = "or") THEN {l} ELSE Truthy(e.right, l.log) :
                          l \in Truthy(e.left, log)}
          [] e.tag = "if_expr" ->
                UNION {Value(IF c.n # 0 THEN e.then ELSE e.else, vals, c.log) :
                          c \in Value(e.cond, vals, log)}

-----------------------------------------------------------------------------
(* One statement of the run.  Where an `if', a loop or a match goes on is  *)
(* found in the bracket structure.                                         *)
With(vals, n, v) == [x \in DOMAIN vals \cup {n} |-> IF x = n THEN v ELSE vals[x]]

(* limits: the end of each `for', by its line.                             *)
NewRun == [pc |-> 1, vals |-> <<>>, limits |-> <<>>, log |-> <<>>, done |-> FALSE]
At(r, pc) == [r EXCEPT !.pc = pc]
Returned(r, got) == [r EXCEPT !.done = TRUE, !.log = Append(got.log, <<"ret", got.n>>)]
Cut(r) == Len(r.log) >= MaxLog

AfterElse(p, i) ==
    LET other == Boundary(p, i + 1) IN other + 1

ChosenArm(p, i, n) ==
    FirstOf({j \in ArmsOf(p, i) : p[j].pattern = n \/ p[j].pattern = DefaultPattern},
            EndOf(p, i + 1)) + 1

(* The loop at line i, its iterator at v, its limit known.                 *)
ForTest(p, i, r, v) ==
    LET s == [r EXCEPT !.vals = With(@, p[i].name, v)]
    IN  At(s, IF v < r.limits[i] THEN i + 1 ELSE EndOf(p, i + 1) + 1)

Advance(p, r) ==
    LET i == r.pc
        s == p[i]
        Of(e, To(_)) == {To(got) : got \in Value(e, r.vals, r.log)}
        Logged(got, pc) == [At(r, pc) EXCEPT !.log = got.log]
        again == LET h == LoopAround(p, i) IN
                 IF p[h].tag = "while" THEN At(r, h) ELSE ForTest(p, h, r, r.vals[p[h].name] + 1)
    IN  CASE s.tag \in {"let", "assign"} ->
                Of(s.e, LAMBDA got : [Logged(got, i + 1) EXCEPT !.vals = With(@, s.name, got.n)])
          [] s.tag = "print" -> Of(s.e, LAMBDA got : Logged(Got(0, Append(got.log, <<"print", got.n>>)), i + 1))
          [] s.tag = "use" -> Of(s.e, LAMBDA got : Logged(got, i + 1))
          [] s.tag = "return_expr" -> Of(s.e, LAMBDA got : Returned(r, got))
          [] s.tag = "if" -> Of(s.e, LAMBDA got : Logged(got, IF got.n # 0 THEN i + 1 ELSE AfterElse(p, i)))
          [] s.tag = "while" -> Of(s.e, LAMBDA got : Logged(got, IF got.n # 0 THEN i + 1 ELSE EndOf(p, i + 1) + 1))
          [] s.tag = "match" -> Of(s.e, LAMBDA got : Logged(got, ChosenArm(p, i, got.n)))
          [] s.tag = "for" ->
                UNION {{ForTest(p, i, [r EXCEPT !.log = hi.log, !.limits = With(@, i, hi.n)], lo.n) :
                           hi \in Value(s.hi, r.vals, lo.log)} : lo \in Value(s.lo, r.vals, r.log)}
          [] s.tag = "break" -> {At(r, EndOf(p, LoopAround(p, i) + 1) + 1)}
          [] s.tag = "continue" -> {again}
          [] s.tag \in DividerTags -> {At(r, EndOf(p, i + 1) + 1)}
          [] s.tag = "end" -> {IF p[HeadOf(p, i)].tag \in {"while", "for"} THEN again ELSE At(r, i + 1)}

(* The end of the body returns zero.                                       *)
SourceSteps(p, r) == IF r.pc > Len(p) THEN {Returned(r, Got(0, r.log))} ELSE Advance(p, r)
=============================================================================
