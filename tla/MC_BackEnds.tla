----------------------------- MODULE MC_BackEnds -----------------------------
(* Programs for BackEnds.                                                  *)
EXTENDS BackEnds

X == Ident("x")
Out == Show(X)
Leave == {Break, Continue, ReturnExpr(X)}
Tests == {Read, Bool(0), EmptyBlock}

(* The answer of an expression is printed.  q is what is asked: a          *)
(* comparison, or a number.                                                *)
Asked == Eq(Read, Num(1))
Logic(q, one) ==
    LET sides == {q, Bool(1), And(q, q), Or(q, Bool(0)), IfExpr(Read, q, one)}
    IN  {And(q, r) : r \in sides} \cup {Or(l, q) : l \in sides}
            \cup {Or(q, And(q, Or(q, q))), IfExpr(And(q, q), Inc(Read), EmptyBlock)}
Answers1 == {<<Show(e)>> : e \in Logic(Asked, Bool(1)) \cup Logic(Read, Num(1)) \cup {Eq(And(Asked, Asked), Asked)}}

(* A variable is changed on one side only.                                 *)
Branches ==
    {<<LetVar("x", Num(0)), If(c), a, Else, b, End, Out>> :
        c \in Tests, a \in {Assign("x", Num(1)), ReturnExpr(Read)}, b \in {Out, ReturnExpr(X)}}
    \cup {<<LetVar("x", Read), If(And(Eq(X, Num(1)), Asked)), Assign("x", Inc(X)), End, Out>>}

(* A loop is left or begun again from inside.                              *)
Whiles ==
    {<<LetVar("x", Num(0)), While(c), Assign("x", Inc(X)), If(Read), j, End, Out, End, Out>> :
        c \in {Read, Bool(1), And(Asked, Asked)}, j \in Leave}

Fors ==
    {<<LetVar("x", Num(1)), ForRange("i", Num(0), Num(2)), If(Read), j, Else, Assign("x", Ident("i")), End, End, Out>> :
        j \in Leave}
    \cup {<<LetVar("x", Read), ForRange("i", X, Num(2)), LetVar("y", Read), Show(Ident("y")), End, Out>>}
    \cup {<<LetVar("x", Num(0)), ForRange("i", Num(0), Num(2)), Assign("x", Inc(X)), End, Out>>}
    \cup {<<ForRange("i", Read, Inc(Read)), ForRange("j", Num(0), Ident("i")), j, Show(Num(1)), End, Show(Ident("i")), End>> :
        j \in {Break, Continue, Show(Ident("j"))}}

(* An arm for 0, perhaps one for 1, perhaps a default.                     *)
Matches ==
    {<<LetVar("x", Num(0)), While(Read), MatchOn(Read), ArmOf(0), a, Out>> \o rest \o <<End, Out, End, Out>> :
        a \in Leave \cup {Assign("x", Inc(X))},
        rest \in {<<>>, <<ArmOf(DefaultPattern), Assign("x", Num(1))>>,
                  <<ArmOf(1), Assign("x", Num(1)), ArmOf(DefaultPattern), ReturnExpr(X)>>}}

(* What is lowered in a block that was closed is not emitted.              *)
Unreached ==
    {<<If(Read), ReturnExpr(Num(1))>> \o dead \o <<End, Show(Num(0))>> :
        dead \in {<<While(Read), If(Read), Break, End, End>>,
                  <<MatchOn(Read), ArmOf(0), ReturnExpr(Num(0)), End>>,
                  <<ForRange("i", Num(0), Num(2)), Continue, End>>}}

(* A loop in an arm of a match in a loop, left from each depth.            *)
Deep ==
    {<<LetVar("x", Num(0)), ForRange("i", Num(0), Num(2)), MatchOn(Read), ArmOf(0), While(Or(Asked, Bool(0))),
       If(And(Asked, Eq(X, Num(0)))), a, Else, Assign("x", Inc(X)), b, End, End, Out,
       ArmOf(DefaultPattern), c, End, Out, End, Out>> :
        a \in Leave, b \in {Continue, Out}, c \in Leave \cup {Out}}

ClosureCalls ==
    {<<LetVar("x", ClosureCall("f")), While(X), Show(ClosureCall("f")), Assign("x", ClosureCall("f")), End>>}

AllPrograms == Answers1 \cup Branches \cup Whiles \cup Fors \cup Matches \cup Unreached \cup Deep \cup ClosureCalls
ASSUME ProgramsArePlain == \A p \in AllPrograms : Plain(p)

(* A number is the left operand of an `and'; the right one is a name that  *)
(* is given the value of another, and neither is stored to again.          *)
ChainedNumber == {<<LetVar("x", Read), LetVar("y", X), Show(And(Read, Ident("y")))>>}
=============================================================================
