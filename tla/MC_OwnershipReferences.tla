----------------------- MODULE MC_OwnershipReferences -----------------------
(* References: two to one owner and every clash between them in straight-   *)
(* line code; two to two owners, one of them a global, with the borrows     *)
(* recorded on them; one through branches, blocks and arms; and functions   *)
(* that return one, out of every kind of region.                            *)
EXTENDS OwnershipSound, ProgramFamilies

MCNames == {"g", "p", "v", "x", "r", "q", "i"}
MCParams == <<NewEntry("g", "own", TRUE, 2), NewEntry("p", "shr", FALSE, 1),
              NewEntry("v", "own", FALSE, 1)>>
Parameters == {"g", "p", "v"}
Fresh == Let("x", "own", TRUE, Lit)
Consume == Use(Call(Arg("own", Ident("x")), NoArg))
LetRef(n, m) == Let(n, RefType(m), FALSE, Addr("x", m))
LetDerived(n, m, returnsMut) == Let(n, RefType(returnsMut), FALSE, RefCall("x", m, returnsMut))
Lend(m) == Arg(RefType(m), Addr("x", m))
Pass(n) == Arg("shr", Ident(n))

Owner == {Consume, Assign("x", Lit), Store("x", Lit), Use(Ident("x"))}
OneRef(n) == {LetRef(n, m) : m \in BOOLEAN} \cup {Use(Ident(n))}

Flat == Owner \cup OneRef("r") \cup OneRef("q") \cup
    {Store("r", Lit), LetDerived("r", TRUE, FALSE), LetDerived("r", FALSE, TRUE),
     Use(Call(Lend(TRUE), Lend(FALSE))), Use(Call(Pass("r"), Lend(FALSE)))}
Taken == Let("x", "own", TRUE, Ident("v"))
LetRefs(n, owner) == {Let(n, RefType(m), FALSE, Addr(owner, m)) : m \in BOOLEAN}
LendOf(owner, m) == Arg(RefType(m), Addr(owner, m))
TwoOwners ==
    LetRefs("r", "x") \cup LetRefs("r", "g") \cup LetRefs("q", "x") \cup
    {Use(Ident("r")), Use(Ident("q")), Use(Addr("x", TRUE)), Consume, Assign("x", Lit), Return,
     Let("q", "shr", FALSE, Call(NoArg, NoArg)), Let("q", "mut", FALSE, RefCall("g", TRUE, TRUE)),
     Use(Call(LendOf("x", TRUE), LendOf("x", FALSE))), Use(Call(LendOf("g", FALSE), LendOf("x", TRUE)))}
Nested == {Consume, Assign("x", Lit), LetRef("r", TRUE), LetRef("r", FALSE), Use(Ident("r")), End}

LetTo(owner) == Let("r", "shr", FALSE, Addr(owner, FALSE))
LetThrough(owner) == Let("r", "shr", FALSE, RefCall(owner, FALSE, FALSE))
Lets == {LetTo("g"), LetTo("v"), LetTo("i"), LetThrough("g"), LetThrough("v"), Let("i", "own", TRUE, Lit)}
Returns == {ReturnExpr(Ident("r")), ReturnExpr(Ident("p")), ReturnExpr(Addr("g", FALSE)),
            ReturnExpr(Addr("v", FALSE)), ReturnExpr(Lit), Return}

Generated ==
    Family({}, <<Fresh>>, Flat, 4) \cup
    Family({}, <<Fresh>>, Nested \cup {If(Lit), Else, Return}, 5) \cup
    Family({}, <<Fresh, LetRef("r", FALSE)>>, Nested \cup {If(Ident("r")), Block}, 5) \cup
    Family({}, <<Fresh, Match(Lit, FALSE)>>, (Nested \ {Consume}) \cup {Arm}, 5) \cup
    Family(Parameters, <<>>, Returns \cup Lets \cup {If(Lit), Else, Block, End}, 5) \cup
    Family(Parameters, <<LetTo("g"), While(Lit)>>,
           {ReturnExpr(Ident("r")), LetTo("v"), If(Lit), Break, Continue, End}, 6) \cup
    Family(Parameters, <<LetTo("v"), For("i")>>,
           {ReturnExpr(Ident("r")), ReturnExpr(Ident("p")), If(Lit), Break, Continue, End}, 6) \cup
    Family(Parameters, <<Match(Lit, TRUE), Arm>>, Returns \cup {LetTo("g"), LetTo("v"), Arm, End}, 5) \cup
    Family({"g", "v"}, <<Taken>>, TwoOwners, 3)

MCPrograms == Generated
=============================================================================
