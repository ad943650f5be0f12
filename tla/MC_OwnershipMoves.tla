-------------------------- MODULE MC_OwnershipMoves --------------------------
(* Moves through branches, blocks, matches and `while' loops, and `while'   *)
(* loops inside `while' loops with a borrow that outlives them; then one    *)
(* small program per way in which the checker accepts what the release      *)
(* notes say it rejects.                                                    *)
EXTENDS OwnershipSound, ProgramFamilies

MCNames == {"x", "y", "z", "r"}
MCParams == <<NewEntry("z", "own", FALSE, 1)>>
Fresh(n) == Let(n, "own", TRUE, Lit)
Consume(n) == Use(Call(Arg("own", Ident(n)), NoArg))
KeepRef == Let("r", "shr", FALSE, Addr("x", FALSE))

Straight == {Let("y", "own", TRUE, Ident("x")), Assign("x", Lit), Use(Ident("x")), Consume("x")}

(* Every way to go on from the opening of a region, one region inside;      *)
(* the last two go two loops deep.                                          *)
Generated ==
    Family({}, <<Fresh("x")>>, Straight \cup {If(Lit), Else, End, Return}, 4) \cup
    Family({}, <<Fresh("x"), If(Lit)>>, Straight \cup {Else, End, Return}, 5) \cup
    Family({}, <<Fresh("x"), While(Lit)>>, Straight \cup {If(Lit), End, Return}, 5) \cup
    Family({}, <<Fresh("x"), Match(Lit, TRUE)>>, Straight \cup {Arm, End, Return}, 5) \cup
    Family({}, <<Fresh("x"), Block>>, {Assign("x", Lit), Consume("x"), While(Lit), Block, End}, 6) \cup
    Family({"z"}, <<Fresh("x"), While(Lit)>>,
           {Consume("x"), Assign("x", Ident("z")), While(Lit), If(Lit), End, Return}, 5) \cup
    Family({}, <<Fresh("x"), KeepRef, While(Lit)>>,
           {Consume("x"), Assign("x", Lit), While(Ident("r")), End}, 5)

MCPrograms == Generated

-----------------------------------------------------------------------------
GapNames == {"x", "y", "r", "q"}
NoParams == <<>>
GlobalParams == <<NewEntry("y", "own", FALSE, 2)>>

LetRef(n, owner) == Let(n, "shr", TRUE, Addr(owner, FALSE))

(* q is released at its last use and again when its block is left; the       *)
(* second release takes the borrow of r.                                     *)
NestedScope == {<<Fresh("x"), LetRef("r", "x"),
                  Block, LetRef("q", "x"), Use(Ident("q")), Use(Lit), End,
                  Assign("x", Lit), Use(Ident("r"))>>}

(* r expires in both clones of the `if', and its end line is not merged, so  *)
(* it expires once more after the `if'.                                      *)
MergedBranches == {<<Fresh("x"), LetRef("r", "x"), LetRef("q", "x"),
                     If(Ident("r")), Use(Lit), Else, Use(Lit), End,
                     Assign("x", Lit), Use(Ident("q"))>>}

(* The body of a `for' is walked once.                                       *)
MoveInFor == {<<Fresh("x"), For("y"), Consume("x"), End>>}

(* The state at a `break' never reaches the end of the loop.                 *)
MoveBeforeBreak == {<<Fresh("x"), While(Lit), Consume("x"), If(Lit), Break, End,
                      Assign("x", Lit), End, Use(Ident("x"))>>}

(* Every arm returns, so what follows the match is not walked; no pattern    *)
(* has to fit, though.                                                       *)
MatchThatFallsThrough == {<<Fresh("x"), Match(Lit, FALSE), Arm, Return, End,
                            Consume("x"), Use(Ident("x"))>>}

(* The place is looked at before the value, and written to after it.         *)
MoveBeforeStore == {<<Fresh("x"), Store("x", Call(Arg("own", Ident("x")), NoArg))>>}

(* The moves above that the walk does not see, or not in time.               *)
UnseenMoves == MoveInFor \cup MoveBeforeBreak \cup MatchThatFallsThrough \cup MoveBeforeStore

(* A reference expires after the last line that names it, although the loop  *)
(* goes back to that line.                                                   *)
ReferenceInLoop == {<<Fresh("x"), LetRef("r", "x"),
                      While(Lit), Use(Ident("r")), Assign("x", Lit), End>>}

(* The copy of a reference borrows nothing.                                  *)
CopiedReference == {<<Fresh("x"), LetRef("r", "x"), Let("q", "shr", FALSE, Ident("r")),
                      Assign("x", Lit), Use(Ident("q"))>>}

(* Assigning another borrow to a reference borrows nothing.                  *)
ReassignedReference == {<<Fresh("x"), Fresh("y"), LetRef("r", "x"),
                          Assign("r", Addr("y", FALSE)), Assign("y", Lit), Use(Ident("r"))>>}

(* A borrow is given back to the innermost variable of its owner's name.     *)
ShadowedOwner == {<<Fresh("x"), LetRef("r", "x"),
                    Block, Fresh("x"), LetRef("q", "x"), Use(Ident("r")),
                    Assign("x", Lit), Use(Ident("q")), End>>}

(* The borrows above that are given back while their reference is in use, or *)
(* were never entered.                                                       *)
ForgottenBorrows ==
    NestedScope \cup MergedBranches \cup ReferenceInLoop \cup CopiedReference
        \cup ReassignedReference \cup ShadowedOwner

(* A returned reference is judged by the borrow its variable began with.     *)
ReassignedReturn == {<<Fresh("x"), LetRef("r", "y"), Assign("r", Addr("x", FALSE)),
                       ReturnExpr(Ident("r"))>>}
=============================================================================
