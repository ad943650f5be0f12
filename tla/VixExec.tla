------------------------------- MODULE VixExec -------------------------------
(***************************************************************************)
(* What a program of VixProgram does when it runs: the meaning against     *)
(* which the ownership checker is judged.  It follows the control flow the *)
(* LLVM generator gives the statements (codegen_stmt_in_loop in            *)
(* src/src/codegen.vix: `break' leaves the innermost loop, `continue'      *)
(* goes to its condition or step, a match without a default arm falls      *)
(* through when no pattern fits), and the rules of docs/RELEASE_v0.3.0.md  *)
(* and docs/RELEASE_v0.3.3-dev.md: a moved value is gone, and a reference  *)
(* is good until its owner is moved, overwritten, goes out of scope or is  *)
(* borrowed again in conflict.                                             *)
(***************************************************************************)
EXTENDS VixProgram

CONSTANTS Globals,      \* names, types and kinds of globals and parameters
          MayReturn     \* the declared return type

(* A variable of the running function.  `owner' is the index of the        *)
(* variable a reference points to, 0 for a reference from the caller.      *)
Cell == [name : STRING, ty : Types, moved : BOOLEAN, owner : Nat, valid : BOOLEAN]
Faults == {"none", "moved", "stale", "escape"}

VARIABLES rpc,      \* the line about to run
          env,      \* the variables in scope, innermost last
          regions,  \* the open regions, innermost last
          fault,    \* the first ownership fault of the run
          halted

execVars == <<rpc, env, regions, fault, halted>>

-----------------------------------------------------------------------------
NewCell(n, ty, owner, valid) ==
    [name |-> n, ty |-> ty, moved |-> FALSE, owner |-> owner, valid |-> valid]

Lookup(cells, n) == LastOf({i \in DOMAIN cells : cells[i].name = n}, 0)

(* The references to variable i that `which' selects stop being good.      *)
Invalidate(cells, i, which(_)) ==
    Tuple([k \in DOMAIN cells |->
        IF cells[k].owner = i /\ IsReference(cells[k].ty) /\ which(k)
        THEN [cells[k] EXCEPT !.valid = FALSE] ELSE cells[k]])
InvalidateAll(cells, i) == Invalidate(cells, i, LAMBDA k : TRUE)
InvalidateMut(cells, i) == Invalidate(cells, i, LAMBDA k : cells[k].ty = "mut")

(* A run state in the middle of a statement: the cells and the fault.      *)
Raise(x, f) == IF x.fault = "none" THEN [x EXCEPT !.fault = f] ELSE x
Cells(x, cells) == [x EXCEPT !.cells = cells]

(* Using a variable: its value must be there, its referent untouched.      *)
Touch(x, i) ==
    IF x.cells[i].moved THEN Raise(x, "moved")
    ELSE IF IsReference(x.cells[i].ty) /\ ~x.cells[i].valid THEN Raise(x, "stale")
    ELSE x

Take(x, i) ==
    IF IsCopy(x.cells[i].ty) THEN Touch(x, i)
    ELSE LET y == Touch(x, i)
         IN  Cells(y, [InvalidateAll(y.cells, i) EXCEPT ![i].moved = TRUE])

Borrow(x, i, m) ==
    LET y == Touch(x, i)
    IN  Cells(y, IF m THEN InvalidateAll(y.cells, i) ELSE InvalidateMut(y.cells, i))

RunSimpleExpr(x, e, consume) ==
    CASE e.tag = "ident" -> IF consume THEN Take(x, Lookup(x.cells, e.name))
                            ELSE Touch(x, Lookup(x.cells, e.name))
      [] e.tag \in {"addr", "refcall"} -> Borrow(x, Lookup(x.cells, e.name), e.mutable)
      [] OTHER -> x

(* An argument is a temporary of the call; the callee uses both.           *)
Temporary(x, arg) ==
    LET y == RunSimpleExpr(x, arg.e, ~IsReference(arg.param))
        cell == IF arg.e.tag = "addr"
                THEN NewCell(NoName, RefType(arg.e.mutable), Lookup(x.cells, arg.e.name), TRUE)
                ELSE NewCell(NoName, "copy", 0, TRUE)
    IN  Cells(y, Append(y.cells, cell))

RunCall(x, e) ==
    LET n == Len(x.cells)
        y == Temporary(Temporary(x, e.first), e.second)
        z == Touch(Touch(y, n + 1), n + 2)
    IN  Cells(z, SubSeq(z.cells, 1, n))

RunExpr(x, e, consume) ==
    IF e.tag = "call" THEN RunCall(x, e) ELSE RunSimpleExpr(x, e, consume)

(* What the value of e refers to, evaluated before e runs.                 *)
Referent(cells, e) ==
    CASE e.tag = "ident" -> cells[Lookup(cells, e.name)].owner
      [] e.tag \in {"addr", "refcall"} -> Lookup(cells, e.name)
      [] OTHER -> 0

ValueType(cells, e, declared) ==
    CASE e.tag = "ident" -> cells[Lookup(cells, e.name)].ty
      [] e.tag = "addr" -> RefType(e.mutable)
      [] e.tag = "refcall" -> RefType(e.returnsMut)
      [] OTHER -> declared

-----------------------------------------------------------------------------
(* Simple statements on the cells.                                         *)
RunLet(x, s) ==
    LET y == RunExpr(x, s.e, TRUE)
    IN  Cells(y, Append(y.cells, NewCell(s.name, ValueType(x.cells, s.e, s.ty),
                                         Referent(x.cells, s.e), TRUE)))

RunAssign(x, s) ==
    LET i == Lookup(x.cells, s.name)
        y == RunExpr(x, s.e, TRUE)
    IN  Cells(y, [InvalidateAll(y.cells, i) EXCEPT
                    ![i].moved = FALSE, ![i].valid = TRUE, ![i].owner = Referent(x.cells, s.e)])

(* Writing into a place: of the variable itself, or through a reference.   *)
RunStore(x, s) ==
    LET i == Lookup(x.cells, s.name)
        y == Touch(RunExpr(x, s.e, TRUE), i)
        to == y.cells[i].owner
    IN  Cells(y, IF ~IsReference(y.cells[i].ty) THEN InvalidateAll(y.cells, i)
                 ELSE IF to = 0 THEN y.cells
                 ELSE Invalidate(y.cells, to, LAMBDA k : k # i))

(* A returned reference must not point at a variable of this function.     *)
RunReturn(x, e) ==
    LET y == RunExpr(x, e, ~IsReference(MayReturn))
        to == Referent(x.cells, e)
    IN  IF /\ IsReference(MayReturn) /\ to # 0
           /\ ~(to <= Len(Globals) /\ Globals[to].global)
        THEN Raise(y, "escape") ELSE y

RunSimple(x, s) ==
    CASE s.tag = "let" -> RunLet(x, s)
      [] s.tag = "assign" -> RunAssign(x, s)
      [] s.tag = "store" -> RunStore(x, s)
      [] s.tag = "use" -> RunExpr(x, s.e, FALSE)
      [] s.tag = "return_expr" -> RunReturn(x, s.e)
      [] OTHER -> x

(* Variables past `start' go out of scope; what pointed at them dangles.   *)
Truncate(cells, start) ==
    [k \in 1..start |-> IF cells[k].owner > start THEN [cells[k] EXCEPT !.valid = FALSE]
                        ELSE cells[k]]
-----------------------------------------------------------------------------
ExecInit ==
    /\ rpc = 1
    /\ env = [i \in DOMAIN Globals |-> NewCell(Globals[i].name, Globals[i].ty, 0, TRUE)]
    /\ regions = <<>>
    /\ fault = "none"
    /\ halted = FALSE

Running(p) == ~halted /\ fault = "none" /\ rpc <= Len(p)
Enter(p, line) ==
    /\ regions' = Append(regions, [kind |-> p[rpc].tag, start |-> Len(env), head |-> rpc])
    /\ rpc' = line
Skip(line) == rpc' = line /\ UNCHANGED regions
Loops == {k \in DOMAIN regions : regions[k].kind \in {"while", "for"}}

RunLine(p) ==
    /\ Running(p) /\ p[rpc].tag \in SimpleTags \ {"break", "continue"}
    /\ LET x == RunSimple([cells |-> env, fault |-> fault], p[rpc])
       IN  env' = x.cells /\ fault' = x.fault
    /\ halted' = (p[rpc].tag \in {"return", "return_expr"})
    /\ rpc' = rpc + 1
    /\ UNCHANGED regions

RunBlock(p) ==
    /\ Running(p) /\ p[rpc].tag = "block"
    /\ Enter(p, rpc + 1)
    /\ UNCHANGED <<env, fault, halted>>

(* A condition is evaluated, then any of the sides may be taken.           *)
RunCondition(p, tags) ==
    /\ Running(p) /\ p[rpc].tag \in tags
    /\ LET x == RunExpr([cells |-> env, fault |-> fault], p[rpc].e, FALSE)
       IN  env' = x.cells /\ fault' = x.fault
    /\ UNCHANGED halted

RunIf(p) ==
    /\ RunCondition(p, {"if"})
    /\ \/ Enter(p, rpc + 1)
       \/ LET other == Boundary(p, rpc + 1)
          IN  IF p[other].tag = "else" THEN Enter(p, other + 1) ELSE Skip(other + 1)

(* One of the arms, or none of them when the patterns leave values out.    *)
RunMatch(p) ==
    /\ RunCondition(p, {"match"})
    /\ \/ \E arm \in (rpc + 1)..EndOf(p, rpc + 1) :
            /\ p[arm].tag = "arm" /\ Balance(p, rpc + 1, arm - 1) = 0
            /\ Enter(p, arm + 1)
       \/ ~p[rpc].exhaustive /\ Skip(EndOf(p, rpc + 1) + 1)

RunWhile(p) ==
    /\ RunCondition(p, {"while"})
    /\ Enter(p, rpc + 1) \/ Skip(EndOf(p, rpc + 1) + 1)

RunFor(p) ==
    /\ Running(p) /\ p[rpc].tag = "for"
    /\ \/ Enter(p, rpc + 1) /\ env' = Append(env, NewCell(p[rpc].name, "copy", 0, TRUE))
       \/ Skip(EndOf(p, rpc + 1) + 1) /\ UNCHANGED env
    /\ UNCHANGED <<fault, halted>>

(* The region that was taken is over: the other ones are passed over, and  *)
(* a loop goes back to its condition.                                      *)
PassOver(p) ==
    /\ Running(p) /\ p[rpc].tag \in DividerTags
    /\ Skip(EndOf(p, rpc + 1))
    /\ UNCHANGED <<env, fault, halted>>

LeaveRegion(k, line) ==
    /\ env' = Truncate(env, regions[k].start)
    /\ regions' = SubSeq(regions, 1, k - 1)
    /\ rpc' = line
    /\ UNCHANGED <<fault, halted>>

CloseRegion(p) ==
    /\ Running(p) /\ p[rpc].tag = "end"
    /\ LET k == Len(regions)
       IN  LeaveRegion(k, IF k \in Loops THEN regions[k].head ELSE rpc + 1)

RunJump(p) ==
    /\ Running(p) /\ p[rpc].tag \in {"break", "continue"} /\ Loops # {}
    /\ LET k == LastOf(Loops, 0)
       IN  LeaveRegion(k, IF p[rpc].tag = "break" THEN EndOf(p, regions[k].head + 1) + 1
                          ELSE regions[k].head)

RunEnd(p) ==
    /\ ~halted /\ rpc = Len(p) + 1 /\ fault = "none"
    /\ halted' = TRUE
    /\ UNCHANGED <<rpc, env, regions, fault>>

ExecStep(p) ==
    \/ RunLine(p) \/ RunBlock(p) \/ RunIf(p) \/ RunMatch(p) \/ RunWhile(p) \/ RunFor(p)
    \/ PassOver(p) \/ CloseRegion(p) \/ RunJump(p) \/ RunEnd(p)
=============================================================================
