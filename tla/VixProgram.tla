----------------------------- MODULE VixProgram -----------------------------
(***************************************************************************)
(* The programs the ownership pass walks, reduced to what the pass tells   *)
(* apart.  A function body is a sequence of statements, one per source     *)
(* line, in which `block', `if', `while', `for' and `match' open a region  *)
(* that an `end' closes; `else' and `arm' separate the regions of an `if'  *)
(* and of a `match'.  The nesting of the AST (src/ast.vix, AstStmt and     *)
(* AstExpr) is thus a bracket structure over line numbers, which are also  *)
(* the only positions the pass computes with.                              *)
(***************************************************************************)
EXTENDS Integers, Sequences, FiniteSets

NoName == ""

(* The sequence f itself; TLC holds it as a tuple from here on, not as a     *)
(* function it has yet to evaluate, on which EXCEPT and Append do not mix.   *)
Tuple(f) == f \o <<>>

(* The least and the greatest member of a set of numbers, or `none'.         *)
FirstOf(S, none) ==
    IF \E i \in S : \A j \in S : i <= j THEN CHOOSE i \in S : \A j \in S : i <= j ELSE none
LastOf(S, none) ==
    IF \E i \in S : \A j \in S : j <= i THEN CHOOSE i \in S : \A j \in S : j <= i ELSE none

(***************************************************************************)
(* Types, as far as analysis_type_is_copy and analysis_type_is_reference   *)
(* separate them: "own" (strings, arrays, non-Copy aggregates), "copy"     *)
(* (scalars and raw pointers), "shr" (&T) and "mut" (&mut T).              *)
(***************************************************************************)
Types == {"own", "copy", "shr", "mut"}
IsReference(ty) == ty \in {"shr", "mut"}
IsCopy(ty) == ty \in {"copy", "shr"}
RefType(mutable) == IF mutable THEN "mut" ELSE "shr"

-----------------------------------------------------------------------------
(* Expressions.                                                            *)
Lit == [tag |-> "literal"]
Ident(n) == [tag |-> "ident", name |-> n]
Addr(n, m) == [tag |-> "addr", name |-> n, mutable |-> m]

(***************************************************************************)
(* An argument meets a parameter whose type is one of Types.  A call is    *)
(* reduced to two arguments, the fewest between which borrows can clash.   *)
(***************************************************************************)
Arg(param, e) == [param |-> param, e |-> e]
NoArg == Arg("copy", Lit)
Call(a, b) == [tag |-> "call", first |-> a, second |-> b]

(***************************************************************************)
(* A call of a function that returns a reference derived from its only     *)
(* reference parameter, applied to `&n' or `&mut n'.                       *)
(***************************************************************************)
RefCall(n, m, returnsMut) ==
    [tag |-> "refcall", name |-> n, mutable |-> m, returnsMut |-> returnsMut]

SimpleMentioned(e) == IF e.tag = "literal" THEN {} ELSE {e.name}
Mentioned(e) ==
    IF e.tag = "call" THEN SimpleMentioned(e.first.e) \cup SimpleMentioned(e.second.e)
    ELSE SimpleMentioned(e)

-----------------------------------------------------------------------------
(* Statements.                                                             *)
Let(n, ty, m, e) == [tag |-> "let", name |-> n, ty |-> ty, mutable |-> m, e |-> e]
Assign(n, e) == [tag |-> "assign", name |-> n, e |-> e]
Store(n, e) == [tag |-> "store", name |-> n, e |-> e]
Use(e) == [tag |-> "use", e |-> e]
ReturnExpr(e) == [tag |-> "return_expr", e |-> e]
Return == [tag |-> "return"]
Break == [tag |-> "break"]
Continue == [tag |-> "continue"]
Block == [tag |-> "block"]
If(e) == [tag |-> "if", e |-> e]
Else == [tag |-> "else"]
While(e) == [tag |-> "while", e |-> e]
For(n) == [tag |-> "for", name |-> n]
(* exhaustive: the match has a default arm or names every variant of an ADT. *)
Match(e, exhaustive) == [tag |-> "match", e |-> e, exhaustive |-> exhaustive]
Arm == [tag |-> "arm"]
End == [tag |-> "end"]

SimpleTags == {"let", "assign", "store", "use", "return_expr", "return", "break", "continue"}
OpenTags == {"block", "if", "while", "for", "match"}
DividerTags == {"else", "arm"}

-----------------------------------------------------------------------------
(* Regions.  Balance counts the regions of p opened and not closed on the  *)
(* lines i to j.                                                           *)
Balance(p, i, j) ==
    Cardinality({k \in i..j : p[k].tag \in OpenTags})
        - Cardinality({k \in i..j : p[k].tag = "end"})

(* The line that ends the region line i lies in: its `else', `arm' or     *)
(* `end', or the line after the last one for the body of the function.     *)
Boundary(p, i) ==
    FirstOf({j \in i..Len(p) : p[j].tag \in DividerTags \cup {"end"} /\ Balance(p, i, j - 1) = 0},
            Len(p) + 1)

(* The `end' of the statement that line i lies in.                         *)
EndOf(p, i) ==
    FirstOf({j \in i..Len(p) : p[j].tag = "end" /\ Balance(p, i, j - 1) = 0}, Len(p) + 1)

(***************************************************************************)
(* ownership_stmt_last_use_line: the last line on which an identifier or   *)
(* an address expression has this name, anywhere in the body; 0 when none. *)
(***************************************************************************)
Mentions(s) ==
    CASE s.tag \in {"let", "assign", "use", "return_expr", "if", "while", "match"} -> Mentioned(s.e)
      [] s.tag = "store" -> Mentioned(s.e) \cup {s.name}
      [] OTHER -> {}

LastUse(p, n) == LastOf({i \in DOMAIN p : n \in Mentions(p[i])}, 0)

(* A match consists of arms: no statement stands before the first of them.  *)
OnlyArms(p) ==
    \A i \in DOMAIN p : p[i].tag = "match" => i < Len(p) /\ p[i + 1].tag \in {"arm", "end"}
=============================================================================
