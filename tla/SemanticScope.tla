--------------------------- MODULE SemanticScope ---------------------------
(***************************************************************************)
(* Name resolution of the semantic pass (src/semantic.vix).  Its scope is  *)
(* a set of parallel arrays, here one sequence of entries, that is never   *)
(* shortened: leaving a scope lowers active_len, and a later declaration   *)
(* overwrites the slot.                                                    *)
(*                                                                         *)
(* The functions of the program are walked one after the other, each by    *)
(* the statements and expressions of its body in the order the walk meets  *)
(* them; which one comes next is the choice of the source text, so it is   *)
(* any.  An initialiser, a condition or an argument is an expression that  *)
(* comes before the statement it belongs to.                               *)
(***************************************************************************)
EXTENDS DiagBag, Sequences, FiniteSetsExt

CONSTANTS Names,       \* the names of variables, functions and "_"
          Blank,       \* "_"
          Globals,     \* the sequence of the program's module-level variables
          Functions,   \* the functions and the constructors of data types
          Params,      \* the parameter lists a function may have
          Positions,   \* places in the source
          MaxDepth     \* the deepest nesting of scopes that is walked

ASSUME NamesAssumption ==
    /\ Blank \in Names /\ Functions \subseteq Names \ {Blank}
    /\ Globals \in Seq(Names) /\ Params \subseteq Seq(Names)
    /\ Positions \subseteq Nat /\ MaxDepth \in Nat

VARIABLES scope, result,
          entering,   \* whether the variables visible in a whole function are being declared
          pending     \* and those that are still to be

scopeVars == <<scope, result, entering, pending>>

NoPosition == 0
Entry == [name : Names, depth : Nat, used : BOOLEAN, mutable : BOOLEAN, warn_unused : BOOLEAN,
          at : Positions \cup {NoPosition}]
Scope == [entries : Seq(Entry), active_len : Nat, depth : Nat]

-----------------------------------------------------------------------------
(* Operations on the scope.                                                *)

scope_new == [entries |-> <<>>, active_len |-> 0, depth |-> 0]
scope_push(s) == [s EXCEPT !.depth = @ + 1]

(* The length that is kept when the innermost scope is left.               *)
Keep(s) == Max({0} \cup {i \in 1..s.active_len : s.entries[i].depth < s.depth})

warn_unused_current(s, r) ==
    add_warnings(r, {Unused(s.entries[i].name, s.entries[i].at) :
        i \in {j \in Keep(s) + 1..s.active_len :
                  s.entries[j].depth = s.depth /\ s.entries[j].warn_unused /\ ~s.entries[j].used}})

(* The slots of the scope stay in use.                                     *)
scope_popWrong(s) == IF s.depth > 0 THEN [s EXCEPT !.depth = @ - 1] ELSE s
scope_pop(s) == IF s.depth > 0 THEN [s EXCEPT !.active_len = Keep(s), !.depth = @ - 1] ELSE s

Here(s, x) == {i \in 1..s.active_len : s.entries[i].name = x /\ s.entries[i].depth = s.depth}
Hits(s, x) == {i \in 1..s.active_len : s.entries[i].name = x /\ s.entries[i].depth <= s.depth}

(* Slots; 0 stands for None.                                               *)
(* A search that stops at the slot it meets first.                         *)
find_currentWrong(s, x) == IF s.active_len \in Here(s, x) THEN s.active_len ELSE 0
find_current(s, x) == IF Here(s, x) = {} THEN 0 ELSE Min(Here(s, x))
lookup(s, x) == Max({0} \cup Hits(s, x))
contains(s, x) == lookup(s, x) # 0

NewEntry(s, x, warn, at) ==
    [name |-> x, depth |-> s.depth, used |-> FALSE, mutable |-> FALSE, warn_unused |-> warn, at |-> at]

(* Two mistakes: the slot keeps a flag of the variable that had it before; *)
(* the test for the end of the array is off by one.                        *)
PlaceStaleWrong(s, e) ==
    [s EXCEPT !.entries = IF s.active_len < Len(@)
                          THEN [@ EXCEPT ![s.active_len + 1] = [e EXCEPT !.used = s.entries[s.active_len + 1].used]]
                          ELSE Append(@, e),
              !.active_len = @ + 1]
PlaceEndWrong(s, e) ==
    [s EXCEPT !.entries = IF s.active_len <= Len(@) THEN [@ EXCEPT ![s.active_len + 1] = e] ELSE Append(@, e),
              !.active_len = @ + 1]

Place(s, e) ==
    [s EXCEPT !.entries = IF s.active_len < Len(@) THEN [@ EXCEPT ![s.active_len + 1] = e] ELSE Append(@, e),
              !.active_len = @ + 1]

declare_existing(s, x) ==
    IF find_current(s, x) # 0 THEN s ELSE Place(s, NewEntry(s, x, FALSE, NoPosition))

mark_mutable(s, x) ==
    IF find_current(s, x) = 0 THEN s ELSE [s EXCEPT !.entries[find_current(s, x)].mutable = TRUE]
mark_used(s, x) ==
    IF lookup(s, x) = 0 THEN s ELSE [s EXCEPT !.entries[lookup(s, x)].used = TRUE]

(* semantic_scope_declare, as what it makes of the scope and of the result. *)
Declared(s, x, at) ==
    IF x = Blank \/ find_current(s, x) # 0 THEN s ELSE Place(s, NewEntry(s, x, TRUE, at))
DeclareResult(s, r, x, at) ==
    IF x # Blank /\ find_current(s, x) # 0 THEN add_error(r, Problem("duplicate", x, at)) ELSE r

require(s, r, x, at) ==
    IF x = Blank \/ contains(s, x) THEN r ELSE add_error(r, Problem("undefined", x, at))

-----------------------------------------------------------------------------
Init == scope = scope_new /\ result = result_new /\ entering = FALSE /\ pending = <<>>

Walking == scope.depth > 0
CanOpen == Walking /\ scope.depth < MaxDepth

(* The scope of the last function is gone; the module-level variables come *)
(* before the parameters, and a parameter of the same name adds nothing.   *)
EnterFunction(p) ==
    /\ ~Walking /\ ~entering
    /\ scope' = scope_new /\ pending' = Globals \o p /\ entering' = TRUE
    /\ UNCHANGED result

DeclareParam ==
    /\ entering /\ pending # <<>>
    /\ scope' = declare_existing(scope, Head(pending)) /\ pending' = Tail(pending)
    /\ UNCHANGED <<result, entering>>

(* The body of a function is a block.                                      *)
EnterBody ==
    /\ entering /\ pending = <<>>
    /\ scope' = scope_push(scope) /\ entering' = FALSE
    /\ UNCHANGED <<result, pending>>

(* Functions and constructors are looked up first, and then the variable   *)
(* of that name, if there is one, is not marked.                           *)
Ident(x, at) ==
    /\ Walking
    /\ IF x \in Functions THEN UNCHANGED <<scope, result>>
       ELSE result' = require(scope, result, x, at) /\ scope' = mark_used(scope, x)

Addr(x, at) == Walking /\ result' = require(scope, result, x, at) /\ scope' = mark_used(scope, x)

(* Calling a variable does not mark it.                                    *)
Call(x, at) ==
    /\ Walking
    /\ result' = IF x \in Functions \/ contains(scope, x) THEN result
                 ELSE add_error(result, Problem("undefined function", x, at))
    /\ UNCHANGED scope

Capture(x, at) ==
    /\ Walking
    /\ LET i == lookup(scope, x)
           refused == IF i # 0 THEN scope.entries[i].mutable ELSE x \notin Functions
       IN  IF refused
           THEN /\ result' = add_error(result, Problem(IF i # 0 THEN "mutable capture" ELSE "undefined capture", x, at))
                /\ UNCHANGED scope
           ELSE scope' = mark_used(scope, x) /\ UNCHANGED result

Let(x, mutable, at) ==
    /\ Walking
    /\ result' = DeclareResult(scope, result, x, at)
    /\ scope' = LET s == Declared(scope, x, at) IN IF mutable THEN mark_mutable(s, x) ELSE s

Assign(x, at) == Walking /\ result' = require(scope, result, x, at) /\ UNCHANGED scope

OpenBlock == CanOpen /\ scope' = scope_push(scope) /\ UNCHANGED result

(* The iterator may not hide any variable, yet it is declared all the same. *)
ForRange(x, at) ==
    /\ CanOpen
    /\ LET s == scope_push(scope)
           r == IF contains(scope, x) THEN add_error(result, Problem("iterator", x, at)) ELSE result
       IN  scope' = Declared(s, x, at) /\ result' = DeclareResult(s, r, x, at)

(* An arm whose pattern binds a variable; one that binds none is a block,   *)
(* and the second name that a pattern binds is declared as by a Let.       *)
MatchArm(x, at) ==
    /\ CanOpen /\ x # Blank
    /\ LET s == scope_push(scope)
       IN  scope' = Declared(s, x, at) /\ result' = DeclareResult(s, result, x, at)

(* The end of a block, a loop, an arm or a function body.                  *)
LeaveScope ==
    /\ Walking
    /\ result' = IF result.error_count = 0 THEN warn_unused_current(scope, result) ELSE result
    /\ scope' = scope_pop(scope)

Statement ==
    \/ OpenBlock
    \/ LeaveScope
    \/ \E x \in Names, at \in Positions :
          \/ Ident(x, at)
          \/ Addr(x, at)
          \/ Call(x, at)
          \/ Capture(x, at)
          \/ \E mutable \in BOOLEAN : Let(x, mutable, at)
          \/ Assign(x, at)
          \/ ForRange(x, at)
          \/ MatchArm(x, at)

Next ==
    \/ \E p \in Params : EnterFunction(p)
    \/ DeclareParam
    \/ EnterBody
    \/ Statement /\ UNCHANGED <<entering, pending>>

Spec == Init /\ [][Next]_scopeVars
=============================================================================
