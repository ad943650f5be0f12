--------------------------- MODULE OwnershipState ---------------------------
(***************************************************************************)
(* OwnershipCheckState and the operations on it (src/analysis/             *)
(* typed_analysis.vix).  The parallel arrays of the code are one sequence  *)
(* of entries; entries are only ever appended, an entry that leaves its    *)
(* scope stays in place and becomes inactive.                              *)
(***************************************************************************)
EXTENDS VixProgram

CONSTANT Names

ASSUME NamesAssumption == NoName \notin Names

(* Borrow end lines that are not line numbers.                             *)
NotABorrow == -1
Released == -2

Entry == [name : Names, ty : Types, mutable : BOOLEAN, status : {"Available", "Moved"},
          active : BOOLEAN, param : 0..2, shared : Nat, mutBorrow : BOOLEAN,
          source : Names \cup {NoName}, borrowMut : BOOLEAN, borrowEnd : Int]

Codes == {"E5001", "E5002", "E5003", "E5004", "E5005", "E5006", "E5008"}
Diagnostic == Codes \X (Names \cup {NoName}) \X Nat
State == [vars : Seq(Entry), diags : SUBSET Diagnostic, terminated : BOOLEAN]

(* The statements over these names.                                        *)
SimpleExpr ==
    [tag : {"literal"}] \cup [tag : {"ident"}, name : Names]
        \cup [tag : {"addr"}, name : Names, mutable : BOOLEAN]
Argument == [param : Types, e : SimpleExpr]
Expr ==
    SimpleExpr \cup [tag : {"call"}, first : Argument, second : Argument]
        \cup [tag : {"refcall"}, name : Names, mutable : BOOLEAN, returnsMut : BOOLEAN]
Statement ==
    [tag : {"let"}, name : Names, ty : Types, mutable : BOOLEAN, e : Expr]
        \cup [tag : {"assign", "store"}, name : Names, e : Expr]
        \cup [tag : {"use", "return_expr", "if", "while"}, e : Expr]
        \cup [tag : {"match"}, e : Expr, exhaustive : BOOLEAN]
        \cup [tag : {"for"}, name : Names]
        \cup [tag : {"return", "break", "continue", "block", "else", "arm", "end"}]

-----------------------------------------------------------------------------
NewEntry(n, ty, m, param) ==
    [name |-> n, ty |-> ty, mutable |-> m, status |-> "Available", active |-> TRUE,
     param |-> param, shared |-> 0, mutBorrow |-> FALSE,
     source |-> NoName, borrowMut |-> FALSE, borrowEnd |-> NotABorrow]

NewRefEntry(n, ty, m, source, borrowMut, borrowEnd) ==
    [NewEntry(n, ty, m, 0) EXCEPT !.source = source, !.borrowMut = borrowMut, !.borrowEnd = borrowEnd]

AddVar(st, entry) == [st EXCEPT !.vars = Append(@, entry)]
Report(st, code, n, line) == [st EXCEPT !.diags = @ \cup {<<code, n, line>>}]

(* The innermost active entry with this name; 0 when there is none.        *)
Find(vars, n) ==
    LastOf({i \in DOMAIN vars : vars[i].active /\ vars[i].name = n}, 0)

(***************************************************************************)
(* The operators named `...Wrong' in these modules are plausible mistakes: *)
(* each stands before the definition it is a faulty version of, and the    *)
(* properties are shown to notice it.                                      *)
(***************************************************************************)
GiveBackWrong(n, k) == n - k

(* A count that gives back k borrows stops at 0.                           *)
GiveBack(n, k) == IF n > k THEN n - k ELSE 0
BorrowedWrong(v) == v.mutBorrow
Borrowed(v) == v.shared > 0 \/ v.mutBorrow
TypeOf(vars, n) == IF Find(vars, n) = 0 THEN "own" ELSE vars[Find(vars, n)].ty

-----------------------------------------------------------------------------
BorrowErrorMutWrong(v, m) ==     \* a mutable borrow tolerates shared ones
    CASE v.status = "Moved" -> "E5001"
      [] v.status # "Moved" /\ m /\ ~v.mutable -> "E5004"
      [] v.status # "Moved" /\ (m => v.mutable) /\ v.mutBorrow -> "E5003"
      [] OTHER -> NoName

BorrowErrorSharedWrong(v, m) ==  \* a shared borrow tolerates a mutable one
    CASE v.status = "Moved" -> "E5001"
      [] v.status # "Moved" /\ m /\ ~v.mutable -> "E5004"
      [] v.status # "Moved" /\ m /\ v.mutable /\ Borrowed(v) -> "E5003"
      [] OTHER -> NoName

(* Borrows.  BorrowError is the first check of ownership_create_borrow     *)
(* that fails, NoName when the borrow is granted.                          *)
BorrowError(v, m) ==
    CASE v.status = "Moved" -> "E5001"
      [] v.status # "Moved" /\ m /\ ~v.mutable -> "E5004"
      [] v.status # "Moved" /\ m /\ v.mutable /\ Borrowed(v) -> "E5003"
      [] v.status # "Moved" /\ ~m /\ v.mutBorrow -> "E5003"
      [] OTHER -> NoName

Granted(vars, n, m) == Find(vars, n) # 0 /\ BorrowError(vars[Find(vars, n)], m) = NoName

CreateBorrow(st, n, m, line) ==
    LET i == Find(st.vars, n) IN
    IF i = 0 THEN st
    ELSE IF ~Granted(st.vars, n, m) THEN Report(st, BorrowError(st.vars[i], m), n, line)
    ELSE IF m THEN [st EXCEPT !.vars[i].mutBorrow = TRUE]
    ELSE [st EXCEPT !.vars[i].shared = @ + 1]

ReleaseDirectWrong(vars, i, m) ==
    IF i = 0 \/ m THEN vars ELSE [vars EXCEPT ![i].shared = GiveBack(@, 1)]

(* Give one borrow back to entry i, as ownership_release_direct does.      *)
ReleaseDirect(vars, i, m) ==
    IF i = 0 THEN vars
    ELSE IF m THEN [vars EXCEPT ![i].mutBorrow = FALSE]
    ELSE [vars EXCEPT ![i].shared = GiveBack(@, 1)]

(***************************************************************************)
(* Release the references at the indices `refs': each gives its borrow     *)
(* back to the entry its source name denotes now, and is marked Released.  *)
(* ownership_release_reference never looks at whether it was released      *)
(* before.  The order of the releases does not matter: a count stops at 0. *)
(***************************************************************************)
ReleaseReferences(vars, refs) ==
    LET held == {r \in refs : vars[r].source # NoName}
        backTo(i, m) == {r \in held : Find(vars, vars[r].source) = i /\ vars[r].borrowMut = m}
    IN  Tuple([i \in DOMAIN vars |->
            [vars[i] EXCEPT
                !.shared = GiveBack(@, Cardinality(backTo(i, FALSE))),
                !.mutBorrow = @ /\ backTo(i, TRUE) = {},
                !.borrowEnd = IF i \in held THEN Released ELSE @]])

(* ownership_expire_borrows: the references last used before this line.    *)
Expire(st, line) ==
    LET due == {r \in DOMAIN st.vars : /\ st.vars[r].active
                                       /\ st.vars[r].borrowEnd >= 0
                                       /\ st.vars[r].borrowEnd < line}
    IN  [st EXCEPT !.vars = ReleaseReferences(@, due)]

(***************************************************************************)
(* ownership_leave_scope: entries are released and deactivated from the    *)
(* last one down to start + 1, so a source name is resolved among the      *)
(* entries declared before the reference.                                  *)
(***************************************************************************)
LeaveScope(st, start) ==
    LET leaving == {r \in DOMAIN st.vars : r > start /\ st.vars[r].active}
        owner(r) == Find(SubSeq(st.vars, 1, r), st.vars[r].source)
        held == {r \in leaving : st.vars[r].source # NoName}
        backTo(i, m) == {r \in held : owner(r) = i /\ st.vars[r].borrowMut = m}
    IN  [st EXCEPT !.vars = [i \in DOMAIN st.vars |->
            [st.vars[i] EXCEPT
                !.shared = GiveBack(@, Cardinality(backTo(i, FALSE))),
                !.mutBorrow = @ /\ backTo(i, TRUE) = {},
                !.borrowEnd = IF i \in held THEN Released ELSE @,
                !.active = @ /\ i <= start]]]
=============================================================================
