------------------------- MODULE OwnershipCheckProofs -------------------------
(***************************************************************************)
(* What the ownership checker keeps true for every set of programs, every  *)
(* list of parameters and every bound on the passes: its type invariant;   *)
(* that no diagnostic of any clone is lost; that no owner is borrowed both *)
(* ways; that loops settle; and, in straight-line code, that the counters  *)
(* are those of the live references.                                       *)
(*                                                                         *)
(* The walk of a statement grows the state it is given: entries are        *)
(* appended and never removed, diagnostics are added and never withdrawn.  *)
(* One lemma per function of the checker says so; the inductive invariant  *)
(* Inv then says that the states held by the frames grow from the          *)
(* outermost frame inwards. Claims adds what the counters of all these     *)
(* states keep, Passes how often loops were walked, Accounts where each    *)
(* count of straight-line code belongs.                                    *)
(***************************************************************************)
EXTENDS OwnershipCheck, FiniteSetTheorems, TLAPS

Grows(s, t) ==
    /\ t \in State
    /\ Len(s.vars) <= Len(t.vars)
    /\ s.diags \subseteq t.diags

(* LastOf and FirstOf pick a member of their set or the default.            *)
LEMMA ExtremeType ==
    ASSUME NEW S, NEW none
    PROVE  LastOf(S, none) \in S \cup {none} /\ FirstOf(S, none) \in S \cup {none}
BY DEF LastOf, FirstOf

(* ownership_state_find returns an index of an entry, or none.              *)
LEMMA FindType ==
    ASSUME NEW vars \in Seq(Entry), NEW n
    PROVE  Find(vars, n) \in 0..Len(vars)
<1>1. Find(vars, n) \in {i \in DOMAIN vars : vars[i].active /\ vars[i].name = n} \cup {0}
    BY ExtremeType DEF Find
<1> QED BY <1>1

LEMMA GrowsTransitive ==
    ASSUME NEW s \in State, NEW t, NEW u, Grows(s, t), Grows(t, u)
    PROVE  Grows(s, u)
BY DEF Grows, State

LEMMA GrowsReflexive == ASSUME NEW s \in State PROVE Grows(s, s)
BY DEF Grows, State

-----------------------------------------------------------------------------
(* The building blocks of OwnershipState.                                   *)

(* Replacing the entries by at least as many grows the state.               *)
LEMMA SetVars ==
    ASSUME NEW s \in State, NEW v \in Seq(Entry), Len(s.vars) <= Len(v)
    PROVE  Grows(s, [s EXCEPT !.vars = v]) /\ [s EXCEPT !.vars = v].vars = v
BY DEF Grows, State

LEMMA EntryUpdate ==
    ASSUME NEW vars \in Seq(Entry), NEW i \in 1..Len(vars), NEW e \in Entry
    PROVE  /\ [vars EXCEPT ![i] = e] \in Seq(Entry)
           /\ Len([vars EXCEPT ![i] = e]) = Len(vars)
OBVIOUS

LEMMA ReportGrows ==
    ASSUME NEW s \in State, NEW code \in Codes, NEW n \in Names \cup {NoName}, NEW line \in Nat
    PROVE  Grows(s, Report(s, code, n, line))
BY DEF Grows, State, Report, Diagnostic

LEMMA NewEntryType ==
    ASSUME NEW n \in Names, NEW ty \in Types, NEW m \in BOOLEAN, NEW param \in 0..2
    PROVE  NewEntry(n, ty, m, param) \in Entry
BY DEF NewEntry, Entry, NotABorrow, NoName

LEMMA NewRefEntryType ==
    ASSUME NEW n \in Names, NEW ty \in Types, NEW m \in BOOLEAN,
           NEW source \in Names \cup {NoName}, NEW bm \in BOOLEAN, NEW be \in Int
    PROVE  NewRefEntry(n, ty, m, source, bm, be) \in Entry
<1>1. NewEntry(n, ty, m, 0) \in Entry
    BY NewEntryType
<1> QED BY <1>1 DEF NewRefEntry, Entry

LEMMA AddVarGrows ==
    ASSUME NEW s \in State, NEW e \in Entry
    PROVE  Grows(s, AddVar(s, e)) /\ AddVar(s, e).vars = Append(s.vars, e)
<1>1. s.vars \in Seq(Entry)
    BY DEF State
<1>2. Append(s.vars, e) \in Seq(Entry) /\ Len(Append(s.vars, e)) = Len(s.vars) + 1
    BY <1>1
<1>3. AddVar(s, e) = [s EXCEPT !.vars = Append(s.vars, e)]
    BY DEF AddVar
<1>4. Len(s.vars) <= Len(Append(s.vars, e))
    BY <1>1, <1>2
<1> QED BY <1>2, <1>3, <1>4, SetVars

LEMMA GiveBackType == ASSUME NEW n \in Nat, NEW k \in Nat PROVE GiveBack(n, k) \in Nat
BY DEF GiveBack

LEMMA EntryFields ==
    ASSUME NEW v \in Entry
    PROVE  /\ v.name \in Names /\ v.ty \in Types /\ v.shared \in Nat /\ v.mutBorrow \in BOOLEAN
           /\ v.source \in Names \cup {NoName} /\ v.borrowEnd \in Int /\ v.active \in BOOLEAN
BY DEF Entry

(* What a borrow does to its owner leaves an entry.                         *)
LEMMA EntryChanges ==
    ASSUME NEW v \in Entry, NEW b \in BOOLEAN, NEW k \in Nat,
           NEW status \in {"Available", "Moved"}
    PROVE  /\ [v EXCEPT !.mutBorrow = b] \in Entry
           /\ [v EXCEPT !.shared = k] \in Entry
           /\ [v EXCEPT !.status = status] \in Entry
BY DEF Entry

LEMMA BorrowErrorType ==
    ASSUME NEW v \in Entry, NEW m \in BOOLEAN
    PROVE  BorrowError(v, m) \in Codes \cup {NoName}
BY DEF BorrowError, Codes, Entry, Borrowed

LEMMA CreateBorrowGrows ==
    ASSUME NEW s \in State, NEW n \in Names, NEW m \in BOOLEAN, NEW line \in Nat
    PROVE  Grows(s, CreateBorrow(s, n, m, line)) /\ Len(CreateBorrow(s, n, m, line).vars) = Len(s.vars)
<1> DEFINE i == Find(s.vars, n)
<1>1. s.vars \in Seq(Entry)
    BY DEF State
<1>2. i \in 0..Len(s.vars)
    BY <1>1, FindType
<1>3. CASE i = 0
    BY <1>3, GrowsReflexive DEF CreateBorrow
<1>4. CASE i # 0 /\ ~Granted(s.vars, n, m)
    <2>1. s.vars[i] \in Entry
        BY <1>1, <1>2, <1>4
    <2>2. BorrowError(s.vars[i], m) \in Codes
        BY <1>4, <2>1, BorrowErrorType DEF Granted
    <2>3. Grows(s, Report(s, BorrowError(s.vars[i], m), n, line))
        BY <2>2, ReportGrows
    <2>4. Report(s, BorrowError(s.vars[i], m), n, line).vars = s.vars
        BY DEF Report, State
    <2> QED BY <1>4, <2>3, <2>4 DEF CreateBorrow
<1>5. CASE i # 0 /\ Granted(s.vars, n, m) /\ m
    <2> DEFINE e == [s.vars[i] EXCEPT !.mutBorrow = TRUE]
    <2>0. i \in 1..Len(s.vars) /\ s.vars[i] \in Entry
        BY <1>1, <1>2, <1>5
    <2>1. e \in Entry
        BY <2>0, EntryChanges
    <2>2. CreateBorrow(s, n, m, line) = [s EXCEPT !.vars = [s.vars EXCEPT ![i] = e]]
        BY <1>5 DEF CreateBorrow
    <2> HIDE DEF e, i
    <2>3. /\ [s.vars EXCEPT ![i] = e] \in Seq(Entry)
          /\ Len([s.vars EXCEPT ![i] = e]) = Len(s.vars)
        BY <1>1, <2>0, <2>1, EntryUpdate
    <2>4. Len(s.vars) <= Len([s.vars EXCEPT ![i] = e])
        BY <1>1, <2>3
    <2> QED BY <2>2, <2>3, <2>4, SetVars
<1>6. CASE i # 0 /\ Granted(s.vars, n, m) /\ ~m
    <2> DEFINE e == [s.vars[i] EXCEPT !.shared = @ + 1]
    <2>0. i \in 1..Len(s.vars) /\ s.vars[i] \in Entry
        BY <1>1, <1>2, <1>6
    <2>1. e \in Entry
        <3>1. s.vars[i].shared + 1 \in Nat
            BY <2>0, EntryFields
        <3> QED BY <2>0, <3>1, EntryChanges
    <2>2. CreateBorrow(s, n, m, line) = [s EXCEPT !.vars = [s.vars EXCEPT ![i] = e]]
        BY <1>6 DEF CreateBorrow
    <2> HIDE DEF e, i
    <2>3. /\ [s.vars EXCEPT ![i] = e] \in Seq(Entry)
          /\ Len([s.vars EXCEPT ![i] = e]) = Len(s.vars)
        BY <1>1, <2>0, <2>1, EntryUpdate
    <2>4. Len(s.vars) <= Len([s.vars EXCEPT ![i] = e])
        BY <1>1, <2>3
    <2> QED BY <2>2, <2>3, <2>4, SetVars
<1> QED BY <1>3, <1>4, <1>5, <1>6

LEMMA ReleaseDirectType ==
    ASSUME NEW vars \in Seq(Entry), NEW i \in 0..Len(vars), NEW m \in BOOLEAN
    PROVE  ReleaseDirect(vars, i, m) \in Seq(Entry) /\ Len(ReleaseDirect(vars, i, m)) = Len(vars)
<1>1. CASE i = 0
    BY <1>1 DEF ReleaseDirect
<1>2. CASE i # 0
    <2> DEFINE e == [vars[i] EXCEPT !.mutBorrow = FALSE]
               f == [vars[i] EXCEPT !.shared = GiveBack(@, 1)]
    <2>1. i \in 1..Len(vars) /\ vars[i] \in Entry
        BY <1>2
    <2>2. GiveBack(vars[i].shared, 1) \in Nat
        BY <2>1, EntryFields, GiveBackType
    <2>3. e \in Entry /\ f \in Entry
        BY <2>1, <2>2, EntryChanges
    <2>4. ReleaseDirect(vars, i, m) \in {[vars EXCEPT ![i] = e], [vars EXCEPT ![i] = f]}
        BY <1>2 DEF ReleaseDirect
    <2> HIDE DEF e, f
    <2> QED BY <2>1, <2>3, <2>4, EntryUpdate
<1> QED BY <1>1, <1>2

(* A set of entries has a number of members.                                *)
LEMMA CountType ==
    ASSUME NEW vars \in Seq(Entry), NEW S, S \subseteq DOMAIN vars
    PROVE  IsFiniteSet(S) /\ Cardinality(S) \in Nat
<1>1. IsFiniteSet(DOMAIN vars)
    <2>1. DOMAIN vars = 1..Len(vars)
        OBVIOUS
    <2> QED BY <2>1, FS_Interval
<1> QED BY <1>1, FS_Subset, FS_CardinalityType

LEMMA ReleaseReferencesType ==
    ASSUME NEW vars \in Seq(Entry), NEW refs \in SUBSET DOMAIN vars
    PROVE  /\ ReleaseReferences(vars, refs) \in Seq(Entry)
           /\ Len(ReleaseReferences(vars, refs)) = Len(vars)
<1> DEFINE held == {r \in refs : vars[r].source # NoName}
           backTo(i, m) == {r \in held : Find(vars, vars[r].source) = i /\ vars[r].borrowMut = m}
           after(i) == [vars[i] EXCEPT
                           !.shared = GiveBack(@, Cardinality(backTo(i, FALSE))),
                           !.mutBorrow = @ /\ backTo(i, TRUE) = {},
                           !.borrowEnd = IF i \in held THEN Released ELSE @]
           f == [i \in DOMAIN vars |-> after(i)]
<1>1. ASSUME NEW i \in DOMAIN vars PROVE after(i) \in Entry
    <2>1. vars[i] \in Entry
        OBVIOUS
    <2>2. Cardinality(backTo(i, FALSE)) \in Nat
        BY CountType
    <2>3. GiveBack(vars[i].shared, Cardinality(backTo(i, FALSE))) \in Nat
        BY <2>1, <2>2, EntryFields, GiveBackType
    <2>4. (vars[i].mutBorrow /\ backTo(i, TRUE) = {}) \in BOOLEAN
        OBVIOUS
    <2>5. (IF i \in held THEN Released ELSE vars[i].borrowEnd) \in Int
        BY <2>1, EntryFields DEF Released
    <2> HIDE DEF held, backTo
    <2> QED BY <2>1, <2>3, <2>4, <2>5 DEF Entry
<1>2. ReleaseReferences(vars, refs) = Tuple(f)
    BY DEF ReleaseReferences
<1> HIDE DEF after
<1>3. f \in Seq(Entry) /\ Len(f) = Len(vars)
    BY <1>1
<1> HIDE DEF f
<1> QED BY <1>2, <1>3 DEF Tuple

(* ownership_expire_borrows.                                                *)
LEMMA ExpireGrows ==
    ASSUME NEW s \in State, NEW line \in Nat
    PROVE  Grows(s, Expire(s, line)) /\ Expire(s, line).diags = s.diags
<1> DEFINE due == {r \in DOMAIN s.vars : /\ s.vars[r].active
                                         /\ s.vars[r].borrowEnd >= 0
                                         /\ s.vars[r].borrowEnd < line}
<1>1. s.vars \in Seq(Entry)
    BY DEF State
<1>2. Expire(s, line) = [s EXCEPT !.vars = ReleaseReferences(s.vars, due)]
    BY DEF Expire
<1>3. due \in SUBSET DOMAIN s.vars
    OBVIOUS
<1> HIDE DEF due
<1>4. /\ ReleaseReferences(s.vars, due) \in Seq(Entry)
      /\ Len(s.vars) <= Len(ReleaseReferences(s.vars, due))
    BY <1>1, <1>3, ReleaseReferencesType
<1> QED BY <1>2, <1>4, SetVars DEF State

(* ownership_leave_scope.                                                   *)
LEMMA LeaveScopeGrows ==
    ASSUME NEW s \in State, NEW start \in Nat
    PROVE  Grows(s, LeaveScope(s, start)) /\ LeaveScope(s, start).diags = s.diags
<1> DEFINE leaving == {r \in DOMAIN s.vars : r > start /\ s.vars[r].active}
           owner(r) == Find(SubSeq(s.vars, 1, r), s.vars[r].source)
           held == {r \in leaving : s.vars[r].source # NoName}
           backTo(i, m) == {r \in held : owner(r) = i /\ s.vars[r].borrowMut = m}
           after(i) == [s.vars[i] EXCEPT
                           !.shared = GiveBack(@, Cardinality(backTo(i, FALSE))),
                           !.mutBorrow = @ /\ backTo(i, TRUE) = {},
                           !.borrowEnd = IF i \in held THEN Released ELSE @,
                           !.active = @ /\ i <= start]
           f == [i \in DOMAIN s.vars |-> after(i)]
<1>0. s.vars \in Seq(Entry)
    BY DEF State
<1>1. ASSUME NEW i \in DOMAIN s.vars PROVE after(i) \in Entry
    <2>1. s.vars[i] \in Entry
        BY <1>0
    <2>2. Cardinality(backTo(i, FALSE)) \in Nat
        BY <1>0, CountType
    <2>3. GiveBack(s.vars[i].shared, Cardinality(backTo(i, FALSE))) \in Nat
        BY <2>1, <2>2, EntryFields, GiveBackType
    <2>4. (s.vars[i].mutBorrow /\ backTo(i, TRUE) = {}) \in BOOLEAN
        OBVIOUS
    <2>5. (IF i \in held THEN Released ELSE s.vars[i].borrowEnd) \in Int
        BY <2>1, EntryFields DEF Released
    <2>6. (s.vars[i].active /\ i <= start) \in BOOLEAN
        OBVIOUS
    <2> HIDE DEF held, backTo
    <2> QED BY <2>1, <2>3, <2>4, <2>5, <2>6 DEF Entry
<1>2. LeaveScope(s, start) = [s EXCEPT !.vars = f]
    BY DEF LeaveScope
<1> HIDE DEF after
<1>3. f \in Seq(Entry) /\ Len(f) = Len(s.vars)
    BY <1>0, <1>1
<1> HIDE DEF f
<1>4. Len(s.vars) <= Len(f)
    BY <1>0, <1>3
<1> QED BY <1>2, <1>3, <1>4, SetVars DEF State

-----------------------------------------------------------------------------
(* Expressions.                                                             *)

(* Changing one entry of a state.                                           *)
LEMMA SetEntry ==
    ASSUME NEW s \in State, NEW i \in 1..Len(s.vars), NEW e \in Entry,
           NEW t, t = [s EXCEPT !.vars = [s.vars EXCEPT ![i] = e]]
    PROVE  Grows(s, t) /\ Len(t.vars) = Len(s.vars)
<1>1. s.vars \in Seq(Entry)
    BY DEF State
<1>2. /\ [s.vars EXCEPT ![i] = e] \in Seq(Entry)
      /\ Len([s.vars EXCEPT ![i] = e]) = Len(s.vars)
    BY <1>1, EntryUpdate
<1>3. Len(s.vars) <= Len([s.vars EXCEPT ![i] = e])
    BY <1>1, <1>2
<1> QED BY <1>2, <1>3, SetVars

LEMMA CheckIdentGrows ==
    ASSUME NEW s \in State, NEW n \in Names, NEW consume \in BOOLEAN, NEW line \in Nat
    PROVE  Grows(s, CheckIdent(s, n, consume, line))
<1> DEFINE i == Find(s.vars, n)
           taken == [s EXCEPT !.vars[i].status = "Moved"]
           e == [s.vars[i] EXCEPT !.status = "Moved"]
<1>1. i \in 0..Len(s.vars) /\ s.vars \in Seq(Entry)
    BY FindType DEF State
<1>2. Grows(s, Report(s, "E5001", n, line)) /\ Grows(s, Report(s, "E5002", n, line))
    BY ReportGrows DEF Codes
<1>3. Grows(s, s)
    BY GrowsReflexive
<1>4. ASSUME i # 0 PROVE Grows(s, taken)
    <2>1. i \in 1..Len(s.vars) /\ s.vars[i] \in Entry
        BY <1>1, <1>4
    <2>2. e \in Entry
        BY <2>1, EntryChanges
    <2>3. taken = [s EXCEPT !.vars = [s.vars EXCEPT ![i] = e]]
        OBVIOUS
    <2> HIDE DEF e, taken, i
    <2> QED BY <2>1, <2>2, <2>3, SetEntry
<1>5. CheckIdent(s, n, consume, line) \in
        {s, Report(s, "E5001", n, line), Report(s, "E5002", n, line)} \cup
        {t \in {taken} : i # 0}
    BY DEF CheckIdent
<1> HIDE DEF taken, i
<1> QED BY <1>2, <1>3, <1>4, <1>5

LEMMA LenderType ==
    ASSUME NEW vars \in Seq(Entry), NEW n, NEW m
    PROVE  Lender(vars, n, m) \in 0..Len(vars)
BY FindType DEF Lender

LEMMA CheckAddrGrows ==
    ASSUME NEW s \in State, NEW n \in Names, NEW m \in BOOLEAN, NEW line \in Nat
    PROVE  Grows(s, CheckAddr(s, n, m, line))
<1> DEFINE t == CreateBorrow(s, n, m, line)
           i == Lender(s.vars, n, m)
           v == ReleaseDirect(t.vars, i, m)
<1>1. Grows(s, t) /\ Len(t.vars) = Len(s.vars)
    BY CreateBorrowGrows
<1>2. t \in State /\ t.vars \in Seq(Entry) /\ s.vars \in Seq(Entry)
    BY <1>1 DEF Grows, State
<1>3. i \in 0..Len(t.vars)
    BY <1>1, <1>2, LenderType
<1>4. v \in Seq(Entry) /\ Len(v) = Len(t.vars)
    BY <1>2, <1>3, ReleaseDirectType
<1>5. CheckAddr(s, n, m, line) = [t EXCEPT !.vars = v]
    BY DEF CheckAddr
<1> HIDE DEF t, i, v
<1>6. Len(t.vars) <= Len(v)
    BY <1>2, <1>4
<1>7. Grows(t, [t EXCEPT !.vars = v])
    BY <1>2, <1>4, <1>6, SetVars
<1> QED BY <1>1, <1>5, <1>7, GrowsTransitive

LEMMA CheckSimpleExprGrows ==
    ASSUME NEW s \in State, NEW e \in SimpleExpr, NEW consume \in BOOLEAN, NEW line \in Nat
    PROVE  Grows(s, CheckSimpleExpr(s, e, consume, line))
<1>1. CASE e.tag = "ident"
    <2>1. e.name \in Names
        BY <1>1 DEF SimpleExpr
    <2> QED BY <1>1, <2>1, CheckIdentGrows DEF CheckSimpleExpr
<1>2. CASE e.tag = "addr"
    <2>1. e.name \in Names /\ e.mutable \in BOOLEAN
        BY <1>2 DEF SimpleExpr
    <2> QED BY <1>2, <2>1, CheckAddrGrows DEF CheckSimpleExpr
<1>3. CASE e.tag \notin {"ident", "addr"}
    BY <1>3, GrowsReflexive DEF CheckSimpleExpr
<1> QED BY <1>1, <1>2, <1>3

LEMMA CheckArgGrows ==
    ASSUME NEW s \in State, NEW arg \in Argument, NEW line \in Nat
    PROVE  Grows(s, CheckArg(s, arg, line))
<1>0. arg.e \in SimpleExpr /\ arg.param \in Types
    BY DEF Argument
<1>1. CASE ~IsDirect(arg)
    <2>1. (~IsReference(arg.param)) \in BOOLEAN
        BY DEF IsReference
    <2> QED BY <1>0, <1>1, <2>1, CheckSimpleExprGrows DEF CheckArg
<1>2. CASE IsDirect(arg)
    <2> DEFINE lent == CreateBorrow(s, arg.e.name, arg.e.mutable, line)
    <2>1. arg.e.name \in Names /\ arg.e.mutable \in BOOLEAN
        BY <1>0, <1>2 DEF IsDirect, SimpleExpr
    <2>2. Grows(s, lent)
        BY <2>1, CreateBorrowGrows
    <2>3. Grows(lent, Report(lent, "E5005", arg.e.name, line))
        BY <2>1, <2>2, ReportGrows DEF Grows, Codes
    <2>4. CheckArg(s, arg, line) \in {lent, Report(lent, "E5005", arg.e.name, line)}
        BY <1>2 DEF CheckArg
    <2> HIDE DEF lent
    <2> QED BY <2>2, <2>3, <2>4, GrowsTransitive
<1> QED BY <1>1, <1>2

LEMMA ReleaseArgType ==
    ASSUME NEW vars \in Seq(Entry), NEW before \in Seq(Entry), NEW arg \in Argument,
           Len(before) <= Len(vars)
    PROVE  /\ ReleaseArg(vars, before, arg) \in Seq(Entry)
           /\ Len(ReleaseArg(vars, before, arg)) = Len(vars)
<1>1. CASE ~IsDirect(arg)
    BY <1>1 DEF ReleaseArg
<1>2. CASE IsDirect(arg)
    <2> DEFINE i == Lender(before, arg.e.name, arg.e.mutable)
    <2>1. i \in 0..Len(before)
        BY LenderType
    <2>2. i \in 0..Len(vars)
        BY <2>1
    <2>3. arg.e.mutable \in BOOLEAN
        BY <1>2 DEF IsDirect, Argument, SimpleExpr
    <2>4. ReleaseArg(vars, before, arg) = ReleaseDirect(vars, i, arg.e.mutable)
        BY <1>2 DEF ReleaseArg
    <2> QED BY <2>2, <2>3, <2>4, ReleaseDirectType
<1> QED BY <1>1, <1>2

LEMMA CheckCallGrows ==
    ASSUME NEW s \in State, NEW a \in Argument, NEW b \in Argument, NEW line \in Nat,
           NEW e, e.first = a, e.second = b
    PROVE  Grows(s, CheckCall(s, e, line))
<1> DEFINE s1 == CheckArg(s, a, line)
           s2 == CheckArg(s1, b, line)
           v1 == ReleaseArg(s2.vars, s.vars, a)
           v2 == ReleaseArg(v1, s1.vars, b)
<1>1. Grows(s, s1)
    BY CheckArgGrows
<1>2. s1 \in State
    BY <1>1 DEF Grows
<1>3. Grows(s1, s2)
    BY <1>2, CheckArgGrows
<1>4. Grows(s, s2)
    BY <1>1, <1>3, GrowsTransitive
<1>5. s.vars \in Seq(Entry) /\ s1.vars \in Seq(Entry) /\ s2.vars \in Seq(Entry)
    BY <1>1, <1>3 DEF Grows, State
<1>6. CheckCall(s, e, line) = [s2 EXCEPT !.vars = v2]
    BY DEF CheckCall
<1>7. Len(s.vars) <= Len(s2.vars) /\ Len(s1.vars) <= Len(s2.vars) /\ s2 \in State
    BY <1>3, <1>4 DEF Grows
<1> HIDE DEF s1, s2
<1>8. v1 \in Seq(Entry) /\ Len(v1) = Len(s2.vars)
    BY <1>5, <1>7, ReleaseArgType
<1>9. v2 \in Seq(Entry) /\ Len(v2) = Len(s2.vars)
    <2> HIDE DEF v1
    <2>1. Len(s1.vars) <= Len(v1)
        BY <1>7, <1>8
    <2> QED BY <1>5, <1>8, <2>1, ReleaseArgType
<1> HIDE DEF v1, v2
<1>10. Len(s2.vars) <= Len(v2)
    BY <1>5, <1>9
<1> QED BY <1>4, <1>6, <1>7, <1>9, <1>10, SetVars, GrowsTransitive

LEMMA CheckExprGrows ==
    ASSUME NEW s \in State, NEW e \in Expr, NEW consume \in BOOLEAN, NEW line \in Nat
    PROVE  Grows(s, CheckExpr(s, e, consume, line))
<1>1. CASE e.tag = "call"
    <2>1. e.first \in Argument /\ e.second \in Argument
        BY <1>1 DEF Expr, SimpleExpr
    <2> QED BY <1>1, <2>1, CheckCallGrows DEF CheckExpr
<1>2. CASE e.tag = "refcall"
    <2>1. e.name \in Names /\ e.mutable \in BOOLEAN
        BY <1>2 DEF Expr, SimpleExpr
    <2> QED BY <1>2, <2>1, CheckAddrGrows DEF CheckExpr
<1>3. CASE e.tag \notin {"call", "refcall"}
    <2>1. e \in SimpleExpr
        BY <1>3 DEF Expr
    <2> QED BY <1>3, <2>1, CheckSimpleExprGrows DEF CheckExpr
<1> QED BY <1>1, <1>2, <1>3

-----------------------------------------------------------------------------
(* Statements.                                                              *)
LEMMA LetBorrowGrows ==
    ASSUME NEW s \in State, NEW n \in Names, NEW m \in BOOLEAN, NEW source \in Names,
           NEW bm \in BOOLEAN, NEW line \in Nat, prog \in Seq(Statement)
    PROVE  Grows(s, LetBorrow(s, n, m, source, bm, line))
<1> DEFINE be == IF Granted(s.vars, source, bm) THEN LastOf({LastUse(prog, n), line}, line)
                 ELSE Released
           t == CreateBorrow(s, source, bm, line)
           entry == NewRefEntry(n, RefType(bm), m, source, bm, be)
<1>1. be \in Int
    <2>1. LastUse(prog, n) \in (DOMAIN prog) \cup {0}
        BY ExtremeType DEF LastUse
    <2>2. LastUse(prog, n) \in Nat
        BY <2>1
    <2>3. LastOf({LastUse(prog, n), line}, line) \in {LastUse(prog, n), line}
        BY ExtremeType
    <2> QED BY <2>2, <2>3 DEF Released
<1>2. RefType(bm) \in Types
    BY DEF RefType, Types
<1>3. entry \in Entry
    <2> HIDE DEF be
    <2> QED BY <1>1, <1>2, NewRefEntryType
<1>4. Grows(s, t)
    BY CreateBorrowGrows
<1>5. LetBorrow(s, n, m, source, bm, line) = AddVar(t, entry)
    BY DEF LetBorrow
<1> HIDE DEF entry, t
<1>6. Grows(t, AddVar(t, entry))
    BY <1>3, <1>4, AddVarGrows DEF Grows
<1> QED BY <1>4, <1>5, <1>6, GrowsTransitive

LEMMA TypeOfType ==
    ASSUME NEW vars \in Seq(Entry), NEW n
    PROVE  TypeOf(vars, n) \in Types
<1>1. CASE Find(vars, n) = 0
    BY <1>1 DEF TypeOf, Types
<1>2. CASE Find(vars, n) # 0
    <2>1. vars[Find(vars, n)] \in Entry
        BY <1>2, FindType
    <2> QED BY <1>2, <2>1, EntryFields DEF TypeOf
<1> QED BY <1>1, <1>2

LEMMA CheckLetGrows ==
    ASSUME NEW s \in State, NEW x \in Statement, x.tag = "let", NEW line \in Nat,
           prog \in Seq(Statement)
    PROVE  Grows(s, CheckLet(s, x, line))
<1>1. x.name \in Names /\ x.ty \in Types /\ x.mutable \in BOOLEAN /\ x.e \in Expr
    BY DEF Statement
<1>2. CASE x.e.tag = "addr"
    <2>1. x.e.name \in Names /\ x.e.mutable \in BOOLEAN
        BY <1>1, <1>2 DEF Expr, SimpleExpr
    <2> QED BY <1>1, <1>2, <2>1, LetBorrowGrows DEF CheckLet
<1>3. CASE x.e.tag = "refcall"
    <2> DEFINE t == CheckExpr(s, x.e, FALSE, line)
    <2>1. x.e.name \in Names /\ x.e.returnsMut \in BOOLEAN
        BY <1>1, <1>3 DEF Expr, SimpleExpr
    <2>2. Grows(s, t)
        BY <1>1, CheckExprGrows
    <2>3. CheckLet(s, x, line) = LetBorrow(t, x.name, x.mutable, x.e.name, x.e.returnsMut, line)
        BY <1>3 DEF CheckLet
    <2> HIDE DEF t
    <2>4. Grows(t, LetBorrow(t, x.name, x.mutable, x.e.name, x.e.returnsMut, line))
        BY <1>1, <2>1, <2>2, LetBorrowGrows DEF Grows
    <2> QED BY <2>2, <2>3, <2>4, GrowsTransitive
<1>4. CASE x.e.tag = "call" /\ IsReference(x.ty)
    <2> DEFINE t == CheckExpr(s, x.e, FALSE, line)
               u == Report(t, "E5008", NoName, line)
               entry == NewRefEntry(x.name, x.ty, x.mutable, NoName, FALSE, Released)
    <2>1. Grows(s, t)
        BY <1>1, CheckExprGrows
    <2>2. Grows(t, u)
        <3> HIDE DEF t
        <3> QED BY <2>1, ReportGrows DEF Grows, Codes
    <2>3. entry \in Entry
        <3>1. Released \in Int /\ FALSE \in BOOLEAN /\ NoName \in Names \cup {NoName}
            BY DEF Released
        <3> QED BY <1>1, <3>1, NewRefEntryType
    <2>4. CheckLet(s, x, line) = AddVar(u, entry)
        BY <1>4 DEF CheckLet
    <2> HIDE DEF t, u, entry
    <2>5. Grows(u, AddVar(u, entry))
        BY <2>2, <2>3, AddVarGrows DEF Grows
    <2> QED BY <2>1, <2>2, <2>4, <2>5, GrowsTransitive
<1>5. CASE x.e.tag \notin {"addr", "refcall"} /\ ~(x.e.tag = "call" /\ IsReference(x.ty))
    <2> DEFINE ty == IF x.e.tag = "ident" THEN TypeOf(s.vars, x.e.name) ELSE x.ty
               t == CheckExpr(s, x.e, TRUE, line)
               entry == NewEntry(x.name, ty, x.mutable, 0)
    <2>1. Grows(s, t)
        BY <1>1, CheckExprGrows
    <2>2. ty \in Types
        BY <1>1, TypeOfType DEF State
    <2>3. entry \in Entry
        <3>1. 0 \in 0..2
            OBVIOUS
        <3> HIDE DEF ty
        <3> QED BY <1>1, <2>2, <3>1, NewEntryType
    <2>4. CheckLet(s, x, line) = AddVar(t, entry)
        BY <1>5 DEF CheckLet
    <2> HIDE DEF t, entry
    <2>5. Grows(t, AddVar(t, entry))
        BY <2>1, <2>3, AddVarGrows DEF Grows
    <2> QED BY <2>1, <2>4, <2>5, GrowsTransitive
<1> QED BY <1>2, <1>3, <1>4, <1>5

LEMMA ReportIfGrows ==
    ASSUME NEW s \in State, NEW cond, NEW code \in Codes, NEW n \in Names \cup {NoName},
           NEW line \in Nat
    PROVE  Grows(s, ReportIf(cond, s, code, n, line)) /\ ReportIf(cond, s, code, n, line).vars = s.vars
<1>1. Report(s, code, n, line).vars = s.vars
    BY DEF Report, State
<1> QED BY <1>1, ReportGrows, GrowsReflexive DEF ReportIf

LEMMA CheckAssignGrows ==
    ASSUME NEW s \in State, NEW x \in Statement, x.tag = "assign", NEW line \in Nat
    PROVE  Grows(s, CheckAssign(s, x, line))
<1> DEFINE i == Find(s.vars, x.name)
           s1 == ReportIf(~s.vars[i].mutable, s, "E5004", x.name, line)
           s2 == ReportIf(Borrowed(s.vars[i]), s1, "E5002", x.name, line)
           s3 == CheckExpr(s2, x.e, TRUE, line)
           e == [s3.vars[i] EXCEPT !.status = "Available"]
           s4 == [s3 EXCEPT !.vars = [s3.vars EXCEPT ![i] = e]]
<1>1. x.name \in Names /\ x.e \in Expr
    BY DEF Statement
<1>2. CASE i = 0
    BY <1>1, <1>2, CheckExprGrows DEF CheckAssign
<1>3. CASE i # 0
    <2>1. Grows(s, s1)
        BY <1>1, ReportIfGrows DEF Codes
    <2>2. Grows(s1, s2)
        <3> HIDE DEF s1
        <3> QED BY <1>1, <2>1, ReportIfGrows DEF Grows, Codes
    <2>3. Grows(s2, s3)
        <3> HIDE DEF s2
        <3> QED BY <1>1, <2>2, CheckExprGrows DEF Grows
    <2>4. CheckAssign(s, x, line) = s4
        BY <1>3 DEF CheckAssign
    <2>5. i \in 1..Len(s.vars) /\ s.vars \in Seq(Entry)
        BY <1>3, FindType DEF State
    <2> HIDE DEF s1, s2, s3, i
    <2>6. Grows(s, s3)
        BY <2>1, <2>2, <2>3, GrowsTransitive DEF Grows
    <2>7. s3 \in State /\ s3.vars \in Seq(Entry) /\ i \in 1..Len(s3.vars)
        BY <2>5, <2>6 DEF Grows, State
    <2>8. e \in Entry
        <3>1. s3.vars[i] \in Entry
            BY <2>7
        <3> QED BY <3>1, EntryChanges
    <2> HIDE DEF e, s4
    <2>9. Grows(s3, s4)
        BY <2>7, <2>8, SetEntry DEF s4
    <2> QED BY <2>4, <2>6, <2>9, GrowsTransitive
<1> QED BY <1>2, <1>3

LEMMA CheckMutationGrows ==
    ASSUME NEW s \in State, NEW n \in Names, NEW line \in Nat
    PROVE  Grows(s, CheckMutation(s, n, line))
BY ReportGrows, ReportIfGrows, GrowsReflexive DEF CheckMutation, Codes

LEMMA CheckStoreGrows ==
    ASSUME NEW s \in State, NEW x \in Statement, x.tag = "store", NEW line \in Nat
    PROVE  Grows(s, CheckStore(s, x, line))
<1> DEFINE s1 == CheckMutation(s, x.name, line)
           s2 == CheckIdent(s1, x.name, FALSE, line)
           s3 == CheckExpr(s2, x.e, TRUE, line)
<1>1. x.name \in Names /\ x.e \in Expr
    BY DEF Statement
<1>2. Grows(s, s1)
    BY <1>1, CheckMutationGrows
<1>3. Grows(s1, s2)
    BY <1>1, <1>2, CheckIdentGrows DEF Grows
<1>4. Grows(s2, s3)
    BY <1>1, <1>3, CheckExprGrows DEF Grows
<1>5. CheckStore(s, x, line) = s3
    BY DEF CheckStore
<1> HIDE DEF s1, s2, s3
<1>6. Grows(s, s2)
    BY <1>2, <1>3, GrowsTransitive
<1> QED BY <1>4, <1>5, <1>6, GrowsTransitive

LEMMA ReturnSourceType ==
    ASSUME NEW s \in State, NEW e \in Expr
    PROVE  ReturnSource(s, e) \in Names \cup {NoName}
<1>1. CASE e.tag = "addr"
    <2>1. e.name \in Names
        BY <1>1 DEF Expr, SimpleExpr
    <2> QED BY <1>1, <2>1 DEF ReturnSource
<1>2. CASE e.tag = "ident" /\ Find(s.vars, e.name) # 0
    <2> DEFINE v == s.vars[Find(s.vars, e.name)]
    <2>1. e.name \in Names
        BY <1>2 DEF Expr, SimpleExpr
    <2>2. s.vars \in Seq(Entry)
        BY DEF State
    <2>3. v \in Entry
        BY <1>2, <2>2, FindType
    <2>4. v.source \in Names \cup {NoName}
        BY <2>3, EntryFields
    <2>5. ReturnSource(s, e) \in {v.source, e.name, NoName}
        BY <1>2 DEF ReturnSource
    <2> HIDE DEF v
    <2> QED BY <2>1, <2>4, <2>5
<1>3. CASE e.tag # "addr" /\ ~(e.tag = "ident" /\ Find(s.vars, e.name) # 0)
    BY <1>3 DEF ReturnSource
<1> QED BY <1>1, <1>2, <1>3

LEMMA CheckReturnGrows ==
    ASSUME NEW s \in State, NEW e \in Expr, NEW line \in Nat
    PROVE  Grows(s, CheckReturn(s, e, line))
<1> DEFINE source == ReturnSource(s, e)
           bad == \/ source = NoName
                  \/ Find(s.vars, source) = 0
                  \/ ~Outlives(s.vars[Find(s.vars, source)])
                  \/ ReturnType = "mut" /\ s.vars[Find(s.vars, source)].ty # "mut"
<1>1. source \in Names \cup {NoName}
    BY ReturnSourceType
<1>2. CheckReturn(s, e, line) \in {s, ReportIf(bad, s, "E5008", source, line)}
    BY DEF CheckReturn
<1> HIDE DEF bad, source
<1>3. Grows(s, ReportIf(bad, s, "E5008", source, line))
    BY <1>1, ReportIfGrows DEF Codes
<1> QED BY <1>2, <1>3, GrowsReflexive

(* Marking a state as terminated changes nothing else.                      *)
LEMMA TerminateGrows ==
    ASSUME NEW s \in State, NEW b \in BOOLEAN
    PROVE  /\ Grows(s, [s EXCEPT !.terminated = b])
           /\ [s EXCEPT !.terminated = b].diags = s.diags
           /\ [s EXCEPT !.terminated = b].vars = s.vars
BY DEF Grows, State

LEMMA CheckReturnExprGrows ==
    ASSUME NEW s \in State, NEW x \in Statement, x.tag = "return_expr", NEW line \in Nat
    PROVE  Grows(s, CheckReturnExpr(s, x, line))
<1> DEFINE s1 == CheckReturn(s, x.e, line)
           s2 == CheckExpr(s1, x.e, ~IsReference(ReturnType), line)
<1>1. x.e \in Expr
    BY DEF Statement
<1>2. (~IsReference(ReturnType)) \in BOOLEAN
    BY DEF IsReference
<1>3. Grows(s, s1)
    BY <1>1, CheckReturnGrows
<1>4. Grows(s1, s2)
    BY <1>1, <1>2, <1>3, CheckExprGrows DEF Grows
<1>5. CheckReturnExpr(s, x, line) = [s2 EXCEPT !.terminated = TRUE]
    BY DEF CheckReturnExpr
<1> HIDE DEF s1, s2
<1>6. Grows(s, s2)
    BY <1>3, <1>4, GrowsTransitive
<1>7. Grows(s2, [s2 EXCEPT !.terminated = TRUE])
    BY <1>6, TerminateGrows DEF Grows
<1> QED BY <1>5, <1>6, <1>7, GrowsTransitive

(* Whatever simple statement is checked, the state grows.                   *)
LEMMA CheckSimpleGrows ==
    ASSUME NEW s \in State, NEW x \in Statement, NEW line \in Nat, prog \in Seq(Statement)
    PROVE  Grows(s, CheckSimple(s, x, line))
<1>1. CASE x.tag = "let"
    BY <1>1, CheckLetGrows DEF CheckSimple
<1>2. CASE x.tag = "assign"
    BY <1>2, CheckAssignGrows DEF CheckSimple
<1>3. CASE x.tag = "store"
    BY <1>3, CheckStoreGrows DEF CheckSimple
<1>4. CASE x.tag = "use"
    <2>1. x.e \in Expr
        BY <1>4 DEF Statement
    <2> QED BY <1>4, <2>1, CheckExprGrows DEF CheckSimple
<1>5. CASE x.tag = "return_expr"
    BY <1>5, CheckReturnExprGrows DEF CheckSimple
<1>6. CASE x.tag = "return"
    BY <1>6, TerminateGrows DEF CheckSimple
<1>7. CASE x.tag \notin {"let", "assign", "store", "use", "return_expr", "return"}
    BY <1>7, GrowsReflexive DEF CheckSimple
<1> QED BY <1>1, <1>2, <1>3, <1>4, <1>5, <1>6, <1>7

-----------------------------------------------------------------------------
(* Merging clones.                                                          *)
LEMMA MergeVarsType ==
    ASSUME NEW vars \in Seq(Entry), NEW l \in Seq(Entry), NEW r \in Seq(Entry),
           Len(vars) <= Len(l), Len(vars) <= Len(r)
    PROVE  MergeVars(vars, l, r) \in Seq(Entry) /\ Len(MergeVars(vars, l, r)) = Len(vars)
<1> DEFINE merged(i) ==
        [vars[i] EXCEPT
            !.status = IF "Moved" \in {l[i].status, r[i].status} THEN "Moved" ELSE "Available",
            !.shared = IF l[i].shared > r[i].shared THEN l[i].shared ELSE r[i].shared,
            !.mutBorrow = l[i].mutBorrow \/ r[i].mutBorrow]
           f == [i \in DOMAIN vars |-> merged(i)]
<1>1. ASSUME NEW i \in DOMAIN vars PROVE merged(i) \in Entry
    <2>1. vars[i] \in Entry /\ l[i] \in Entry /\ r[i] \in Entry
        OBVIOUS
    <2>2. (IF l[i].shared > r[i].shared THEN l[i].shared ELSE r[i].shared) \in Nat
        BY <2>1, EntryFields
    <2>3. (l[i].mutBorrow \/ r[i].mutBorrow) \in BOOLEAN
        OBVIOUS
    <2> QED BY <2>1, <2>2, <2>3 DEF Entry
<1>2. MergeVars(vars, l, r) = f
    BY DEF MergeVars
<1> HIDE DEF merged
<1>3. f \in Seq(Entry) /\ Len(f) = Len(vars)
    BY <1>1
<1> QED BY <1>2, <1>3

LEMMA MergeDiagsGrows ==
    ASSUME NEW t \in State, NEW s \in State
    PROVE  /\ Grows(t, MergeDiags(t, s))
           /\ MergeDiags(t, s).vars = t.vars
           /\ MergeDiags(t, s).diags = t.diags \cup s.diags
BY DEF Grows, State, MergeDiags

LEMMA MergeStateGrows ==
    ASSUME NEW t \in State, NEW l, NEW r, Grows(t, l), Grows(t, r)
    PROVE  /\ Grows(t, MergeState(t, l, r))
           /\ MergeState(t, l, r).diags = t.diags \cup l.diags \cup r.diags
<1> DEFINE t1 == MergeDiags(t, l)
           t2 == MergeDiags(t1, r)
           v == MergeVars(t2.vars, l.vars, r.vars)
<1>1. Grows(t, t1) /\ t1.vars = t.vars /\ t1.diags = t.diags \cup l.diags
    BY MergeDiagsGrows DEF Grows
<1>2. Grows(t1, t2) /\ t2.vars = t1.vars /\ t2.diags = t1.diags \cup r.diags
    <2> HIDE DEF t1
    <2> QED BY <1>1, MergeDiagsGrows DEF Grows
<1>3. MergeState(t, l, r) = [t2 EXCEPT !.vars = v]
    BY DEF MergeState
<1> HIDE DEF t1, t2
<1>4. t.vars \in Seq(Entry) /\ l.vars \in Seq(Entry) /\ r.vars \in Seq(Entry)
    BY DEF Grows, State
<1>5. v \in Seq(Entry) /\ Len(v) = Len(t.vars)
    BY <1>1, <1>2, <1>4, MergeVarsType DEF Grows
<1> HIDE DEF v
<1>6. Len(t2.vars) <= Len(v) /\ t2 \in State
    BY <1>1, <1>2, <1>4, <1>5 DEF Grows
<1>7. Grows(t2, [t2 EXCEPT !.vars = v]) /\ [t2 EXCEPT !.vars = v].diags = t2.diags
    BY <1>5, <1>6, SetVars DEF State
<1>8. Grows(t, t2)
    BY <1>1, <1>2, GrowsTransitive
<1> QED BY <1>1, <1>2, <1>3, <1>7, <1>8, GrowsTransitive

(* Every way to join keeps the diagnostics of all the walks it joins.       *)
LEMMA JoinOntoGrows ==
    ASSUME NEW base \in State, NEW s, Grows(base, s)
    PROVE  /\ Grows(base, JoinOnto(base, s))
           /\ JoinOnto(base, s).diags = base.diags \cup s.diags
<1>1. Grows(base, base) /\ s \in State
    BY GrowsReflexive DEF Grows
<1>2. CASE s.terminated
    BY <1>1, <1>2, MergeDiagsGrows DEF JoinOnto
<1>3. CASE ~s.terminated
    BY <1>1, <1>3, MergeStateGrows DEF JoinOnto
<1> QED BY <1>2, <1>3

LEMMA JoinBranchesGrows ==
    ASSUME NEW base \in State, NEW l, NEW r, Grows(base, l), Grows(base, r)
    PROVE  /\ Grows(base, JoinBranches(base, l, r))
           /\ JoinBranches(base, l, r).diags = base.diags \cup l.diags \cup r.diags
<1> DEFINE J == JoinBranches(base, l, r)
<1>0. l \in State /\ r \in State
    BY DEF Grows
<1>1. CASE l.terminated /\ r.terminated
    <2> DEFINE t1 == MergeDiags(base, l)
               t2 == MergeDiags(t1, r)
    <2>1. Grows(base, t1) /\ t1.diags = base.diags \cup l.diags
        BY <1>0, MergeDiagsGrows
    <2>2. Grows(t1, t2) /\ t2.diags = t1.diags \cup r.diags
        <3> HIDE DEF t1
        <3> QED BY <1>0, <2>1, MergeDiagsGrows DEF Grows
    <2>3. J = [t2 EXCEPT !.terminated = TRUE]
        BY <1>1 DEF JoinBranches
    <2> HIDE DEF t1, t2, J
    <2>4. Grows(base, t2) /\ t2 \in State
        BY <2>1, <2>2, GrowsTransitive DEF Grows
    <2>5. Grows(t2, J) /\ J.diags = t2.diags
        BY <2>3, <2>4, TerminateGrows
    <2> QED BY <2>1, <2>2, <2>4, <2>5, GrowsTransitive DEF J
<1>2. CASE l.terminated /\ ~r.terminated
    <2> DEFINE t1 == MergeState(base, r, r)
    <2>1. Grows(base, t1) /\ t1.diags = base.diags \cup r.diags
        BY MergeStateGrows
    <2>2. J = MergeDiags(t1, l)
        BY <1>2 DEF JoinBranches
    <2> HIDE DEF t1
    <2>3. Grows(t1, MergeDiags(t1, l)) /\ MergeDiags(t1, l).diags = t1.diags \cup l.diags
        BY <1>0, <2>1, MergeDiagsGrows DEF Grows
    <2> QED BY <2>1, <2>2, <2>3, GrowsTransitive
<1>3. CASE ~l.terminated /\ r.terminated
    <2> DEFINE t1 == MergeState(base, l, l)
    <2>1. Grows(base, t1) /\ t1.diags = base.diags \cup l.diags
        BY MergeStateGrows
    <2>2. J = MergeDiags(t1, r)
        BY <1>3 DEF JoinBranches
    <2> HIDE DEF t1
    <2>3. Grows(t1, MergeDiags(t1, r)) /\ MergeDiags(t1, r).diags = t1.diags \cup r.diags
        BY <1>0, <2>1, MergeDiagsGrows DEF Grows
    <2> QED BY <2>1, <2>2, <2>3, GrowsTransitive
<1>4. CASE ~l.terminated /\ ~r.terminated
    BY <1>4, MergeStateGrows DEF JoinBranches
<1> QED BY <1>1, <1>2, <1>3, <1>4

-----------------------------------------------------------------------------
(***************************************************************************)
(* The stack of walks.  Each state a caller holds on to grows into the     *)
(* ones held above it and into the state being walked; the diagnostics of  *)
(* a walked `then' region are kept in `left' until its `if' is joined.     *)
(***************************************************************************)
LeftOK(f) == IF f.kind = "else" THEN Grows(f.base, f.left) ELSE f.left = NoState

Stack(p, fs, s) ==
    /\ fs \in Seq(Frame)
    /\ s \in State
    /\ \A j, k \in DOMAIN fs : j <= k => Grows(fs[j].base, fs[k].base)
    /\ \A k \in DOMAIN fs : Grows(fs[k].base, s) /\ LeftOK(fs[k]) /\ fs[k].head \in 1..Len(p)

Kept(fs) == UNION {fs[k].left.diags : k \in DOMAIN fs}

LEMMA FrameBase ==
    ASSUME NEW fs \in Seq(Frame), NEW k \in DOMAIN fs
    PROVE  fs[k].base \in State
<1>1. fs[k] \in Frame
    OBVIOUS
<1> QED BY <1>1 DEF Frame

LEMMA GrowStack ==
    ASSUME NEW p, NEW fs, NEW s, NEW t, Stack(p, fs, s), Grows(s, t)
    PROVE  Stack(p, fs, t)
<1>1. t \in State
    BY DEF Grows
<1>2. ASSUME NEW k \in DOMAIN fs PROVE Grows(fs[k].base, t)
    BY FrameBase, GrowsTransitive DEF Stack
<1> QED BY <1>1, <1>2 DEF Stack

LEMMA PushStack ==
    ASSUME NEW p, NEW fs, NEW s, NEW t, NEW f \in Frame, Stack(p, fs, s),
           f.left = NoState, f.kind # "else", f.head \in 1..Len(p),
           Grows(s, f.base), Grows(f.base, t)
    PROVE  Stack(p, Append(fs, f), t) /\ Kept(Append(fs, f)) = Kept(fs)
<1> DEFINE gs == Append(fs, f)
<1>1. fs \in Seq(Frame)
    BY DEF Stack
<1>2. /\ gs \in Seq(Frame) /\ Len(gs) = Len(fs) + 1 /\ gs[Len(fs) + 1] = f
      /\ \A k \in DOMAIN fs : k \in DOMAIN gs /\ gs[k] = fs[k]
      /\ \A k \in DOMAIN gs : k \in DOMAIN fs \/ k = Len(fs) + 1
      /\ DOMAIN gs = 1..(Len(fs) + 1) /\ DOMAIN fs = 1..Len(fs) /\ Len(fs) \in Nat
    BY <1>1
<1> HIDE DEF gs
<1>3. ASSUME NEW k \in DOMAIN fs PROVE Grows(fs[k].base, f.base)
    BY FrameBase, GrowsTransitive DEF Stack
<1>4. f.base \in State /\ t \in State
    BY DEF Frame, Grows
<1>5. ASSUME NEW k \in DOMAIN gs PROVE Grows(gs[k].base, f.base)
    BY <1>2, <1>3, <1>4, <1>5, GrowsReflexive
<1>6. ASSUME NEW k \in DOMAIN gs PROVE Grows(gs[k].base, t)
    BY <1>2, <1>5, <1>6, FrameBase, GrowsTransitive
<1>7. ASSUME NEW j \in DOMAIN gs, NEW k \in DOMAIN gs, j <= k
      PROVE  Grows(gs[j].base, gs[k].base)
    <2>1. CASE k = Len(fs) + 1
        BY <1>2, <1>5, <2>1
    <2>2. CASE k # Len(fs) + 1
        <3>1. j \in DOMAIN fs /\ k \in DOMAIN fs
            BY <1>2, <1>7, <2>2
        <3> QED BY <1>2, <1>7, <3>1 DEF Stack
    <2> QED BY <2>1, <2>2
<1>8. LeftOK(f)
    BY DEF LeftOK
<1>9. ASSUME NEW k \in DOMAIN gs PROVE LeftOK(gs[k]) /\ gs[k].head \in 1..Len(p)
    BY <1>2, <1>8, <1>9 DEF Stack
<1>10. Stack(p, gs, t)
    BY <1>2, <1>4, <1>6, <1>7, <1>9 DEF Stack
<1>11. f.left.diags = {}
    BY DEF NoState
<1>12. Kept(gs) = Kept(fs)
    BY <1>2, <1>11 DEF Kept
<1> QED BY <1>10, <1>12 DEF gs

Replaced(fs, gs, f) == gs = [fs EXCEPT ![Len(fs)] = f]

LEMMA ReplaceStack ==
    ASSUME NEW p, NEW fs, NEW gs, NEW s, NEW t, NEW f \in Frame, Replaced(fs, gs, f),
           Stack(p, fs, s), fs # <<>>,
           fs[Len(fs)].kind # "else", LeftOK(f), f.head = fs[Len(fs)].head,
           Grows(fs[Len(fs)].base, f.base), Grows(f.base, t)
    PROVE  Stack(p, gs, t) /\ Kept(gs) = Kept(fs) \cup f.left.diags
<1> DEFINE n == Len(fs)
<1>1. fs \in Seq(Frame)
    BY DEF Stack
<1>2. /\ gs \in Seq(Frame) /\ gs[n] = f /\ DOMAIN gs = DOMAIN fs
      /\ \A k \in DOMAIN fs : k # n => gs[k] = fs[k]
      /\ DOMAIN fs = 1..n /\ n \in DOMAIN fs
    BY <1>1 DEF Replaced
<1> HIDE DEF n
<1>3. f.base \in State /\ t \in State
    BY DEF Frame, Grows
<1>4. ASSUME NEW k \in DOMAIN fs PROVE Grows(gs[k].base, f.base)
    <2>1. CASE k = n
        BY <1>2, <1>3, <2>1, GrowsReflexive
    <2>2. CASE k # n
        <3>1. Grows(fs[k].base, fs[n].base)
            BY <1>2, <1>4 DEF Stack
        <3> QED BY <1>1, <1>2, <2>2, <3>1, FrameBase, GrowsTransitive DEF n
    <2> QED BY <2>1, <2>2
<1>5. ASSUME NEW k \in DOMAIN fs PROVE Grows(gs[k].base, t)
    BY <1>2, <1>4, <1>5, FrameBase, GrowsTransitive
<1>6. ASSUME NEW j \in DOMAIN fs, NEW k \in DOMAIN fs, j <= k
      PROVE  Grows(gs[j].base, gs[k].base)
    <2>1. CASE k = n
        BY <1>2, <1>4, <2>1
    <2>2. CASE k # n
        <3>1. j # n
            BY <1>2, <1>6, <2>2
        <3> QED BY <1>2, <1>6, <2>2, <3>1 DEF Stack
    <2> QED BY <2>1, <2>2
<1>7. ASSUME NEW k \in DOMAIN fs PROVE LeftOK(gs[k]) /\ gs[k].head \in 1..Len(p)
    <2>1. CASE k = n
        BY <1>2, <2>1 DEF Stack, n
    <2>2. CASE k # n
        BY <1>2, <2>2 DEF Stack
    <2> QED BY <2>1, <2>2
<1>8. Stack(p, gs, t)
    BY <1>2, <1>3, <1>5, <1>6, <1>7 DEF Stack
<1>9. fs[n].left.diags = {}
    BY <1>2 DEF Stack, LeftOK, NoState, n
<1>10. Kept(gs) = Kept(fs) \cup f.left.diags
    BY <1>2, <1>9 DEF Kept
<1> QED BY <1>8, <1>10

LEMMA PopStack ==
    ASSUME NEW p, NEW fs, NEW s, NEW t, Stack(p, fs, s), fs # <<>>, Grows(fs[Len(fs)].base, t)
    PROVE  /\ Stack(p, SubSeq(fs, 1, Len(fs) - 1), t)
           /\ Kept(fs) = Kept(SubSeq(fs, 1, Len(fs) - 1)) \cup fs[Len(fs)].left.diags
<1> DEFINE n == Len(fs)
           gs == SubSeq(fs, 1, n - 1)
<1>1. fs \in Seq(Frame)
    BY DEF Stack
<1>2. /\ gs \in Seq(Frame) /\ DOMAIN gs = 1..(n - 1) /\ DOMAIN fs = 1..n /\ n \in DOMAIN fs
      /\ \A k \in 1..(n - 1) : gs[k] = fs[k] /\ k \in DOMAIN fs
      /\ \A k \in DOMAIN fs : k = n \/ k \in 1..(n - 1)
    BY <1>1
<1> HIDE DEF gs, n
<1>3. t \in State
    BY DEF Grows
<1>4. ASSUME NEW k \in DOMAIN gs PROVE Grows(gs[k].base, t)
    <2>1. Grows(fs[k].base, fs[n].base)
        BY <1>2, <1>4 DEF Stack
    <2> QED BY <1>1, <1>2, <1>4, <2>1, FrameBase, GrowsTransitive DEF n
<1>5. Stack(p, gs, t)
    BY <1>2, <1>3, <1>4 DEF Stack
<1>6. Kept(fs) = Kept(gs) \cup fs[n].left.diags
    BY <1>2 DEF Kept
<1> QED BY <1>5, <1>6 DEF gs, n

-----------------------------------------------------------------------------
(***************************************************************************)
(* The inductive invariant.  A match that has not reached its first arm is *)
(* the innermost walk, is about to reach an arm or its end, and has        *)
(* reported nothing that its caller does not have; so dropping its clone   *)
(* there drops no diagnostic.                                              *)
(***************************************************************************)
Matched(p, line, fs, s) ==
    \A k \in DOMAIN fs : fs[k].kind = "match" =>
        /\ k = Len(fs)
        /\ line <= Len(p) /\ p[line].tag \in {"arm", "end"}
        /\ s.diags = fs[k].base.diags

Collected == reported = st.diags \cup Kept(frames)

Inv ==
    /\ TypeOK
    /\ Stack(prog, frames, st)
    /\ Matched(prog, pc, frames, st)
    /\ Collected
    /\ finished => frames = <<>>

LEMMA InitInv == Init => Inv
<1> SUFFICES ASSUME Init PROVE Inv
    OBVIOUS
<1>1. st \in State /\ st.diags = {}
    BY ParamsAssumption DEF Init, State
<1>2. frames \in Seq(Frame) /\ DOMAIN frames = {} /\ Kept(frames) = {}
    BY DEF Init, Kept
<1>3. prog \in Seq(Statement)
    BY ProgramsAssumption DEF Init
<1>4. TypeOK
    <2>1. prog \in Programs /\ pc = 1 /\ finished = FALSE /\ reported = {}
        BY DEF Init
    <2>2. pc \in 1..(Len(prog) + 1)
        BY <1>3, <2>1
    <2> QED BY <1>1, <1>2, <2>1, <2>2 DEF TypeOK
<1>5. Stack(prog, frames, st) /\ Matched(prog, pc, frames, st)
    BY <1>1, <1>2 DEF Stack, Matched
<1>6. Collected
    BY <1>1, <1>2 DEF Init, Collected
<1> QED BY <1>4, <1>5, <1>6 DEF Init, Inv

(* What an action has to establish.                                         *)
LEMMA StepKeeps ==
    ASSUME Inv, prog' = prog, pc' \in 1..(Len(prog) + 1), finished' \in BOOLEAN,
           finished' => frames' = <<>>, Stack(prog, frames', st'),
           Matched(prog, pc', frames', st'), reported' = reported \cup st'.diags,
           st'.diags \cup Kept(frames') = st.diags \cup Kept(frames) \cup st'.diags
    PROVE  Inv'
<1>1. st' \in State /\ frames' \in Seq(Frame)
    BY DEF Stack
<1>2. reported' \in SUBSET Diagnostic
    BY <1>1 DEF Inv, TypeOK, State
<1>3. TypeOK'
    BY <1>1, <1>2 DEF Inv, TypeOK
<1>4. Collected'
    BY DEF Inv, Collected
<1> QED BY <1>3, <1>4 DEF Inv

(* No match waits for its first arm where no arm and no end stands.         *)
LEMMA NoneWaiting ==
    ASSUME NEW p, NEW line, NEW fs, NEW s, Matched(p, line, fs, s),
           fs \in Seq(Frame),
           line > Len(p) \/ p[line].tag \notin {"arm", "end"}, line \in Nat, Len(p) \in Nat
    PROVE  \A k \in DOMAIN fs : fs[k].kind # "match"
BY DEF Matched

LEMMA BoundaryType ==
    ASSUME NEW p \in Seq(Statement), NEW i \in 1..Len(p)
    PROVE  Boundary(p, i) \in 1..(Len(p) + 1)
<1> DEFINE S == {j \in i..Len(p) : p[j].tag \in DividerTags \cup {"end"} /\ Balance(p, i, j - 1) = 0}
<1>1. Boundary(p, i) = FirstOf(S, Len(p) + 1)
    BY DEF Boundary
<1>2. \A j \in S : j \in 1..(Len(p) + 1)
    OBVIOUS
<1> HIDE DEF S
<1>3. FirstOf(S, Len(p) + 1) \in S \cup {Len(p) + 1}
    BY ExtremeType
<1> QED BY <1>1, <1>2, <1>3

(* A line that ends a region is its own boundary.                           *)
LEMMA BoundaryHere ==
    ASSUME NEW p \in Seq(Statement), NEW i \in 1..Len(p),
           p[i].tag \in DividerTags \cup {"end"}
    PROVE  Boundary(p, i) = i
<1> DEFINE S == {j \in i..Len(p) : p[j].tag \in DividerTags \cup {"end"} /\ Balance(p, i, j - 1) = 0}
           opened == {k \in i..(i - 1) : p[k].tag \in OpenTags}
           closed == {k \in i..(i - 1) : p[k].tag = "end"}
<1>1. Boundary(p, i) = FirstOf(S, Len(p) + 1)
    BY DEF Boundary
<1>2. Balance(p, i, i - 1) = Cardinality(opened) - Cardinality(closed)
    BY DEF Balance
<1>3. opened = {} /\ closed = {}
    OBVIOUS
<1> HIDE DEF opened, closed
<1>4. Balance(p, i, i - 1) = 0
    BY <1>2, <1>3, FS_EmptySet
<1>5. i \in S /\ \A j \in S : j \in Int /\ i <= j
    BY <1>4
<1> HIDE DEF S
<1>6. \A k \in S : (\A j \in S : k <= j) => k = i
    BY <1>5
<1>7. FirstOf(S, Len(p) + 1) = i
    BY <1>5, <1>6 DEF FirstOf
<1> QED BY <1>1, <1>7

LEMMA Walked ==
    ASSUME Inv
    PROVE  /\ prog \in Programs /\ prog \in Seq(Statement) /\ Len(prog) \in Nat
           /\ OnlyArms(prog) /\ st \in State /\ frames \in Seq(Frame)
           /\ pc \in 1..(Len(prog) + 1) /\ finished \in BOOLEAN
           /\ Walking => pc \in 1..Len(prog) /\ pc \in Nat /\ prog[pc] \in Statement
<1>1. /\ prog \in Programs /\ st \in State /\ frames \in Seq(Frame) /\ finished \in BOOLEAN
      /\ pc \in 1..(Len(prog) + 1)
    BY DEF Inv, TypeOK
<1>2. prog \in Seq(Statement) /\ OnlyArms(prog)
    BY <1>1, ProgramsAssumption
<1>3. Walking => pc \in 1..Len(prog) /\ pc \in Nat /\ prog[pc] \in Statement
    BY <1>1, <1>2 DEF Walking
<1> QED BY <1>1, <1>2, <1>3

LEMMA TopFrame ==
    ASSUME Inv, frames # <<>>
    PROVE  /\ Len(frames) \in DOMAIN frames /\ Top \in Frame /\ Top.base \in State
           /\ Grows(Top.base, st) /\ LeftOK(Top) /\ Top.head \in 1..Len(prog)
           /\ Top.kind # "else" => Top.left.diags = {}
<1>1. Len(frames) \in DOMAIN frames
    BY Walked
<1>2. Top \in Frame /\ Top.base \in State
    BY <1>1, Walked, FrameBase DEF Top
<1>3. Grows(Top.base, st) /\ LeftOK(Top) /\ Top.head \in 1..Len(prog)
    BY <1>1 DEF Inv, Stack, Top
<1>4. Top.kind # "else" => Top.left.diags = {}
    BY <1>3 DEF LeftOK, NoState
<1> QED BY <1>1, <1>2, <1>3, <1>4

(* A statement opens a region.                                              *)
LEMMA OpenKeeps ==
    ASSUME Inv, Walking, prog[pc].tag \notin {"arm", "end"}, NEW f \in Frame,
           f.left = NoState, f.kind # "else", f.head = pc, Push(f),
           Grows(st, f.base), Grows(f.base, st'), pc' = pc + 1, prog' = prog,
           finished' = finished, reported' = reported \cup st'.diags,
           f.kind = "match" => /\ st'.diags = f.base.diags
                               /\ pc + 1 <= Len(prog) /\ prog[pc + 1].tag \in {"arm", "end"}
    PROVE  Inv'
<1>1. Stack(prog, frames, st) /\ ~finished
    BY DEF Inv, Walking
<1>2. Stack(prog, frames', st') /\ Kept(frames') = Kept(frames)
    BY <1>1, Walked, PushStack DEF Push
<1>3. \A k \in DOMAIN frames : frames[k].kind # "match"
    BY NoneWaiting, Walked DEF Inv
<1>4. /\ \A k \in DOMAIN frames' : (k \in DOMAIN frames /\ frames'[k] = frames[k])
                                   \/ (k = Len(frames') /\ frames'[k] = f)
    BY Walked DEF Push
<1>5. Matched(prog, pc', frames', st')
    BY <1>3, <1>4 DEF Matched
<1>6. st.diags \subseteq st'.diags
    BY DEF Grows
<1>7. pc' \in 1..(Len(prog) + 1)
    BY Walked
<1>8. finished' \in BOOLEAN /\ (finished' => frames' = <<>>)
    BY <1>1, Walked
<1> QED BY <1>2, <1>5, <1>6, <1>7, <1>8, StepKeeps

(* The innermost region goes on with another clone.                         *)
LEMMA ReplaceKeeps ==
    ASSUME Inv, Walking, frames # <<>>, NEW f \in Frame, ReplaceTop(f),
           f.kind # "match", Top.kind # "else", LeftOK(f), f.head = Top.head,
           Grows(Top.base, f.base), Grows(f.base, st'), pc' \in 1..(Len(prog) + 1),
           prog' = prog, finished' = finished, reported' = reported \cup st'.diags,
           st'.diags \cup f.left.diags = st.diags
    PROVE  Inv'
<1>1. Stack(prog, frames, st) /\ ~finished
    BY DEF Inv, Walking
<1>2. Stack(prog, frames', st') /\ Kept(frames') = Kept(frames) \cup f.left.diags
    <2>1. Replaced(frames, frames', f)
        BY DEF ReplaceTop, Replaced
    <2>2. /\ frames[Len(frames)].kind # "else" /\ f.head = frames[Len(frames)].head
          /\ Grows(frames[Len(frames)].base, f.base)
        BY DEF Top
    <2> QED BY <1>1, <2>1, <2>2, ReplaceStack
<1>3. \A k \in DOMAIN frames : k # Len(frames) => frames[k].kind # "match"
    BY DEF Inv, Matched
<1>4. /\ DOMAIN frames' = DOMAIN frames
      /\ \A k \in DOMAIN frames : frames'[k] = IF k = Len(frames) THEN f ELSE frames[k]
    BY Walked, TopFrame DEF ReplaceTop
<1>5. Matched(prog, pc', frames', st')
    BY <1>3, <1>4 DEF Matched
<1>6. st'.diags \cup Kept(frames') = st.diags \cup Kept(frames) \cup st'.diags
    BY <1>2
<1>7. finished' \in BOOLEAN /\ (finished' => frames' = <<>>)
    BY <1>1, Walked
<1> QED BY <1>2, <1>5, <1>6, <1>7, StepKeeps

(* The innermost region ends and is joined into the state of its caller.    *)
LEMMA CloseKeeps ==
    ASSUME Inv, NEW kinds, NEW s, Close(kinds, s), Grows(Top.base, s),
           s.diags = st.diags \cup Top.left.diags, reported' = reported \cup st'.diags
    PROVE  Inv'
<1>1. Stack(prog, frames, st) /\ ~finished /\ Walking /\ frames # <<>>
    BY DEF Inv, Close, Closing, At, Walking
<1>2. /\ st' = s /\ frames' = SubSeq(frames, 1, Len(frames) - 1) /\ pc' = pc + 1
      /\ prog' = prog /\ finished' = finished
    BY DEF Close, Pop
<1>3. Stack(prog, frames', st') /\ Kept(frames) = Kept(frames') \cup Top.left.diags
    BY <1>1, <1>2, PopStack DEF Top
<1>4. \A k \in DOMAIN frames : k # Len(frames) => frames[k].kind # "match"
    BY DEF Inv, Matched
<1>5. \A k \in DOMAIN frames' : k \in DOMAIN frames /\ k # Len(frames) /\ frames'[k] = frames[k]
    BY <1>1, <1>2, Walked
<1>6. Matched(prog, pc', frames', st')
    BY <1>4, <1>5 DEF Matched
<1>7. st'.diags \cup Kept(frames') = st.diags \cup Kept(frames) \cup st'.diags
    BY <1>2, <1>3
<1>8. pc' \in 1..(Len(prog) + 1)
    BY <1>1, <1>2, Walked
<1>9. finished' \in BOOLEAN /\ (finished' => frames' = <<>>)
    BY <1>1, <1>2, Walked
<1> QED BY <1>2, <1>3, <1>6, <1>7, <1>8, <1>9, StepKeeps

-----------------------------------------------------------------------------
(* Every action keeps the invariant.                                        *)
LEMMA FrameType ==
    ASSUME NEW kind \in Kinds \ {"else"}, NEW base \in State, NEW start \in Nat, pc \in Nat
    PROVE  /\ NewFrame(kind, base, start) \in Frame
           /\ NewFrame(kind, base, start).left = NoState
           /\ NewFrame(kind, base, start).base = base
           /\ NewFrame(kind, base, start).head = pc
           /\ NewFrame(kind, base, start).kind = kind
<1>1. NoState \in State
    BY DEF NoState, State
<1> QED BY <1>1 DEF NewFrame, Frame

LEMMA SimpleStmtKeeps ==
    ASSUME Inv, SimpleStmt, reported' = reported \cup st'.diags
    PROVE  Inv'
<1>1. /\ Walking /\ prog[pc].tag \in SimpleTags /\ st' = CheckSimple(Expire(st, pc), prog[pc], pc)
      /\ pc' = pc + 1 /\ prog' = prog /\ frames' = frames /\ finished' = finished /\ ~finished
    BY DEF SimpleStmt, Walking
<1>2. Grows(st, Expire(st, pc)) /\ Expire(st, pc) \in State
    BY <1>1, Walked, ExpireGrows DEF Grows
<1>3. Grows(Expire(st, pc), st')
    BY <1>1, <1>2, Walked, CheckSimpleGrows
<1>4. Grows(st, st')
    BY <1>2, <1>3, Walked, GrowsTransitive
<1>5. Stack(prog, frames', st')
    BY <1>1, <1>4, GrowStack DEF Inv
<1>6. \A k \in DOMAIN frames : frames[k].kind # "match"
    BY <1>1, NoneWaiting, Walked DEF Inv, SimpleTags
<1>7. Matched(prog, pc', frames', st')
    BY <1>1, <1>6 DEF Matched
<1>8. pc' \in 1..(Len(prog) + 1) /\ finished' \in BOOLEAN /\ st.diags \subseteq st'.diags
    BY <1>1, <1>4, Walked DEF Grows
<1>9. st'.diags \cup Kept(frames') = st.diags \cup Kept(frames) \cup st'.diags
    BY <1>1, <1>8
<1> QED BY <1>1, <1>5, <1>7, <1>8, <1>9, StepKeeps

LEMMA SkipDeadCodeKeeps ==
    ASSUME Inv, SkipDeadCode, reported' = reported \cup st'.diags
    PROVE  Inv'
<1>1. /\ Walking /\ pc # Boundary(prog, pc) /\ pc' = Boundary(prog, pc) /\ ~finished
      /\ prog' = prog /\ st' = st /\ frames' = frames /\ finished' = finished
    BY DEF SkipDeadCode, Walking
<1>2. pc' \in 1..(Len(prog) + 1)
    BY <1>1, Walked, BoundaryType
<1>3. prog[pc].tag \notin {"arm", "end"}
    BY <1>1, Walked, BoundaryHere DEF DividerTags
<1>4. \A k \in DOMAIN frames : frames[k].kind # "match"
    BY <1>1, <1>3, NoneWaiting, Walked DEF Inv
<1>5. Matched(prog, pc', frames', st')
    BY <1>1, <1>4 DEF Matched
<1>6. Stack(prog, frames', st') /\ finished' \in BOOLEAN
    BY <1>1, Walked DEF Inv
<1>7. st'.diags \cup Kept(frames') = st.diags \cup Kept(frames) \cup st'.diags
    BY <1>1
<1> QED BY <1>1, <1>2, <1>5, <1>6, <1>7, StepKeeps

LEMMA OpenBlockKeeps ==
    ASSUME Inv, OpenBlock, reported' = reported \cup st'.diags
    PROVE  Inv'
<1> DEFINE f == NewFrame("block", st', Len(st.vars))
<1>1. /\ Walking /\ prog[pc].tag = "block" /\ st' = Expire(st, pc) /\ Push(f) /\ pc' = pc + 1
      /\ prog' = prog /\ finished' = finished
    BY DEF OpenBlock, Opening, At
<1>2. Grows(st, st') /\ st' \in State
    BY <1>1, Walked, ExpireGrows DEF Grows
<1>3. Len(st.vars) \in Nat /\ pc \in Nat
    BY Walked DEF State
<1>4. f \in Frame /\ f.left = NoState /\ f.base = st' /\ f.head = pc /\ f.kind = "block"
    BY <1>2, <1>3, FrameType DEF Kinds
<1> HIDE DEF f
<1>5. Grows(f.base, st')
    BY <1>2, <1>4, GrowsReflexive
<1> QED BY <1>1, <1>2, <1>4, <1>5, OpenKeeps

LEMMA OpenConditionKeeps ==
    ASSUME Inv, NEW tag \in {"if", "while", "match"}, NEW kind \in {"then", "while", "match"},
           OpenCondition(tag, kind), reported' = reported \cup st'.diags,
           kind = "match" => tag = "match"
    PROVE  Inv'
<1> DEFINE f == NewFrame(kind, st', Len(st.vars))
<1>1. /\ Walking /\ prog[pc].tag = tag /\ st' = CheckExpr(Expire(st, pc), prog[pc].e, FALSE, pc)
      /\ Push(f) /\ pc' = pc + 1 /\ prog' = prog /\ finished' = finished
    BY DEF OpenCondition, Opening, At
<1>2. prog[pc].e \in Expr
    BY <1>1, Walked DEF Statement
<1>3. Grows(st, Expire(st, pc)) /\ Expire(st, pc) \in State
    BY <1>1, Walked, ExpireGrows DEF Grows
<1>4. Grows(Expire(st, pc), st')
    BY <1>1, <1>2, <1>3, Walked, CheckExprGrows
<1>5. Grows(st, st') /\ st' \in State
    BY <1>3, <1>4, Walked, GrowsTransitive DEF Grows
<1>6. Len(st.vars) \in Nat /\ pc \in Nat /\ pc \in DOMAIN prog
    BY <1>1, Walked DEF State
<1>7. f \in Frame /\ f.left = NoState /\ f.base = st' /\ f.head = pc /\ f.kind = kind
    BY <1>5, <1>6, FrameType DEF Kinds
<1>8. tag = "match" => pc + 1 <= Len(prog) /\ prog[pc + 1].tag \in {"arm", "end"}
    BY <1>1, <1>6, Walked DEF OnlyArms
<1> HIDE DEF f
<1>9. Grows(f.base, st') /\ st'.diags = f.base.diags
    BY <1>5, <1>7, GrowsReflexive
<1> QED BY <1>1, <1>5, <1>7, <1>8, <1>9, OpenKeeps

LEMMA OpenForKeeps ==
    ASSUME Inv, OpenFor, reported' = reported \cup st'.diags
    PROVE  Inv'
<1> DEFINE base == Expire(st, pc)
           f == NewFrame("for", base, Len(st.vars) + 1)
           e == NewEntry(prog[pc].name, "copy", TRUE, 0)
<1>1. /\ Walking /\ prog[pc].tag = "for" /\ Push(f) /\ st' = AddVar(base, e)
      /\ pc' = pc + 1 /\ prog' = prog /\ finished' = finished
    BY DEF OpenFor, Opening, At
<1>2. Grows(st, base) /\ base \in State
    BY <1>1, Walked, ExpireGrows DEF Grows
<1>3. prog[pc].name \in Names
    BY <1>1, Walked DEF Statement
<1>4. e \in Entry
    <2>1. "copy" \in Types /\ TRUE \in BOOLEAN /\ 0 \in 0..2
        BY DEF Types
    <2> QED BY <1>3, <2>1, NewEntryType
<1> HIDE DEF base, e
<1>5. Grows(base, st')
    BY <1>1, <1>2, <1>4, AddVarGrows
<1>6. Len(st.vars) + 1 \in Nat /\ pc \in Nat
    BY Walked DEF State
<1>7. f \in Frame /\ f.left = NoState /\ f.base = base /\ f.head = pc /\ f.kind = "for"
    BY <1>2, <1>6, FrameType DEF Kinds
<1> HIDE DEF f
<1> QED BY <1>1, <1>2, <1>5, <1>7, OpenKeeps

LEMMA EnterElseKeeps ==
    ASSUME Inv, EnterElse, reported' = reported \cup st'.diags
    PROVE  Inv'
<1> DEFINE left == LeaveScope(st, Top.start)
           f == [Top EXCEPT !.kind = "else", !.left = left]
<1>1. /\ Walking /\ frames # <<>> /\ Top.kind = "then" /\ ReplaceTop(f)
      /\ st' = Expire(Top.base, pc) /\ pc' = pc + 1 /\ prog' = prog /\ finished' = finished
    BY DEF EnterElse, Closing, At
<1>2. Top \in Frame /\ Top.base \in State /\ Grows(Top.base, st) /\ Top.start \in Nat
    BY <1>1, TopFrame DEF Frame
<1>3. Grows(st, left) /\ left.diags = st.diags /\ left \in State
    BY <1>2, Walked, LeaveScopeGrows DEF Grows
<1>4. Grows(Top.base, left)
    BY <1>2, <1>3, GrowsTransitive
<1> HIDE DEF left
<1>5. /\ f \in Frame /\ f.kind = "else" /\ f.left = left /\ f.base = Top.base
      /\ f.head = Top.head
    BY <1>2, <1>3 DEF Frame, Kinds
<1> HIDE DEF f
<1>6. LeftOK(f)
    BY <1>4, <1>5 DEF LeftOK
<1>7. Grows(Top.base, f.base)
    BY <1>2, <1>5, GrowsReflexive
<1>8. Grows(f.base, st') /\ st'.diags = Top.base.diags
    BY <1>1, <1>2, <1>5, Walked, ExpireGrows
<1>9. st'.diags \cup f.left.diags = st.diags
    BY <1>2, <1>3, <1>5, <1>8 DEF Grows
<1>10. pc' \in 1..(Len(prog) + 1)
    BY <1>1, Walked
<1> QED BY <1>1, <1>5, <1>6, <1>7, <1>8, <1>9, <1>10, ReplaceKeeps

LEMMA EnterArmKeeps ==
    ASSUME Inv, EnterArm, reported' = reported \cup st'.diags
    PROVE  Inv'
<1> DEFINE arm == LeaveScope(st, Top.start)
           base == IF Top.kind = "match" THEN Top.base ELSE JoinOnto(Top.base, arm)
           more == Top.joined \/ (Top.kind = "arm" /\ ~arm.terminated)
           f == [Top EXCEPT !.kind = "arm", !.base = base, !.joined = more]
<1>1. /\ Walking /\ frames # <<>> /\ Top.kind \in {"match", "arm"} /\ ReplaceTop(f)
      /\ st' = Expire(base, pc) /\ pc' = pc + 1 /\ prog' = prog /\ finished' = finished
    BY DEF EnterArm, Closing, At
<1>2. Top \in Frame /\ Top.base \in State /\ Grows(Top.base, st) /\ Top.start \in Nat
    BY <1>1, TopFrame DEF Frame
<1>3. Grows(st, arm) /\ arm.diags = st.diags
    BY <1>2, Walked, LeaveScopeGrows
<1>4. Grows(Top.base, arm)
    BY <1>2, <1>3, GrowsTransitive
<1>5. Grows(Top.base, base) /\ base.diags = st.diags
    <2>1. CASE Top.kind = "match"
        <3>1. st.diags = Top.base.diags
            BY <1>1, <2>1, TopFrame DEF Inv, Matched, Top
        <3> QED BY <1>2, <2>1, <3>1, GrowsReflexive
    <2>2. CASE Top.kind # "match"
        <3>1. Grows(Top.base, base) /\ base.diags = Top.base.diags \cup arm.diags
            BY <1>2, <1>4, <2>2, JoinOntoGrows
        <3> QED BY <1>2, <1>3, <3>1 DEF Grows
    <2> QED BY <2>1, <2>2
<1>6. more \in BOOLEAN
    BY <1>2 DEF Frame
<1>7. base \in State
    BY <1>5 DEF Grows
<1> HIDE DEF base, arm, more
<1>8. /\ f \in Frame /\ f.kind = "arm" /\ f.left = Top.left /\ f.base = base
      /\ f.head = Top.head
    BY <1>2, <1>6, <1>7 DEF Frame, Kinds
<1> HIDE DEF f
<1>9. LeftOK(f) /\ f.left.diags = {}
    BY <1>1, <1>8, TopFrame DEF LeftOK
<1>10. Grows(f.base, st') /\ st'.diags = st.diags
    BY <1>1, <1>5, <1>7, <1>8, Walked, ExpireGrows
<1>11. pc' \in 1..(Len(prog) + 1)
    BY <1>1, Walked
<1> QED BY <1>1, <1>5, <1>8, <1>9, <1>10, <1>11, ReplaceKeeps

(* What a pass over the innermost region leaves for its caller.             *)
LEMMA Leaving ==
    ASSUME Inv, frames # <<>>
    PROVE  /\ Grows(Top.base, LeaveScope(st, Top.start))
           /\ LeaveScope(st, Top.start).diags = st.diags
           /\ Grows(Top.base, JoinOnto(Top.base, LeaveScope(st, Top.start)))
           /\ JoinOnto(Top.base, LeaveScope(st, Top.start)).diags = st.diags
<1> DEFINE s == LeaveScope(st, Top.start)
<1>1. Top.base \in State /\ Grows(Top.base, st) /\ Top.start \in Nat
    BY TopFrame DEF Frame
<1>2. Grows(st, s) /\ s.diags = st.diags
    BY <1>1, Walked, LeaveScopeGrows
<1> HIDE DEF s
<1>3. Grows(Top.base, s)
    BY <1>1, <1>2, GrowsTransitive
<1>4. Grows(Top.base, JoinOnto(Top.base, s)) /\ JoinOnto(Top.base, s).diags = Top.base.diags \cup s.diags
    BY <1>1, <1>3, JoinOntoGrows
<1>5. Top.base.diags \cup s.diags = st.diags
    BY <1>1, <1>2 DEF Grows
<1> QED BY <1>2, <1>3, <1>4, <1>5 DEF s

LEMMA RepeatWhileKeeps ==
    ASSUME Inv, RepeatWhile, reported' = reported \cup st'.diags
    PROVE  Inv'
<1> DEFINE f == [Top EXCEPT !.base = PassResult, !.passes = Top.passes + 1]
<1>1. /\ Walking /\ frames # <<>> /\ Top.kind = "while" /\ ReplaceTop(f)
      /\ st' = PassResult /\ pc' = Top.head + 1 /\ prog' = prog /\ finished' = finished
    BY DEF RepeatWhile, Closing, At
<1>2. Top \in Frame
    BY <1>1, TopFrame
<1>3. Grows(Top.base, PassResult) /\ PassResult.diags = st.diags
    BY <1>1, Leaving DEF PassResult
<1>4. PassResult \in State
    BY <1>3 DEF Grows
<1>5. f \in Frame /\ f.kind = "while" /\ f.left = Top.left /\ f.base = PassResult /\ f.head = Top.head
    <2>1. Top.passes + 1 \in Nat
        BY <1>2 DEF Frame
    <2> QED BY <1>1, <1>2, <1>4, <2>1 DEF Frame, Kinds
<1> HIDE DEF f
<1>6. LeftOK(f) /\ f.left.diags = {}
    BY <1>1, <1>5, TopFrame DEF LeftOK
<1>7. Grows(f.base, st')
    BY <1>1, <1>4, <1>5, GrowsReflexive
<1>8. pc' \in 1..(Len(prog) + 1)
    BY <1>1, Walked, TopFrame
<1> QED BY <1>1, <1>3, <1>5, <1>6, <1>7, <1>8, ReplaceKeeps

LEMMA CloseActionsKeep ==
    ASSUME Inv, reported' = reported \cup st'.diags,
           EndBlock \/ EndThen \/ EndElse \/ EndFor \/ EndEmptyMatch \/ EndMatch \/ EndWhile
    PROVE  Inv'
<1> DEFINE s == LeaveScope(st, Top.start)
<1>0. frames # <<>>
    BY DEF EndBlock, EndThen, EndElse, EndFor, EndEmptyMatch, EndMatch, EndWhile, Close, Closing
<1>1. /\ Top.base \in State /\ Grows(Top.base, s) /\ s.diags = st.diags
      /\ Grows(Top.base, JoinOnto(Top.base, s)) /\ JoinOnto(Top.base, s).diags = st.diags
      /\ Grows(Top.base, Top.base) /\ Top.base.diags \subseteq st.diags
    BY <1>0, TopFrame, Leaving, GrowsReflexive DEF Grows
<1>2. CASE EndBlock
    <2>1. Close({"block"}, s) /\ Top.left.diags = {}
        BY <1>0, <1>2, TopFrame DEF EndBlock, Close, Closing
    <2> HIDE DEF s
    <2> QED BY <1>1, <2>1, CloseKeeps
<1>3. CASE EndThen
    <2> DEFINE u == JoinBranches(Top.base, s, Top.base)
    <2>1. Close({"then"}, u) /\ Top.left.diags = {}
        BY <1>0, <1>3, TopFrame DEF EndThen, Close, Closing
    <2> HIDE DEF s
    <2>2. Grows(Top.base, u) /\ u.diags = Top.base.diags \cup s.diags \cup Top.base.diags
        BY <1>1, JoinBranchesGrows
    <2> HIDE DEF u
    <2>3. u.diags = st.diags \cup Top.left.diags
        BY <1>1, <2>1, <2>2
    <2> QED BY <2>1, <2>2, <2>3, CloseKeeps
<1>4. CASE EndElse
    <2> DEFINE u == JoinBranches(Top.base, Top.left, s)
    <2>1. Close({"else"}, u) /\ Grows(Top.base, Top.left)
        BY <1>0, <1>4, TopFrame DEF EndElse, Close, Closing, LeftOK
    <2> HIDE DEF s
    <2>2. Grows(Top.base, u) /\ u.diags = Top.base.diags \cup Top.left.diags \cup s.diags
        BY <1>1, <2>1, JoinBranchesGrows
    <2> HIDE DEF u
    <2>3. u.diags = st.diags \cup Top.left.diags
        BY <1>1, <2>1, <2>2
    <2> QED BY <2>1, <2>2, <2>3, CloseKeeps
<1>5. CASE EndFor \/ EndWhile
    <2> DEFINE u == JoinOnto(Top.base, s)
    <2>1. PICK kinds \in {{"for"}, {"while"}} : Close(kinds, u)
        BY <1>5 DEF EndFor, EndWhile, PassResult
    <2>2. Top.left.diags = {}
        BY <1>0, <2>1, TopFrame DEF Close, Closing
    <2> HIDE DEF u, s
    <2>3. Grows(Top.base, u) /\ u.diags = st.diags
        BY <1>1 DEF u
    <2> QED BY <2>1, <2>2, <2>3, CloseKeeps
<1>6. CASE EndEmptyMatch
    <2>1. Close({"match"}, Top.base) /\ Top.left.diags = {} /\ Top.kind = "match"
        BY <1>0, <1>6, TopFrame DEF EndEmptyMatch, Close, Closing
    <2>2. Top.base.diags = st.diags
        BY <1>0, <2>1, TopFrame DEF Inv, Matched, Top
    <2> QED BY <1>1, <2>1, <2>2, CloseKeeps
<1>7. CASE EndMatch
    <2> DEFINE j == JoinOnto(Top.base, s)
               b == j.terminated \/ (s.terminated /\ ~Top.joined)
               u == [j EXCEPT !.terminated = b]
    <2>1. Close({"arm"}, u) /\ Top.left.diags = {}
        BY <1>0, <1>7, TopFrame DEF EndMatch, Close, Closing
    <2> HIDE DEF s
    <2>2. Grows(Top.base, j) /\ j.diags = st.diags /\ j \in State
        BY <1>1 DEF Grows
    <2>3. b \in BOOLEAN
        BY <2>2 DEF State
    <2> HIDE DEF j, b
    <2>4. Grows(j, u) /\ u.diags = j.diags
        BY <2>2, <2>3, TerminateGrows
    <2> HIDE DEF u
    <2>5. Grows(Top.base, u) /\ u.diags = st.diags \cup Top.left.diags
        BY <1>1, <2>1, <2>2, <2>4, GrowsTransitive
    <2> QED BY <2>1, <2>5, CloseKeeps
<1> QED BY <1>2, <1>3, <1>4, <1>5, <1>6, <1>7

LEMMA FinishKeeps ==
    ASSUME Inv, Finish, reported' = reported \cup st'.diags
    PROVE  Inv'
<1>1. /\ frames = <<>> /\ frames' = frames /\ st' = LeaveScope(st, Len(Params))
      /\ finished' = TRUE /\ pc' = pc /\ prog' = prog
    BY DEF Finish
<1>2. Len(Params) \in Nat
    BY ParamsAssumption
<1>3. Grows(st, st') /\ st'.diags = st.diags
    BY <1>1, <1>2, Walked, LeaveScopeGrows
<1>4. Stack(prog, frames', st')
    BY <1>1, <1>3, GrowStack DEF Inv
<1>5. Matched(prog, pc', frames', st')
    BY <1>1 DEF Matched
<1>6. pc' \in 1..(Len(prog) + 1)
    BY <1>1, Walked
<1>7. st'.diags \cup Kept(frames') = st.diags \cup Kept(frames) \cup st'.diags
    BY <1>1, <1>3
<1> QED BY <1>1, <1>4, <1>5, <1>6, <1>7, StepKeeps

LEMMA NextInv == Inv /\ [Check]_checkVars => Inv'
<1> SUFFICES ASSUME Inv, [Check]_checkVars PROVE Inv'
    OBVIOUS
<1>1. CASE UNCHANGED checkVars
    BY <1>1 DEF checkVars, Inv, TypeOK, Stack, Matched, Collected, Kept
<1>2. CASE Check
    <2>1. reported' = reported \cup st'.diags /\ Step
        BY <1>2 DEF Check
    <2>2. CASE SimpleStmt
        BY <2>1, <2>2, SimpleStmtKeeps
    <2>3. CASE SkipDeadCode
        BY <2>1, <2>3, SkipDeadCodeKeeps
    <2>4. CASE OpenBlock
        BY <2>1, <2>4, OpenBlockKeeps
    <2>5. CASE OpenIf \/ OpenWhile \/ OpenMatch
        BY <2>1, <2>5, OpenConditionKeeps DEF OpenIf, OpenWhile, OpenMatch
    <2>6. CASE OpenFor
        BY <2>1, <2>6, OpenForKeeps
    <2>7. CASE EnterElse
        BY <2>1, <2>7, EnterElseKeeps
    <2>8. CASE EnterArm
        BY <2>1, <2>8, EnterArmKeeps
    <2>9. CASE EndBlock \/ EndThen \/ EndElse \/ EndFor \/ EndEmptyMatch \/ EndMatch \/ EndWhile
        BY <2>1, <2>9, CloseActionsKeep
    <2>10. CASE RepeatWhile
        BY <2>1, <2>10, RepeatWhileKeeps
    <2>11. CASE Finish
        BY <2>1, <2>11, FinishKeeps
    <2> QED BY <2>1, <2>2, <2>3, <2>4, <2>5, <2>6, <2>7, <2>8, <2>9, <2>10, <2>11 DEF Step
<1> QED BY <1>1, <1>2

-----------------------------------------------------------------------------
(* Every state of the check is well formed: entries, diagnostics, the       *)
(* stack of clones ownership_check_stmt holds, and the line it is at.       *)
THEOREM TypeCorrect == Spec => []TypeOK
<1>1. Inv => TypeOK
    BY DEF Inv
<1> QED BY <1>1, InitInv, NextInv, PTL DEF Spec

(***************************************************************************)
(* ownership_check_function accepts a function from the diagnostics of its *)
(* final state alone; they are all the diagnostics that the walks of any   *)
(* branch, arm or pass reported, however the clones were merged.           *)
(***************************************************************************)
THEOREM DiagnosticsKept == Spec => []NoDiagnosticLost
<1>1. Inv => NoDiagnosticLost
    <2> SUFFICES ASSUME Inv, finished PROVE st.diags = reported
        BY DEF NoDiagnosticLost
    <2>1. frames = <<>> /\ reported = st.diags \cup Kept(frames)
        BY DEF Inv, Collected
    <2>2. Kept(frames) = {}
        BY <2>1 DEF Kept
    <2> QED BY <2>1, <2>2
<1> QED BY <1>1, InitInv, NextInv, PTL DEF Spec

-----------------------------------------------------------------------------
(***************************************************************************)
(* The claims an owner's counters make.  A region leaves no claim behind   *)
(* that was not there when it was entered: what its own references add,    *)
(* they give back when their scope is left.  So the maximum of two clones  *)
(* claims no more than the state both were made from.                      *)
(***************************************************************************)
SameReference(v, w) ==
    v.name = w.name /\ v.source = w.source /\ v.borrowMut = w.borrowMut /\ v.active = w.active

(* The references past entry n that borrow from entry i.                    *)
Owner(vars, r) == Find(SubSeq(vars, 1, r), vars[r].source)
Held(vars, n, i, m) ==
    {r \in (n + 1)..Len(vars) : /\ vars[r].active /\ vars[r].source # NoName
                                /\ Owner(vars, r) = i /\ vars[r].borrowMut = m}

(* t claims no more than b, or no more than b and what is held since.       *)
Below(b, t) ==
    /\ Len(b) <= Len(t)
    /\ \A i \in DOMAIN b : /\ SameReference(b[i], t[i])
                           /\ t[i].shared <= b[i].shared
                           /\ t[i].mutBorrow => b[i].mutBorrow
Within(b, t) ==
    /\ Len(b) <= Len(t)
    /\ \A i \in DOMAIN b :
        /\ SameReference(b[i], t[i])
        /\ t[i].shared <= b[i].shared + Cardinality(Held(t, Len(b), i, FALSE))
        /\ t[i].mutBorrow => b[i].mutBorrow \/ Held(t, Len(b), i, TRUE) # {}

Calm(vars) == \A i \in DOMAIN vars : ~(vars[i].mutBorrow /\ vars[i].shared > 0)

LEMMA DisjointUnion ==
    ASSUME NEW A, NEW B, IsFiniteSet(A), IsFiniteSet(B), A \cap B = {}
    PROVE  /\ Cardinality(A \cup B) = Cardinality(A) + Cardinality(B)
           /\ Cardinality(A) \in Nat /\ Cardinality(B) \in Nat
<1>1. Cardinality(A \cap B) = 0
    BY FS_EmptySet
<1>2. Cardinality(A) \in Nat /\ Cardinality(B) \in Nat
    BY FS_CardinalityType
<1>3. Cardinality(A \cup B) = Cardinality(A) + Cardinality(B) - Cardinality(A \cap B)
    BY FS_Union
<1> QED BY <1>1, <1>2, <1>3

LEMMA HeldFinite ==
    ASSUME NEW vars \in Seq(Entry), NEW n \in Nat, NEW i, NEW m
    PROVE  IsFiniteSet(Held(vars, n, i, m)) /\ Cardinality(Held(vars, n, i, m)) \in Nat
<1>1. Held(vars, n, i, m) \subseteq DOMAIN vars
    BY DEF Held
<1> QED BY <1>1, CountType

LEMMA SameFind ==
    ASSUME NEW v \in Seq(Entry), NEW w \in Seq(Entry), NEW n, Len(v) = Len(w),
           \A i \in DOMAIN v : v[i].name = w[i].name /\ v[i].active = w[i].active
    PROVE  Find(v, n) = Find(w, n)
<1>1. {i \in DOMAIN v : v[i].active /\ v[i].name = n} = {i \in DOMAIN w : w[i].active /\ w[i].name = n}
    OBVIOUS
<1> QED BY <1>1 DEF Find

LEMMA SameOwner ==
    ASSUME NEW v \in Seq(Entry), NEW w \in Seq(Entry), NEW r \in DOMAIN v, r \in DOMAIN w,
           \A i \in 1..r : SameReference(v[i], w[i])
    PROVE  Owner(v, r) = Owner(w, r)
<1> DEFINE a == SubSeq(v, 1, r)
           b == SubSeq(w, 1, r)
<1>1. /\ a \in Seq(Entry) /\ b \in Seq(Entry) /\ Len(a) = r /\ Len(b) = r
      /\ \A i \in 1..r : a[i] = v[i] /\ b[i] = w[i]
    OBVIOUS
<1>2. v[r].source = w[r].source
    BY DEF SameReference
<1> HIDE DEF a, b
<1>3. \A i \in DOMAIN a : a[i].name = b[i].name /\ a[i].active = b[i].active
    BY <1>1 DEF SameReference
<1>4. Find(a, v[r].source) = Find(b, v[r].source)
    <2>1. Len(a) = Len(b)
        BY <1>1
    <2> QED BY <1>1, <1>3, <2>1, SameFind
<1> QED BY <1>2, <1>4 DEF Owner, a, b

(* What is held up to an entry stays held when the entries stay.            *)
LEMMA StillHeld ==
    ASSUME NEW v \in Seq(Entry), NEW w \in Seq(Entry), NEW n \in Nat, NEW i, NEW m,
           Len(v) <= Len(w), \A k \in DOMAIN v : SameReference(v[k], w[k])
    PROVE  Held(v, n, i, m) = {r \in Held(w, n, i, m) : r <= Len(v)}
<1>1. ASSUME NEW r \in (n + 1)..Len(v)
      PROVE  Owner(v, r) = Owner(w, r) /\ SameReference(v[r], w[r])
    BY SameOwner
<1> QED BY <1>1 DEF Held, SameReference

LEMMA BelowIsWithin ==
    ASSUME NEW v \in Seq(Entry), NEW w \in Seq(Entry), Below(v, w)
    PROVE  Within(v, w)
<1>1. ASSUME NEW i \in DOMAIN v
      PROVE  /\ SameReference(v[i], w[i])
             /\ w[i].shared <= v[i].shared + Cardinality(Held(w, Len(v), i, FALSE))
             /\ w[i].mutBorrow => v[i].mutBorrow \/ Held(w, Len(v), i, TRUE) # {}
    <2> DEFINE c == Cardinality(Held(w, Len(v), i, FALSE))
    <2>1. c \in Nat
        <3>1. Len(v) \in Nat
            OBVIOUS
        <3> QED BY <3>1, HeldFinite
    <2>2. v[i] \in Entry /\ w[i] \in Entry
        BY DEF Below
    <2>3. v[i].shared \in Nat /\ w[i].shared \in Nat
        BY <2>2, EntryFields
    <2>4. SameReference(v[i], w[i]) /\ w[i].shared <= v[i].shared /\ (w[i].mutBorrow => v[i].mutBorrow)
        BY DEF Below
    <2> HIDE DEF c
    <2>5. w[i].shared <= v[i].shared + c
        BY <2>1, <2>3, <2>4
    <2> QED BY <2>4, <2>5 DEF c
<1> QED BY <1>1 DEF Below, Within

LEMMA BelowReflexive == ASSUME NEW v \in Seq(Entry) PROVE Below(v, v) /\ Within(v, v)
<1>1. \A i \in DOMAIN v : v[i].shared \in Nat
    BY EntryFields
<1>2. Below(v, v)
    BY <1>1 DEF Below, SameReference
<1> QED BY <1>2, BelowIsWithin

LEMMA WithinTransitive ==
    ASSUME NEW u \in Seq(Entry), NEW v \in Seq(Entry), NEW w \in Seq(Entry),
           Within(u, v), Within(v, w)
    PROVE  Within(u, w)
<1>1. Len(u) <= Len(v) /\ Len(v) <= Len(w) /\ Len(u) <= Len(w) /\ Len(u) \in Nat /\ Len(v) \in Nat
    BY DEF Within
<1>2. \A k \in DOMAIN v : SameReference(v[k], w[k])
    BY DEF Within
<1>3. ASSUME NEW i \in DOMAIN u
      PROVE  /\ SameReference(u[i], w[i])
             /\ w[i].shared <= u[i].shared + Cardinality(Held(w, Len(u), i, FALSE))
             /\ w[i].mutBorrow => u[i].mutBorrow \/ Held(w, Len(u), i, TRUE) # {}
    <2>0. i \in DOMAIN v /\ i \in DOMAIN w
        BY <1>1
    <2>1. SameReference(u[i], w[i])
        BY <1>2, <2>0 DEF Within, SameReference
    <2>2. u[i].shared \in Nat /\ v[i].shared \in Nat /\ w[i].shared \in Nat
        BY <2>0, EntryFields
    <2>3. \A m : Held(v, Len(u), i, m) = {r \in Held(w, Len(u), i, m) : r <= Len(v)}
        BY <1>1, <1>2, StillHeld
    <2>4. \A m : Held(w, Len(v), i, m) = {r \in Held(w, Len(u), i, m) : r > Len(v)}
        BY <1>1 DEF Held
    <2> DEFINE A == Held(v, Len(u), i, FALSE)
               B == Held(w, Len(v), i, FALSE)
               C == Held(w, Len(u), i, FALSE)
    <2>5. A \cup B = C /\ A \cap B = {}
        <3>1. \A r \in C : r \in Int /\ (r <= Len(v) \/ r > Len(v)) /\ ~(r <= Len(v) /\ r > Len(v))
            BY <1>1 DEF Held
        <3>2. A = {r \in C : r <= Len(v)} /\ B = {r \in C : r > Len(v)}
            BY <2>3, <2>4
        <3> HIDE DEF A, B, C
        <3> QED BY <3>1, <3>2
    <2>6. IsFiniteSet(A) /\ IsFiniteSet(B) /\ Cardinality(A) \in Nat /\ Cardinality(B) \in Nat
        BY <1>1, HeldFinite
    <2>7. v[i].shared <= u[i].shared + Cardinality(A) /\ w[i].shared <= v[i].shared + Cardinality(B)
        BY <2>0 DEF Within
    <2> HIDE DEF A, B
    <2> HIDE DEF C
    <2>9. Cardinality(C) = Cardinality(A) + Cardinality(B)
        BY <2>5, <2>6, DisjointUnion
    <2>10. w[i].shared <= u[i].shared + Cardinality(C)
        <3> DEFINE x == w[i].shared
                   y == v[i].shared
                   z == u[i].shared
        <3>1. x \in Nat /\ y \in Nat /\ z \in Nat /\ y <= z + Cardinality(A) /\ x <= y + Cardinality(B)
            BY <2>2, <2>7
        <3> HIDE DEF x, y, z
        <3>2. x <= z + (Cardinality(A) + Cardinality(B))
            BY <2>6, <3>1
        <3> QED BY <2>9, <3>2 DEF x, z
    <2>11. w[i].mutBorrow => u[i].mutBorrow \/ Held(w, Len(u), i, TRUE) # {}
        <3>1. v[i].mutBorrow => u[i].mutBorrow \/ Held(v, Len(u), i, TRUE) # {}
            BY DEF Within
        <3>2. w[i].mutBorrow => v[i].mutBorrow \/ Held(w, Len(v), i, TRUE) # {}
            BY <2>0 DEF Within
        <3> QED BY <2>3, <2>4, <3>1, <3>2
    <2> QED BY <2>1, <2>10, <2>11 DEF C
<1> QED BY <1>1, <1>3 DEF Within

(* Claims that are only given back leave an owner at peace.                 *)
LEMMA CalmBelow ==
    ASSUME NEW v \in Seq(Entry), NEW w \in Seq(Entry), Len(v) = Len(w), Calm(v),
           \A i \in DOMAIN v : w[i].shared <= v[i].shared /\ (w[i].mutBorrow => v[i].mutBorrow)
    PROVE  Calm(w)
<1>1. \A i \in DOMAIN w : v[i].shared \in Nat /\ w[i].shared \in Nat
    BY EntryFields
<1> QED BY <1>1 DEF Calm

-----------------------------------------------------------------------------
(* An expression gives back the borrows it takes: afterwards nothing but    *)
(* what has been moved is different.                                        *)
Fixed(v, w) ==
    /\ v.name = w.name /\ v.ty = w.ty /\ v.mutable = w.mutable /\ v.active = w.active
    /\ v.param = w.param /\ v.source = w.source /\ v.borrowMut = w.borrowMut
    /\ v.borrowEnd = w.borrowEnd
OnlyStatus(v, w) ==
    /\ Len(w) = Len(v)
    /\ \A i \in DOMAIN v : /\ Fixed(v[i], w[i])
                           /\ w[i].shared = v[i].shared
                           /\ w[i].mutBorrow = v[i].mutBorrow

(* What a granted borrow adds to its owner and what its end takes away.     *)
Lent(vars, i, m) ==
    IF i = 0 THEN vars
    ELSE IF m THEN [vars EXCEPT ![i].mutBorrow = TRUE]
    ELSE [vars EXCEPT ![i].shared = @ + 1]
Lendable(vars, i, m) ==
    /\ i \in 0..Len(vars)
    /\ i # 0 => /\ vars[i].status # "Moved" /\ ~vars[i].mutBorrow
                /\ m => vars[i].mutable /\ vars[i].shared = 0
Counted(v, w, i, m) ==
    /\ w \in Seq(Entry) /\ Len(w) = Len(v)
    /\ \A k \in DOMAIN v :
        /\ Fixed(v[k], w[k]) /\ w[k].status = v[k].status
        /\ w[k].shared = IF k = i /\ ~m THEN v[k].shared + 1 ELSE v[k].shared
        /\ w[k].mutBorrow = (v[k].mutBorrow \/ (k = i /\ m))
Returned(v, w, i, m) ==
    /\ w \in Seq(Entry) /\ Len(w) = Len(v)
    /\ \A k \in DOMAIN v :
        /\ Fixed(v[k], w[k]) /\ w[k].status = v[k].status
        /\ w[k].shared = IF k = i /\ ~m THEN GiveBack(v[k].shared, 1) ELSE v[k].shared
        /\ w[k].mutBorrow = (v[k].mutBorrow /\ ~(k = i /\ m))

LEMMA OnlyStatusReflexive == ASSUME NEW v \in Seq(Entry) PROVE OnlyStatus(v, v)
BY DEF OnlyStatus, Fixed

LEMMA OnlyStatusTransitive ==
    ASSUME NEW u \in Seq(Entry), NEW v \in Seq(Entry), NEW w \in Seq(Entry),
           OnlyStatus(u, v), OnlyStatus(v, w)
    PROVE  OnlyStatus(u, w)
<1>1. DOMAIN u = DOMAIN v
    BY DEF OnlyStatus
<1> QED BY <1>1 DEF OnlyStatus, Fixed

LEMMA OnlyStatusBelow ==
    ASSUME NEW v \in Seq(Entry), NEW w \in Seq(Entry), OnlyStatus(v, w)
    PROVE  Below(v, w) /\ Within(v, w) /\ (Calm(v) => Calm(w))
<1>1. \A i \in DOMAIN v : v[i].shared \in Nat
    BY EntryFields
<1>2. Below(v, w)
    BY <1>1 DEF OnlyStatus, Below, Fixed, SameReference
<1>3. DOMAIN v = DOMAIN w
    BY DEF OnlyStatus
<1>4. Calm(v) => Calm(w)
    BY <1>3 DEF OnlyStatus, Calm
<1> QED BY <1>2, <1>4, BelowIsWithin

LEMMA LentIs ==
    ASSUME NEW v \in Seq(Entry), NEW i \in 0..Len(v), NEW m \in BOOLEAN
    PROVE  Counted(v, Lent(v, i, m), i, m)
<1>0. \A k \in DOMAIN v : v[k] \in Entry /\ v[k].mutBorrow \in BOOLEAN /\ v[k].shared \in Nat
    BY EntryFields
<1>1. CASE i = 0
    BY <1>0, <1>1 DEF Lent, Counted, Fixed
<1>2. CASE i # 0 /\ m
    <2> DEFINE e == [v[i] EXCEPT !.mutBorrow = TRUE]
    <2>a. i \in 1..Len(v) /\ v[i] \in Entry
        BY <1>0, <1>2
    <2>1. e \in Entry
        BY <2>a, EntryChanges
    <2>2. /\ Fixed(v[i], e) /\ e.status = v[i].status /\ e.shared = v[i].shared /\ e.mutBorrow = TRUE
        BY <1>0, <1>2 DEF Fixed, Entry
    <2>3. Lent(v, i, m) = [v EXCEPT ![i] = e]
        BY <1>2 DEF Lent
    <2> HIDE DEF e
    <2>4. /\ Lent(v, i, m) \in Seq(Entry) /\ Len(Lent(v, i, m)) = Len(v)
          /\ \A k \in DOMAIN v : Lent(v, i, m)[k] = IF k = i THEN e ELSE v[k]
        BY <2>a, <2>1, <2>3
    <2> QED BY <1>0, <1>2, <2>2, <2>4 DEF Counted, Fixed
<1>3. CASE i # 0 /\ ~m
    <2> DEFINE e == [v[i] EXCEPT !.shared = @ + 1]
    <2>a. i \in 1..Len(v) /\ v[i] \in Entry /\ v[i].shared \in Nat
        BY <1>0, <1>3
    <2>0. v[i].shared + 1 \in Nat
        BY <2>a
    <2>1. e \in Entry
        BY <2>a, <2>0, EntryChanges
    <2>2. /\ Fixed(v[i], e) /\ e.status = v[i].status /\ e.shared = v[i].shared + 1
          /\ e.mutBorrow = v[i].mutBorrow
        BY <1>0, <1>3 DEF Fixed, Entry
    <2>3. Lent(v, i, m) = [v EXCEPT ![i] = e]
        BY <1>3 DEF Lent
    <2> HIDE DEF e
    <2>4. /\ Lent(v, i, m) \in Seq(Entry) /\ Len(Lent(v, i, m)) = Len(v)
          /\ \A k \in DOMAIN v : Lent(v, i, m)[k] = IF k = i THEN e ELSE v[k]
        BY <2>a, <2>1, <2>3
    <2> QED BY <1>0, <1>3, <2>2, <2>4 DEF Counted, Fixed
<1> QED BY <1>1, <1>2, <1>3

LEMMA ReleaseIs ==
    ASSUME NEW v \in Seq(Entry), NEW i \in 0..Len(v), NEW m \in BOOLEAN
    PROVE  Returned(v, ReleaseDirect(v, i, m), i, m)
<1>0. \A k \in DOMAIN v : v[k] \in Entry /\ v[k].mutBorrow \in BOOLEAN /\ v[k].shared \in Nat
    BY EntryFields
<1>1. CASE i = 0
    BY <1>0, <1>1 DEF ReleaseDirect, Returned, Fixed
<1>2. CASE i # 0 /\ m
    <2> DEFINE e == [v[i] EXCEPT !.mutBorrow = FALSE]
    <2>a. i \in 1..Len(v) /\ v[i] \in Entry
        BY <1>0, <1>2
    <2>1. e \in Entry
        BY <2>a, EntryChanges
    <2>2. /\ Fixed(v[i], e) /\ e.status = v[i].status /\ e.shared = v[i].shared /\ e.mutBorrow = FALSE
        BY <1>0, <1>2 DEF Fixed, Entry
    <2>3. ReleaseDirect(v, i, m) = [v EXCEPT ![i] = e]
        BY <1>2 DEF ReleaseDirect
    <2> HIDE DEF e
    <2>4. /\ ReleaseDirect(v, i, m) \in Seq(Entry) /\ Len(ReleaseDirect(v, i, m)) = Len(v)
          /\ \A k \in DOMAIN v : ReleaseDirect(v, i, m)[k] = IF k = i THEN e ELSE v[k]
        BY <2>a, <2>1, <2>3
    <2> QED BY <1>0, <1>2, <2>2, <2>4 DEF Returned, Fixed
<1>3. CASE i # 0 /\ ~m
    <2> DEFINE e == [v[i] EXCEPT !.shared = GiveBack(@, 1)]
    <2>a. i \in 1..Len(v) /\ v[i] \in Entry /\ v[i].shared \in Nat
        BY <1>0, <1>3
    <2>0. GiveBack(v[i].shared, 1) \in Nat
        BY <2>a, GiveBackType
    <2>1. e \in Entry
        BY <2>a, <2>0, EntryChanges
    <2>2. /\ Fixed(v[i], e) /\ e.status = v[i].status /\ e.shared = GiveBack(v[i].shared, 1)
          /\ e.mutBorrow = v[i].mutBorrow
        BY <1>0, <1>3 DEF Fixed, Entry
    <2>3. ReleaseDirect(v, i, m) = [v EXCEPT ![i] = e]
        BY <1>3 DEF ReleaseDirect
    <2> HIDE DEF e
    <2>4. /\ ReleaseDirect(v, i, m) \in Seq(Entry) /\ Len(ReleaseDirect(v, i, m)) = Len(v)
          /\ \A k \in DOMAIN v : ReleaseDirect(v, i, m)[k] = IF k = i THEN e ELSE v[k]
        BY <2>a, <2>1, <2>3
    <2> QED BY <1>0, <1>3, <2>2, <2>4 DEF Returned, Fixed
<1> QED BY <1>1, <1>2, <1>3

(* ownership_create_borrow lends what its checks let it lend.               *)
LEMMA LenderLends ==
    ASSUME NEW v \in Seq(Entry), NEW n, NEW m \in BOOLEAN
    PROVE  Lendable(v, Lender(v, n, m), m)
<1>1. Lender(v, n, m) \in 0..Len(v)
    BY LenderType
<1>2. CASE Lender(v, n, m) = 0
    BY <1>1, <1>2 DEF Lendable
<1>3. CASE Lender(v, n, m) # 0
    <2>1. Lender(v, n, m) = Find(v, n) /\ BorrowError(v[Find(v, n)], m) = NoName
        BY <1>3 DEF Lender, Granted
    <2> DEFINE e == v[Find(v, n)]
    <2>2. e \in Entry /\ e.mutBorrow \in BOOLEAN /\ e.shared \in Nat
        BY <1>1, <1>3, <2>1, EntryFields
    <2>3. "E5001" # NoName /\ "E5003" # NoName /\ "E5004" # NoName
        BY Zenon DEF NoName
    <2> HIDE DEF e
    <2>4. e.status # "Moved" /\ ~e.mutBorrow /\ (m => e.mutable /\ e.shared = 0)
        BY <2>1, <2>2, <2>3 DEF BorrowError, Borrowed, Entry, e
    <2> QED BY <1>1, <2>1, <2>4 DEF Lendable, e
<1> QED BY <1>2, <1>3

LEMMA BorrowIs ==
    ASSUME NEW s \in State, NEW n \in Names, NEW m \in BOOLEAN, NEW line \in Nat
    PROVE  CreateBorrow(s, n, m, line).vars = Lent(s.vars, Lender(s.vars, n, m), m)
<1> DEFINE i == Find(s.vars, n)
<1>1. CASE i = 0
    BY <1>1 DEF CreateBorrow, Lent, Lender, Granted
<1>2. CASE i # 0 /\ ~Granted(s.vars, n, m)
    <2>1. CreateBorrow(s, n, m, line) = Report(s, BorrowError(s.vars[i], m), n, line)
        BY <1>2 DEF CreateBorrow
    <2>2. Report(s, BorrowError(s.vars[i], m), n, line).vars = s.vars
        BY DEF Report, State
    <2> QED BY <1>2, <2>1, <2>2 DEF Lent, Lender
<1>3. CASE i # 0 /\ Granted(s.vars, n, m)
    <2>1. Lender(s.vars, n, m) = i
        BY <1>3 DEF Lender
    <2>2. CASE m
        <3>1. CreateBorrow(s, n, m, line) = [s EXCEPT !.vars = [s.vars EXCEPT ![i].mutBorrow = TRUE]]
            BY <1>3, <2>2 DEF CreateBorrow
        <3> QED BY <1>3, <2>1, <2>2, <3>1 DEF Lent, State
    <2>3. CASE ~m
        <3>1. CreateBorrow(s, n, m, line) = [s EXCEPT !.vars = [s.vars EXCEPT ![i].shared = @ + 1]]
            BY <1>3, <2>3 DEF CreateBorrow
        <3> QED BY <1>3, <2>1, <2>3, <3>1 DEF Lent, State
    <2> QED BY <2>2, <2>3
<1> QED BY <1>1, <1>2, <1>3

LEMMA VarsOf ==
    ASSUME NEW s, NEW t, Grows(s, t)
    PROVE  t \in State /\ t.vars \in Seq(Entry)
BY DEF Grows, State

LEMMA IdentOnlyMoves ==
    ASSUME NEW s \in State, NEW n \in Names, NEW consume \in BOOLEAN, NEW line \in Nat
    PROVE  OnlyStatus(s.vars, CheckIdent(s, n, consume, line).vars)
<1> DEFINE i == Find(s.vars, n)
           taken == [s EXCEPT !.vars[i].status = "Moved"]
           e == [s.vars[i] EXCEPT !.status = "Moved"]
<1>1. i \in 0..Len(s.vars) /\ s.vars \in Seq(Entry)
    BY FindType DEF State
<1>2. \A code : Report(s, code, n, line).vars = s.vars
    BY DEF Report, State
<1>3. ASSUME i # 0 PROVE OnlyStatus(s.vars, taken.vars)
    <2>1. i \in 1..Len(s.vars) /\ s.vars[i] \in Entry
        BY <1>1, <1>3
    <2>2. taken.vars = [s.vars EXCEPT ![i] = e]
        BY DEF State
    <2>3. Fixed(s.vars[i], e) /\ e.shared = s.vars[i].shared /\ e.mutBorrow = s.vars[i].mutBorrow
        BY <2>1 DEF Fixed, Entry
    <2> HIDE DEF e, taken, i
    <2>4. /\ Len(taken.vars) = Len(s.vars)
          /\ \A k \in DOMAIN s.vars : taken.vars[k] = IF k = i THEN e ELSE s.vars[k]
        BY <1>1, <2>1, <2>2
    <2> QED BY <2>3, <2>4 DEF OnlyStatus, Fixed
<1>4. CheckIdent(s, n, consume, line) \in
        {s, Report(s, "E5001", n, line), Report(s, "E5002", n, line)} \cup
        {t \in {taken} : i # 0}
    BY DEF CheckIdent
<1>5. OnlyStatus(s.vars, s.vars)
    BY <1>1, OnlyStatusReflexive
<1> HIDE DEF taken, i
<1> QED BY <1>2, <1>3, <1>4, <1>5

(* A borrow that is given back at once changes nothing.                     *)
LEMMA LentAndReturned ==
    ASSUME NEW v \in Seq(Entry), NEW i, NEW m \in BOOLEAN, Lendable(v, i, m)
    PROVE  /\ OnlyStatus(v, ReleaseDirect(Lent(v, i, m), i, m))
           /\ \A k \in DOMAIN v : ReleaseDirect(Lent(v, i, m), i, m)[k].status = v[k].status
<1> DEFINE w == Lent(v, i, m)
           x == ReleaseDirect(w, i, m)
<1>1. i \in 0..Len(v)
    BY DEF Lendable
<1>2. Counted(v, w, i, m)
    BY <1>1, LentIs
<1> HIDE DEF w
<1>3. w \in Seq(Entry) /\ Len(w) = Len(v)
    BY <1>2 DEF Counted
<1>4. Returned(w, x, i, m)
    BY <1>1, <1>3, ReleaseIs
<1> HIDE DEF x
<1>5. \A k \in DOMAIN v : v[k].shared \in Nat /\ v[k].mutBorrow \in BOOLEAN
    BY EntryFields
<1>6. ASSUME NEW k \in DOMAIN v
      PROVE  /\ Fixed(v[k], x[k]) /\ x[k].shared = v[k].shared /\ x[k].mutBorrow = v[k].mutBorrow
             /\ x[k].status = v[k].status
    <2>1. /\ Fixed(v[k], w[k]) /\ w[k].status = v[k].status
          /\ w[k].shared = IF k = i /\ ~m THEN v[k].shared + 1 ELSE v[k].shared
          /\ w[k].mutBorrow = (v[k].mutBorrow \/ (k = i /\ m))
        BY <1>2 DEF Counted
    <2>2. /\ Fixed(w[k], x[k]) /\ x[k].status = w[k].status
          /\ x[k].shared = IF k = i /\ ~m THEN GiveBack(w[k].shared, 1) ELSE w[k].shared
          /\ x[k].mutBorrow = (w[k].mutBorrow /\ ~(k = i /\ m))
        BY <1>3, <1>4 DEF Returned
    <2>3. k = i /\ m => ~v[k].mutBorrow
        BY DEF Lendable
    <2>4. x[k].shared = v[k].shared
        BY <1>5, <2>1, <2>2 DEF GiveBack
    <2> QED BY <1>5, <2>1, <2>2, <2>3, <2>4 DEF Fixed
<1>7. Len(x) = Len(v)
    BY <1>3, <1>4 DEF Returned
<1> QED BY <1>6, <1>7 DEF OnlyStatus, x, w

LEMMA AddrOnlyMoves ==
    ASSUME NEW s \in State, NEW n \in Names, NEW m \in BOOLEAN, NEW line \in Nat
    PROVE  /\ OnlyStatus(s.vars, CheckAddr(s, n, m, line).vars)
           /\ \A k \in DOMAIN s.vars : CheckAddr(s, n, m, line).vars[k].status = s.vars[k].status
<1> DEFINE i == Lender(s.vars, n, m)
           t == CreateBorrow(s, n, m, line)
<1>1. s.vars \in Seq(Entry)
    BY DEF State
<1>2. Lendable(s.vars, i, m)
    BY <1>1, LenderLends
<1>3. t \in State /\ t.vars = Lent(s.vars, i, m)
    BY CreateBorrowGrows, BorrowIs DEF Grows
<1>4. CheckAddr(s, n, m, line) = [t EXCEPT !.vars = ReleaseDirect(t.vars, i, m)]
    BY DEF CheckAddr
<1> HIDE DEF t, i
<1>5. CheckAddr(s, n, m, line).vars = ReleaseDirect(Lent(s.vars, i, m), i, m)
    BY <1>3, <1>4 DEF State
<1> QED BY <1>1, <1>2, <1>5, LentAndReturned

LEMMA SimpleExprOnlyMoves ==
    ASSUME NEW s \in State, NEW e \in SimpleExpr, NEW consume \in BOOLEAN, NEW line \in Nat
    PROVE  OnlyStatus(s.vars, CheckSimpleExpr(s, e, consume, line).vars)
<1>1. CASE e.tag = "ident"
    <2>1. e.name \in Names
        BY <1>1 DEF SimpleExpr
    <2> QED BY <1>1, <2>1, IdentOnlyMoves DEF CheckSimpleExpr
<1>2. CASE e.tag = "addr"
    <2>1. e.name \in Names /\ e.mutable \in BOOLEAN
        BY <1>2 DEF SimpleExpr
    <2> QED BY <1>2, <2>1, AddrOnlyMoves DEF CheckSimpleExpr
<1>3. CASE e.tag \notin {"ident", "addr"}
    <2>1. OnlyStatus(s.vars, s.vars)
        BY OnlyStatusReflexive DEF State
    <2> QED BY <1>3, <2>1 DEF CheckSimpleExpr
<1> QED BY <1>1, <1>2, <1>3

(* The entry an argument is lent from while the call lasts.                 *)
LentFrom(vars, arg) == IF IsDirect(arg) THEN Lender(vars, arg.e.name, arg.e.mutable) ELSE 0
LentMut(arg) == IsDirect(arg) /\ arg.e.mutable

LEMMA ArgumentLends ==
    ASSUME NEW s \in State, NEW arg \in Argument, NEW line \in Nat
    PROVE  /\ LentMut(arg) \in BOOLEAN
           /\ Lendable(s.vars, LentFrom(s.vars, arg), LentMut(arg))
           /\ OnlyStatus(Lent(s.vars, LentFrom(s.vars, arg), LentMut(arg)), CheckArg(s, arg, line).vars)
           /\ \A vars : ReleaseArg(vars, s.vars, arg) = ReleaseDirect(vars, LentFrom(s.vars, arg), LentMut(arg))
<1>0. s.vars \in Seq(Entry) /\ arg.e \in SimpleExpr
    BY DEF State, Argument
<1>1. CASE ~IsDirect(arg)
    <2>1. LentFrom(s.vars, arg) = 0 /\ LentMut(arg) = FALSE
        BY <1>1 DEF LentFrom, LentMut
    <2>2. Lendable(s.vars, 0, FALSE)
        BY <1>0 DEF Lendable
    <2>3. Lent(s.vars, 0, FALSE) = s.vars /\ \A vars : ReleaseDirect(vars, 0, FALSE) = vars
        BY DEF Lent, ReleaseDirect
    <2>4. (~IsReference(arg.param)) \in BOOLEAN
        BY DEF IsReference
    <2>5. OnlyStatus(s.vars, CheckSimpleExpr(s, arg.e, ~IsReference(arg.param), line).vars)
        BY <1>0, <2>4, SimpleExprOnlyMoves
    <2>6. CheckArg(s, arg, line) = CheckSimpleExpr(s, arg.e, ~IsReference(arg.param), line)
        BY <1>1 DEF CheckArg
    <2>7. \A vars : ReleaseArg(vars, s.vars, arg) = vars
        BY <1>1 DEF ReleaseArg
    <2> QED BY <2>1, <2>2, <2>3, <2>5, <2>6, <2>7
<1>2. CASE IsDirect(arg)
    <2> DEFINE i == Lender(s.vars, arg.e.name, arg.e.mutable)
               lent == CreateBorrow(s, arg.e.name, arg.e.mutable, line)
    <2>1. arg.e.name \in Names /\ arg.e.mutable \in BOOLEAN
        BY <1>0, <1>2 DEF IsDirect, SimpleExpr
    <2>2. LentFrom(s.vars, arg) = i /\ LentMut(arg) = arg.e.mutable
        BY <1>2, <2>1 DEF LentFrom, LentMut
    <2>3. Lendable(s.vars, i, arg.e.mutable)
        BY <1>0, <2>1, LenderLends
    <2>4. lent \in State /\ lent.vars = Lent(s.vars, i, arg.e.mutable)
        BY <2>1, CreateBorrowGrows, BorrowIs DEF Grows
    <2>5. Report(lent, "E5005", arg.e.name, line).vars = lent.vars
        BY <2>4 DEF Report, State
    <2>6. CheckArg(s, arg, line) \in {lent, Report(lent, "E5005", arg.e.name, line)}
        BY <1>2 DEF CheckArg
    <2>7. \A vars : ReleaseArg(vars, s.vars, arg) = ReleaseDirect(vars, i, arg.e.mutable)
        BY <1>2 DEF ReleaseArg
    <2> HIDE DEF lent, i
    <2>8. CheckArg(s, arg, line).vars = Lent(s.vars, i, arg.e.mutable)
        BY <2>4, <2>5, <2>6
    <2>9. lent.vars \in Seq(Entry)
        BY <2>4 DEF State
    <2>10. OnlyStatus(lent.vars, lent.vars)
        BY <2>9, OnlyStatusReflexive
    <2> QED BY <2>1, <2>2, <2>3, <2>4, <2>7, <2>8, <2>10
<1> QED BY <1>1, <1>2

(* Two borrows held at once do not mix up what is given back.               *)
LEMMA BothReturned ==
    ASSUME NEW v \in Seq(Entry), NEW w1 \in Seq(Entry), NEW w2 \in Seq(Entry),
           NEW g1, NEW m1 \in BOOLEAN, NEW g2, NEW m2 \in BOOLEAN,
           Lendable(v, g1, m1), OnlyStatus(Lent(v, g1, m1), w1),
           Lendable(w1, g2, m2), OnlyStatus(Lent(w1, g2, m2), w2)
    PROVE  /\ OnlyStatus(v, ReleaseDirect(ReleaseDirect(w2, g1, m1), g2, m2))
           /\ \A k \in DOMAIN v : ReleaseDirect(ReleaseDirect(w2, g1, m1), g2, m2)[k].status = w2[k].status
<1> DEFINE u1 == Lent(v, g1, m1)
           u2 == Lent(w1, g2, m2)
           x == ReleaseDirect(w2, g1, m1)
           y == ReleaseDirect(x, g2, m2)
<1>1. g1 \in 0..Len(v) /\ g2 \in 0..Len(w1)
    BY DEF Lendable
<1>2. Counted(v, u1, g1, m1) /\ Counted(w1, u2, g2, m2)
    BY <1>1, LentIs
<1> HIDE DEF u1, u2
<1>3. /\ Len(u1) = Len(v) /\ Len(w1) = Len(v) /\ Len(u2) = Len(v) /\ Len(w2) = Len(v)
      /\ u1 \in Seq(Entry) /\ u2 \in Seq(Entry)
    BY <1>2 DEF Counted, OnlyStatus, u1, u2
<1>4. Returned(w2, x, g1, m1)
    BY <1>1, <1>3, ReleaseIs
<1> HIDE DEF x
<1>5. x \in Seq(Entry) /\ Len(x) = Len(v)
    BY <1>3, <1>4 DEF Returned
<1>6. Returned(x, y, g2, m2)
    BY <1>1, <1>3, <1>5, ReleaseIs
<1> HIDE DEF y
<1>7. ASSUME NEW k \in DOMAIN v
      PROVE  /\ Fixed(v[k], y[k]) /\ y[k].shared = v[k].shared /\ y[k].mutBorrow = v[k].mutBorrow
             /\ y[k].status = w2[k].status
    <2>0. /\ k \in DOMAIN u1 /\ k \in DOMAIN w1 /\ k \in DOMAIN u2 /\ k \in DOMAIN w2 /\ k \in DOMAIN x
        BY <1>3, <1>5
    <2>1. v[k].shared \in Nat /\ v[k].mutBorrow \in BOOLEAN
        BY EntryFields
    <2>2. /\ Fixed(v[k], u1[k])
          /\ u1[k].shared = IF k = g1 /\ ~m1 THEN v[k].shared + 1 ELSE v[k].shared
          /\ u1[k].mutBorrow = (v[k].mutBorrow \/ (k = g1 /\ m1))
        BY <1>2 DEF Counted
    <2>3. Fixed(u1[k], w1[k]) /\ w1[k].shared = u1[k].shared /\ w1[k].mutBorrow = u1[k].mutBorrow
        BY <2>0 DEF OnlyStatus, u1
    <2>4. /\ Fixed(w1[k], u2[k])
          /\ u2[k].shared = IF k = g2 /\ ~m2 THEN w1[k].shared + 1 ELSE w1[k].shared
          /\ u2[k].mutBorrow = (w1[k].mutBorrow \/ (k = g2 /\ m2))
        BY <1>2, <2>0 DEF Counted
    <2>5. Fixed(u2[k], w2[k]) /\ w2[k].shared = u2[k].shared /\ w2[k].mutBorrow = u2[k].mutBorrow
        BY <2>0 DEF OnlyStatus, u2
    <2>6. /\ Fixed(w2[k], x[k]) /\ x[k].status = w2[k].status
          /\ x[k].shared = IF k = g1 /\ ~m1 THEN GiveBack(w2[k].shared, 1) ELSE w2[k].shared
          /\ x[k].mutBorrow = (w2[k].mutBorrow /\ ~(k = g1 /\ m1))
        BY <1>4, <2>0 DEF Returned
    <2>7. /\ Fixed(x[k], y[k]) /\ y[k].status = x[k].status
          /\ y[k].shared = IF k = g2 /\ ~m2 THEN GiveBack(x[k].shared, 1) ELSE x[k].shared
          /\ y[k].mutBorrow = (x[k].mutBorrow /\ ~(k = g2 /\ m2))
        BY <1>6, <2>0 DEF Returned
    <2>8. /\ k = g1 => ~v[k].mutBorrow /\ (m1 => v[k].shared = 0)
          /\ k = g2 => ~w1[k].mutBorrow /\ (m2 => w1[k].shared = 0)
        BY <2>0 DEF Lendable
    <2>9. Fixed(v[k], y[k]) /\ y[k].status = w2[k].status
        BY <2>2, <2>3, <2>4, <2>5, <2>6, <2>7 DEF Fixed
    <2>10. y[k].mutBorrow = v[k].mutBorrow
        BY <2>1, <2>2, <2>3, <2>4, <2>5, <2>6, <2>7, <2>8
    <2>11. y[k].shared = v[k].shared
        BY <2>1, <2>2, <2>3, <2>4, <2>5, <2>6, <2>7 DEF GiveBack
    <2> QED BY <2>9, <2>10, <2>11
<1>8. Len(y) = Len(v)
    BY <1>5, <1>6 DEF Returned
<1> QED BY <1>7, <1>8 DEF OnlyStatus, y, x

LEMMA CallOnlyMoves ==
    ASSUME NEW s \in State, NEW a \in Argument, NEW b \in Argument, NEW line \in Nat,
           NEW e, e.first = a, e.second = b
    PROVE  /\ OnlyStatus(s.vars, CheckCall(s, e, line).vars)
           /\ \A k \in DOMAIN s.vars : CheckCall(s, e, line).vars[k].status =
                                       CheckArg(CheckArg(s, a, line), b, line).vars[k].status
<1> DEFINE s1 == CheckArg(s, a, line)
           s2 == CheckArg(s1, b, line)
           g1 == LentFrom(s.vars, a)
           g2 == LentFrom(s1.vars, b)
<1>1. s1 \in State /\ s1.vars \in Seq(Entry) /\ s.vars \in Seq(Entry)
    BY CheckArgGrows DEF Grows, State
<1>2. s2 \in State /\ s2.vars \in Seq(Entry)
    BY <1>1, CheckArgGrows DEF Grows, State
<1>3. /\ LentMut(a) \in BOOLEAN /\ Lendable(s.vars, g1, LentMut(a))
      /\ OnlyStatus(Lent(s.vars, g1, LentMut(a)), s1.vars)
      /\ \A vars : ReleaseArg(vars, s.vars, a) = ReleaseDirect(vars, g1, LentMut(a))
    BY ArgumentLends
<1>4. /\ LentMut(b) \in BOOLEAN /\ Lendable(s1.vars, g2, LentMut(b))
      /\ OnlyStatus(Lent(s1.vars, g2, LentMut(b)), s2.vars)
      /\ \A vars : ReleaseArg(vars, s1.vars, b) = ReleaseDirect(vars, g2, LentMut(b))
    BY <1>1, ArgumentLends
<1>5. CheckCall(s, e, line) = [s2 EXCEPT !.vars = ReleaseArg(ReleaseArg(s2.vars, s.vars, a), s1.vars, b)]
    BY DEF CheckCall
<1> HIDE DEF g1, g2, s1, s2
<1>6. CheckCall(s, e, line).vars = ReleaseArg(ReleaseArg(s2.vars, s.vars, a), s1.vars, b)
    BY <1>2, <1>5 DEF State
<1>7. CheckCall(s, e, line).vars = ReleaseDirect(ReleaseDirect(s2.vars, g1, LentMut(a)), g2, LentMut(b))
    BY <1>3, <1>4, <1>6
<1> QED BY <1>1, <1>2, <1>3, <1>4, <1>7, BothReturned DEF s1, s2

LEMMA ExprOnlyMoves ==
    ASSUME NEW s \in State, NEW e \in Expr, NEW consume \in BOOLEAN, NEW line \in Nat
    PROVE  OnlyStatus(s.vars, CheckExpr(s, e, consume, line).vars)
<1>1. CASE e.tag = "call"
    <2>1. e.first \in Argument /\ e.second \in Argument
        BY <1>1 DEF Expr, SimpleExpr
    <2> QED BY <1>1, <2>1, CallOnlyMoves DEF CheckExpr
<1>2. CASE e.tag = "refcall"
    <2>1. e.name \in Names /\ e.mutable \in BOOLEAN
        BY <1>2 DEF Expr, SimpleExpr
    <2> QED BY <1>2, <2>1, AddrOnlyMoves DEF CheckExpr
<1>3. CASE e.tag \notin {"call", "refcall"}
    <2>1. e \in SimpleExpr
        BY <1>3 DEF Expr
    <2> QED BY <1>3, <2>1, SimpleExprOnlyMoves DEF CheckExpr
<1> QED BY <1>1, <1>2, <1>3

LEMMA ReportKeepsVars ==
    ASSUME NEW s \in State, NEW code, NEW n, NEW line
    PROVE  Report(s, code, n, line).vars = s.vars
BY DEF Report, State

(* A statement that is no `let' only moves, too.                            *)
LEMMA AssignOnlyMoves ==
    ASSUME NEW s \in State, NEW x \in Statement, x.tag = "assign", NEW line \in Nat
    PROVE  OnlyStatus(s.vars, CheckAssign(s, x, line).vars)
<1> DEFINE i == Find(s.vars, x.name)
           s1 == ReportIf(~s.vars[i].mutable, s, "E5004", x.name, line)
           s2 == ReportIf(Borrowed(s.vars[i]), s1, "E5002", x.name, line)
           s3 == CheckExpr(s2, x.e, TRUE, line)
           e == [s3.vars[i] EXCEPT !.status = "Available"]
           v == [s3.vars EXCEPT ![i] = e]
<1>1. x.name \in Names /\ x.e \in Expr /\ s.vars \in Seq(Entry)
    BY DEF Statement, State
<1>2. CASE i = 0
    BY <1>1, <1>2, ExprOnlyMoves DEF CheckAssign
<1>3. CASE i # 0
    <2>1. s1 \in State /\ s1.vars = s.vars
        <3>1. Grows(s, s1)
            BY <1>1, ReportIfGrows DEF Codes
        <3>2. s1.vars = s.vars
            BY <1>1, ReportKeepsVars DEF ReportIf
        <3> QED BY <3>1, <3>2 DEF Grows
    <2>2. s2 \in State /\ s2.vars = s.vars
        <3> HIDE DEF s1
        <3>1. Grows(s1, s2)
            BY <1>1, <2>1, ReportIfGrows DEF Codes
        <3>2. s2.vars = s1.vars
            BY <2>1, ReportKeepsVars DEF ReportIf
        <3> QED BY <2>1, <3>1, <3>2 DEF Grows
    <2>3. s3 \in State /\ s3.vars \in Seq(Entry) /\ OnlyStatus(s.vars, s3.vars)
        <3> HIDE DEF s2
        <3> QED BY <1>1, <2>2, CheckExprGrows, ExprOnlyMoves DEF Grows, State
    <2>4. CheckAssign(s, x, line) = [s3 EXCEPT !.vars = v]
        BY <1>3 DEF CheckAssign
    <2>5. i \in 1..Len(s.vars)
        BY <1>1, <1>3, FindType
    <2> HIDE DEF s1, s2, s3, i
    <2>6. CheckAssign(s, x, line).vars = v
        BY <2>3, <2>4 DEF State
    <2>7. i \in 1..Len(s3.vars) /\ s3.vars[i] \in Entry
        BY <2>3, <2>5 DEF OnlyStatus
    <2>8. e \in Entry /\ Fixed(s3.vars[i], e) /\ e.shared = s3.vars[i].shared /\ e.mutBorrow = s3.vars[i].mutBorrow
        BY <2>7 DEF Fixed, Entry
    <2> HIDE DEF e
    <2>9. v \in Seq(Entry) /\ Len(v) = Len(s3.vars) /\ \A k \in DOMAIN s3.vars : v[k] = IF k = i THEN e ELSE s3.vars[k]
        BY <2>3, <2>7, <2>8
    <2> HIDE DEF v
    <2>10. OnlyStatus(s3.vars, v)
        BY <2>8, <2>9 DEF OnlyStatus, Fixed
    <2> QED BY <1>1, <2>3, <2>6, <2>9, <2>10, OnlyStatusTransitive
<1> QED BY <1>2, <1>3

LEMMA MutationChangesNothing ==
    ASSUME NEW s \in State, NEW n \in Names, NEW line \in Nat
    PROVE  CheckMutation(s, n, line).vars = s.vars
<1>1. \A code : Report(s, code, n, line).vars = s.vars
    BY DEF Report, State
<1> QED BY <1>1 DEF CheckMutation, ReportIf

LEMMA StoreOnlyMoves ==
    ASSUME NEW s \in State, NEW x \in Statement, x.tag = "store", NEW line \in Nat
    PROVE  OnlyStatus(s.vars, CheckStore(s, x, line).vars)
<1> DEFINE s1 == CheckMutation(s, x.name, line)
           s2 == CheckIdent(s1, x.name, FALSE, line)
           s3 == CheckExpr(s2, x.e, TRUE, line)
<1>1. x.name \in Names /\ x.e \in Expr /\ s.vars \in Seq(Entry)
    BY DEF Statement, State
<1>2. s1 \in State /\ s1.vars = s.vars
    BY <1>1, CheckMutationGrows, MutationChangesNothing DEF Grows
<1>3. s2 \in State /\ s2.vars \in Seq(Entry) /\ OnlyStatus(s1.vars, s2.vars)
    BY <1>1, <1>2, CheckIdentGrows, IdentOnlyMoves DEF Grows, State
<1>4. s3 \in State /\ s3.vars \in Seq(Entry) /\ OnlyStatus(s2.vars, s3.vars)
    BY <1>1, <1>3, CheckExprGrows, ExprOnlyMoves DEF Grows, State
<1>5. CheckStore(s, x, line) = s3
    BY DEF CheckStore
<1> HIDE DEF s1, s2, s3
<1> QED BY <1>1, <1>2, <1>3, <1>4, <1>5, OnlyStatusTransitive

LEMMA ReturnOnlyMoves ==
    ASSUME NEW s \in State, NEW x \in Statement, x.tag = "return_expr", NEW line \in Nat
    PROVE  OnlyStatus(s.vars, CheckReturnExpr(s, x, line).vars)
<1> DEFINE s1 == CheckReturn(s, x.e, line)
           s2 == CheckExpr(s1, x.e, ~IsReference(ReturnType), line)
<1>1. x.e \in Expr /\ (~IsReference(ReturnType)) \in BOOLEAN
    BY DEF Statement, IsReference
<1>2. s1 \in State
    BY <1>1, CheckReturnGrows DEF Grows
<1>3. s1.vars = s.vars
    <2>1. \A code, n : Report(s, code, n, line).vars = s.vars
        BY DEF Report, State
    <2> QED BY <2>1 DEF CheckReturn, ReportIf
<1>4. s2 \in State /\ OnlyStatus(s1.vars, s2.vars)
    BY <1>1, <1>2, CheckExprGrows, ExprOnlyMoves DEF Grows
<1>5. CheckReturnExpr(s, x, line) = [s2 EXCEPT !.terminated = TRUE]
    BY DEF CheckReturnExpr
<1> HIDE DEF s1, s2
<1> QED BY <1>3, <1>4, <1>5 DEF State

LEMMA OthersOnlyMove ==
    ASSUME NEW s \in State, NEW x \in Statement, x.tag # "let", NEW line \in Nat
    PROVE  OnlyStatus(s.vars, CheckSimple(s, x, line).vars)
<1>1. CASE x.tag = "assign"
    BY <1>1, AssignOnlyMoves DEF CheckSimple
<1>2. CASE x.tag = "store"
    BY <1>2, StoreOnlyMoves DEF CheckSimple
<1>3. CASE x.tag = "use"
    <2>1. x.e \in Expr
        BY <1>3 DEF Statement
    <2> QED BY <1>3, <2>1, ExprOnlyMoves DEF CheckSimple
<1>4. CASE x.tag = "return_expr"
    BY <1>4, ReturnOnlyMoves DEF CheckSimple
<1>5. CASE x.tag \notin {"assign", "store", "use", "return_expr"}
    <2>1. OnlyStatus(s.vars, s.vars)
        BY OnlyStatusReflexive DEF State
    <2>2. CheckSimple(s, x, line).vars = s.vars
        BY <1>5 DEF CheckSimple, State
    <2> QED BY <2>1, <2>2
<1> QED BY <1>1, <1>2, <1>3, <1>4, <1>5

(* A `let' appends one entry: of a reference, lent from its owner, or of    *)
(* something that borrows from nobody.                                      *)
LastNamed(n, line) == LastOf({LastUse(prog, n), line}, line)
EndLine(g, n, line) == IF g = 0 THEN Released ELSE LastNamed(n, line)
IsBorrow(x) == x.e.tag \in {"addr", "refcall"}
BorrowsMut(x) == IF x.e.tag = "addr" THEN x.e.mutable ELSE x.e.returnsMut
LentEntry(u, n, m, source, bm, line) ==
    NewRefEntry(n, RefType(bm), m, source, bm, EndLine(Lender(u, source, bm), n, line))
LentVars(u, n, m, source, bm, line) ==
    Append(Lent(u, Lender(u, source, bm), bm), LentEntry(u, n, m, source, bm, line))
LetVars(u, x, line) == LentVars(u, x.name, x.mutable, x.e.name, BorrowsMut(x), line)
BorrowsNothing(e, n) ==
    /\ e \in Entry /\ e.name = n /\ e.active /\ e.shared = 0 /\ ~e.mutBorrow
    /\ e.source = NoName /\ e.borrowEnd < 0

LEMMA LetBorrowIs ==
    ASSUME NEW s \in State, NEW n \in Names, NEW m \in BOOLEAN, NEW source \in Names,
           NEW bm \in BOOLEAN, NEW line \in Nat
    PROVE  LetBorrow(s, n, m, source, bm, line).vars = LentVars(s.vars, n, m, source, bm, line)
<1> DEFINE be == IF Granted(s.vars, source, bm) THEN LastNamed(n, line) ELSE Released
           t == CreateBorrow(s, source, bm, line)
<1>1. LetBorrow(s, n, m, source, bm, line) = AddVar(t, NewRefEntry(n, RefType(bm), m, source, bm, be))
    BY DEF LetBorrow, LastNamed
<1>2. t \in State /\ t.vars = Lent(s.vars, Lender(s.vars, source, bm), bm)
    BY CreateBorrowGrows, BorrowIs DEF Grows
<1>3. be = EndLine(Lender(s.vars, source, bm), n, line)
    BY DEF EndLine, Lender, Granted
<1> HIDE DEF t, be
<1>4. \A e : AddVar(t, e).vars = Append(t.vars, e)
    BY <1>2 DEF AddVar, State
<1> QED BY <1>1, <1>2, <1>3, <1>4 DEF LentVars, LentEntry

LEMMA LetAppends ==
    ASSUME NEW s \in State, NEW x \in Statement, x.tag = "let", NEW line \in Nat
    PROVE  \E u \in Seq(Entry) :
              /\ OnlyStatus(s.vars, u)
              /\ IF IsBorrow(x) THEN CheckLet(s, x, line).vars = LetVars(u, x, line)
                 ELSE \E e : /\ BorrowsNothing(e, x.name)
                             /\ CheckLet(s, x, line).vars = Append(u, e)
<1>1. x.name \in Names /\ x.ty \in Types /\ x.mutable \in BOOLEAN /\ x.e \in Expr /\ s.vars \in Seq(Entry)
    BY DEF Statement, State
<1>2. CASE x.e.tag = "addr"
    <2>1. x.e.name \in Names /\ x.e.mutable \in BOOLEAN
        BY <1>1, <1>2 DEF Expr, SimpleExpr
    <2>2. CheckLet(s, x, line) = LetBorrow(s, x.name, x.mutable, x.e.name, x.e.mutable, line)
        BY <1>2 DEF CheckLet
    <2>3. BorrowsMut(x) = x.e.mutable /\ IsBorrow(x)
        BY <1>2 DEF BorrowsMut, IsBorrow
    <2>4. CheckLet(s, x, line).vars = LetVars(s.vars, x, line)
        BY <1>1, <2>1, <2>2, <2>3, LetBorrowIs DEF LetVars
    <2> QED BY <1>1, <2>3, <2>4, OnlyStatusReflexive
<1>3. CASE x.e.tag = "refcall"
    <2> DEFINE t == CheckExpr(s, x.e, FALSE, line)
    <2>1. x.e.name \in Names /\ x.e.returnsMut \in BOOLEAN
        BY <1>1, <1>3 DEF Expr, SimpleExpr
    <2>2. t \in State /\ t.vars \in Seq(Entry) /\ OnlyStatus(s.vars, t.vars)
        BY <1>1, CheckExprGrows, ExprOnlyMoves DEF Grows, State
    <2>3. CheckLet(s, x, line) = LetBorrow(t, x.name, x.mutable, x.e.name, x.e.returnsMut, line)
        BY <1>3 DEF CheckLet
    <2>4. BorrowsMut(x) = x.e.returnsMut /\ IsBorrow(x)
        BY <1>3 DEF BorrowsMut, IsBorrow
    <2> HIDE DEF t
    <2>5. CheckLet(s, x, line).vars = LetVars(t.vars, x, line)
        <3>1. LetBorrow(t, x.name, x.mutable, x.e.name, x.e.returnsMut, line).vars =
                  LentVars(t.vars, x.name, x.mutable, x.e.name, x.e.returnsMut, line)
            <4>1. ASSUME NEW z \in State PROVE
                  LetBorrow(z, x.name, x.mutable, x.e.name, x.e.returnsMut, line).vars =
                      LentVars(z.vars, x.name, x.mutable, x.e.name, x.e.returnsMut, line)
                BY <1>1, <2>1, LetBorrowIs
            <4> QED BY <2>2, <4>1
        <3> QED BY <2>3, <2>4, <3>1 DEF LetVars
    <2> QED BY <2>2, <2>4, <2>5
<1>4. CASE x.e.tag = "call" /\ IsReference(x.ty)
    <2> DEFINE t == CheckExpr(s, x.e, FALSE, line)
               u == Report(t, "E5008", NoName, line)
               entry == NewRefEntry(x.name, x.ty, x.mutable, NoName, FALSE, Released)
    <2>1. t \in State /\ t.vars \in Seq(Entry) /\ OnlyStatus(s.vars, t.vars)
        BY <1>1, CheckExprGrows, ExprOnlyMoves DEF Grows, State
    <2> HIDE DEF t
    <2>2. u \in State /\ u.vars = t.vars
        <3>1. Grows(t, u)
            BY <2>1, ReportGrows DEF Codes
        <3> QED BY <2>1, <3>1 DEF Grows, Report, State
    <2>3. entry \in Entry
        <3>1. Released \in Int /\ FALSE \in BOOLEAN /\ NoName \in Names \cup {NoName}
            BY DEF Released
        <3> QED BY <1>1, <3>1, NewRefEntryType
    <2>4. BorrowsNothing(entry, x.name)
        BY <2>3 DEF BorrowsNothing, NewRefEntry, NewEntry, Released
    <2>5. CheckLet(s, x, line) = AddVar(u, entry)
        BY <1>4 DEF CheckLet, t
    <2> HIDE DEF u, entry
    <2>6. CheckLet(s, x, line).vars = Append(t.vars, entry)
        BY <2>2, <2>3, <2>5, AddVarGrows
    <2>7. ~IsBorrow(x)
        BY <1>4 DEF IsBorrow
    <2> QED BY <2>1, <2>4, <2>6, <2>7
<1>5. CASE x.e.tag \notin {"addr", "refcall"} /\ ~(x.e.tag = "call" /\ IsReference(x.ty))
    <2> DEFINE ty == IF x.e.tag = "ident" THEN TypeOf(s.vars, x.e.name) ELSE x.ty
               t == CheckExpr(s, x.e, TRUE, line)
               entry == NewEntry(x.name, ty, x.mutable, 0)
    <2>1. t \in State /\ t.vars \in Seq(Entry) /\ OnlyStatus(s.vars, t.vars)
        BY <1>1, CheckExprGrows, ExprOnlyMoves DEF Grows, State
    <2>2. ty \in Types
        BY <1>1, TypeOfType
    <2>3. entry \in Entry
        <3>1. 0 \in 0..2
            OBVIOUS
        <3> HIDE DEF ty
        <3> QED BY <1>1, <2>2, <3>1, NewEntryType
    <2> HIDE DEF ty
    <2>4. BorrowsNothing(entry, x.name)
        BY <2>3 DEF BorrowsNothing, NewEntry, NotABorrow
    <2>5. CheckLet(s, x, line) = AddVar(t, entry)
        BY <1>5 DEF CheckLet, ty
    <2> HIDE DEF t, entry
    <2>6. CheckLet(s, x, line).vars = Append(t.vars, entry)
        BY <2>1, <2>3, <2>5, AddVarGrows
    <2>7. ~IsBorrow(x)
        BY <1>5 DEF IsBorrow
    <2> QED BY <2>1, <2>4, <2>6, <2>7
<1> QED BY <1>2, <1>3, <1>4, <1>5

-----------------------------------------------------------------------------
(* The references that expire give their borrows back, once each.           *)
Due(vars, line) ==
    {r \in DOMAIN vars : vars[r].active /\ vars[r].borrowEnd >= 0 /\ vars[r].borrowEnd < line}
GivenBack(vars, refs, i, m) ==
    {r \in refs : vars[r].source # NoName /\ Find(vars, vars[r].source) = i /\ vars[r].borrowMut = m}
Kin(v, w) ==
    /\ SameReference(v, w) /\ v.ty = w.ty /\ v.mutable = w.mutable /\ v.param = w.param
    /\ v.status = w.status
Expired(v, w, refs) ==
    /\ w \in Seq(Entry) /\ Len(w) = Len(v)
    /\ \A i \in DOMAIN v :
        /\ Kin(v[i], w[i])
        /\ w[i].shared = GiveBack(v[i].shared, Cardinality(GivenBack(v, refs, i, FALSE)))
        /\ w[i].mutBorrow = (v[i].mutBorrow /\ GivenBack(v, refs, i, TRUE) = {})
        /\ w[i].borrowEnd = IF i \in refs /\ v[i].source # NoName THEN Released ELSE v[i].borrowEnd

LEMMA ReleasedAre ==
    ASSUME NEW v \in Seq(Entry), NEW refs \in SUBSET DOMAIN v
    PROVE  Expired(v, ReleaseReferences(v, refs), refs)
<1> DEFINE held == {r \in refs : v[r].source # NoName}
           backTo(i, m) == {r \in held : Find(v, v[r].source) = i /\ v[r].borrowMut = m}
           after(i) == [v[i] EXCEPT
                           !.shared = GiveBack(@, Cardinality(backTo(i, FALSE))),
                           !.mutBorrow = @ /\ backTo(i, TRUE) = {},
                           !.borrowEnd = IF i \in held THEN Released ELSE @]
           f == [i \in DOMAIN v |-> after(i)]
<1>1. ASSUME NEW i \in DOMAIN v
      PROVE  /\ Kin(v[i], after(i))
             /\ after(i).shared = GiveBack(v[i].shared, Cardinality(backTo(i, FALSE)))
             /\ after(i).mutBorrow = (v[i].mutBorrow /\ backTo(i, TRUE) = {})
             /\ after(i).borrowEnd = IF i \in held THEN Released ELSE v[i].borrowEnd
    <2>1. v[i] \in Entry
        OBVIOUS
    <2> HIDE DEF backTo, held
    <2> QED BY <2>1 DEF Kin, SameReference, Entry
<1>2. ReleaseReferences(v, refs) = Tuple(f)
    BY DEF ReleaseReferences
<1>3. ReleaseReferences(v, refs) \in Seq(Entry) /\ Len(ReleaseReferences(v, refs)) = Len(v)
    BY ReleaseReferencesType
<1>4. \A i \in DOMAIN v : ReleaseReferences(v, refs)[i] = after(i)
    <2> HIDE DEF after
    <2>1. DOMAIN v = 1..Len(v)
        OBVIOUS
    <2>2. f \in Seq({after(i) : i \in DOMAIN v}) /\ DOMAIN f = DOMAIN v /\ \A i \in DOMAIN v : f[i] = after(i)
        BY <2>1
    <2> HIDE DEF f
    <2>3. Tuple(f) = f
        BY <2>2 DEF Tuple
    <2> QED BY <1>2, <2>2, <2>3
<1>5. \A i, m : GivenBack(v, refs, i, m) = backTo(i, m)
    BY DEF GivenBack
<1>6. \A i : i \in held <=> i \in refs /\ v[i].source # NoName
    OBVIOUS
<1> HIDE DEF after, backTo, held
<1> QED BY <1>1, <1>3, <1>4, <1>5, <1>6 DEF Expired

LEMMA GiveBackLess == ASSUME NEW n \in Nat, NEW k \in Nat PROVE GiveBack(n, k) <= n
BY DEF GiveBack

LEMMA ExpireIs ==
    ASSUME NEW s \in State, NEW line \in Nat
    PROVE  Expired(s.vars, Expire(s, line).vars, Due(s.vars, line))
<1>1. s.vars \in Seq(Entry) /\ Due(s.vars, line) \in SUBSET DOMAIN s.vars
    BY DEF State, Due
<1>2. Expire(s, line) = [s EXCEPT !.vars = ReleaseReferences(s.vars, Due(s.vars, line))]
    BY DEF Expire, Due
<1>3. Expire(s, line).vars = ReleaseReferences(s.vars, Due(s.vars, line))
    BY <1>2 DEF State
<1> QED BY <1>1, <1>3, ReleasedAre

LEMMA ExpireBelow ==
    ASSUME NEW s \in State, NEW line \in Nat
    PROVE  /\ Below(s.vars, Expire(s, line).vars) /\ Len(Expire(s, line).vars) = Len(s.vars)
           /\ Calm(s.vars) => Calm(Expire(s, line).vars)
<1> DEFINE v == s.vars
           w == Expire(s, line).vars
           due == Due(v, line)
<1>1. v \in Seq(Entry) /\ Expired(v, w, due) /\ due \subseteq DOMAIN v
    BY ExpireIs DEF State, Due
<1> HIDE DEF v, w, due
<1>2. w \in Seq(Entry) /\ Len(w) = Len(v)
    BY <1>1 DEF Expired
<1>3. ASSUME NEW i \in DOMAIN v
      PROVE  /\ SameReference(v[i], w[i]) /\ w[i].shared <= v[i].shared
             /\ w[i].mutBorrow => v[i].mutBorrow
    <2>1. v[i].shared \in Nat
        BY <1>1, EntryFields
    <2>2. GivenBack(v, due, i, FALSE) \subseteq DOMAIN v
        BY <1>1 DEF GivenBack
    <2>3. Cardinality(GivenBack(v, due, i, FALSE)) \in Nat
        BY <1>1, <2>2, CountType
    <2> QED BY <1>1, <2>1, <2>3, GiveBackLess DEF Expired, Kin
<1>4. Below(v, w)
    BY <1>2, <1>3 DEF Below
<1>5. Calm(v) => Calm(w)
    BY <1>1, <1>2, <1>3, CalmBelow
<1> QED BY <1>2, <1>4, <1>5 DEF v, w

(* A scope that is left gives back what its references hold.                *)
AfterScope(v, e, i, start) ==
    /\ e.name = v[i].name /\ e.source = v[i].source /\ e.borrowMut = v[i].borrowMut
    /\ e.status = v[i].status /\ e.ty = v[i].ty
    /\ e.active = (v[i].active /\ i <= start)
    /\ e.shared = GiveBack(v[i].shared, Cardinality(Held(v, start, i, FALSE)))
    /\ e.mutBorrow = (v[i].mutBorrow /\ Held(v, start, i, TRUE) = {})
    /\ i <= start => e.borrowEnd = v[i].borrowEnd
LeftScope(v, w, start) ==
    w \in Seq(Entry) /\ Len(w) = Len(v) /\ \A i \in DOMAIN v : AfterScope(v, w[i], i, start)

LEMMA LeaveIs ==
    ASSUME NEW s \in State, NEW start \in Nat
    PROVE  LeftScope(s.vars, LeaveScope(s, start).vars, start)
<1> DEFINE v == s.vars
           leaving == {r \in DOMAIN v : r > start /\ v[r].active}
           owner(r) == Find(SubSeq(v, 1, r), v[r].source)
           held == {r \in leaving : v[r].source # NoName}
           backTo(i, m) == {r \in held : owner(r) = i /\ v[r].borrowMut = m}
           after(i) == [v[i] EXCEPT
                           !.shared = GiveBack(@, Cardinality(backTo(i, FALSE))),
                           !.mutBorrow = @ /\ backTo(i, TRUE) = {},
                           !.borrowEnd = IF i \in held THEN Released ELSE @,
                           !.active = @ /\ i <= start]
           f == [i \in DOMAIN v |-> after(i)]
<1>0. v \in Seq(Entry)
    BY DEF State
<1>1. \A i, m : Held(v, start, i, m) = backTo(i, m)
    BY <1>0 DEF Held, Owner
<1>2. \A i \in held : i > start
    OBVIOUS
<1>3. LeaveScope(s, start) = [s EXCEPT !.vars = f]
    BY DEF LeaveScope
<1>4. LeaveScope(s, start).vars = f
    BY <1>3 DEF State
<1>5. LeaveScope(s, start).vars \in Seq(Entry)
    BY LeaveScopeGrows DEF Grows, State
<1> HIDE DEF held, backTo, v
<1>6. ASSUME NEW i \in DOMAIN v
      PROVE  /\ after(i).name = v[i].name /\ after(i).source = v[i].source
             /\ after(i).borrowMut = v[i].borrowMut
             /\ after(i).status = v[i].status /\ after(i).ty = v[i].ty
             /\ after(i).active = (v[i].active /\ i <= start)
             /\ after(i).shared = GiveBack(v[i].shared, Cardinality(backTo(i, FALSE)))
             /\ after(i).mutBorrow = (v[i].mutBorrow /\ backTo(i, TRUE) = {})
             /\ i <= start => after(i).borrowEnd = v[i].borrowEnd
    <2>1. v[i] \in Entry
        BY <1>0
    <2>2. i <= start => i \notin held
        BY <1>0, <1>2
    <2> QED BY <2>1, <2>2 DEF Entry
<1> HIDE DEF after
<1>7. Len(f) = Len(v) /\ \A i \in DOMAIN v : f[i] = after(i)
    BY <1>0
<1> HIDE DEF f
<1>8. ASSUME NEW i \in DOMAIN v PROVE AfterScope(v, after(i), i, start)
    <2>1. Held(v, start, i, FALSE) = backTo(i, FALSE) /\ Held(v, start, i, TRUE) = backTo(i, TRUE)
        BY <1>1
    <2>2. after(i).mutBorrow = (v[i].mutBorrow /\ Held(v, start, i, TRUE) = {})
        BY <1>6, <2>1
    <2>3. after(i).shared = GiveBack(v[i].shared, Cardinality(Held(v, start, i, FALSE)))
        BY <1>6, <2>1
    <2> QED BY <1>6, <2>2, <2>3 DEF AfterScope
<1> QED BY <1>4, <1>5, <1>7, <1>8 DEF LeftScope, v

LEMMA LeaveCalm ==
    ASSUME NEW s \in State, NEW start \in Nat, Calm(s.vars)
    PROVE  Calm(LeaveScope(s, start).vars)
<1> DEFINE v == s.vars
           w == LeaveScope(s, start).vars
<1>1. v \in Seq(Entry) /\ LeftScope(v, w, start) /\ Calm(v)
    BY LeaveIs DEF State
<1> HIDE DEF v, w
<1>2. w \in Seq(Entry) /\ Len(w) = Len(v)
    BY <1>1 DEF LeftScope
<1>3. ASSUME NEW i \in DOMAIN v
      PROVE  w[i].shared <= v[i].shared /\ (w[i].mutBorrow => v[i].mutBorrow)
    <2>0. v[i] \in Entry
        BY <1>1
    <2>1. v[i].shared \in Nat
        BY <2>0, EntryFields
    <2>2. Cardinality(Held(v, start, i, FALSE)) \in Nat
        BY <1>1, HeldFinite
    <2> QED BY <1>1, <2>1, <2>2, GiveBackLess DEF LeftScope, AfterScope
<1>4. Calm(w)
    BY <1>1, <1>2, <1>3, CalmBelow
<1> QED BY <1>4 DEF w

LEMMA LeaveBelow ==
    ASSUME NEW s \in State, NEW b \in Seq(Entry), NEW start \in Nat, Len(b) <= start,
           Within(b, s.vars),
           \A r \in (Len(b) + 1)..start : r \in DOMAIN s.vars => s.vars[r].source = NoName
    PROVE  Below(b, LeaveScope(s, start).vars)
<1> DEFINE v == s.vars
           w == LeaveScope(s, start).vars
<1>1. v \in Seq(Entry) /\ LeftScope(v, w, start)
    BY LeaveIs DEF State
<1> HIDE DEF v, w
<1>2. w \in Seq(Entry) /\ Len(w) = Len(v) /\ DOMAIN w = DOMAIN v
    BY <1>1 DEF LeftScope
<1>3. ASSUME NEW i, NEW m PROVE Held(v, start, i, m) = Held(v, Len(b), i, m)
    <2>1. \A r \in (Len(b) + 1)..Len(v) : r <= start => v[r].source = NoName
        BY <1>1 DEF v
    <2> QED BY <1>1, <2>1 DEF Held
<1>5. ASSUME NEW i \in DOMAIN b
      PROVE  /\ SameReference(b[i], w[i]) /\ w[i].shared <= b[i].shared
             /\ w[i].mutBorrow => b[i].mutBorrow
    <2> DEFINE c == Cardinality(Held(v, Len(b), i, FALSE))
    <2>0. i \in DOMAIN v /\ i <= start /\ i \in Int
        BY <1>1 DEF Within, v
    <2>1. /\ SameReference(b[i], v[i]) /\ v[i].shared <= b[i].shared + c
          /\ v[i].mutBorrow => b[i].mutBorrow \/ Held(v, Len(b), i, TRUE) # {}
        BY DEF Within, v
    <2>2. v[i].shared \in Nat /\ b[i].shared \in Nat /\ c \in Nat
        <3>1. Len(b) \in Nat /\ v[i] \in Entry /\ b[i] \in Entry
            BY <1>1, <2>0
        <3>2. c \in Nat
            BY <1>1, <3>1, HeldFinite
        <3> HIDE DEF c
        <3> QED BY <3>1, <3>2, EntryFields
    <2>a. AfterScope(v, w[i], i, start)
        BY <1>1, <2>0 DEF LeftScope
    <2>3. w[i].shared = GiveBack(v[i].shared, c)
        BY <1>3, <2>a DEF AfterScope
    <2>4. w[i].mutBorrow = (v[i].mutBorrow /\ Held(v, Len(b), i, TRUE) = {})
        BY <1>3, <2>a DEF AfterScope
    <2>5. SameReference(v[i], w[i])
        <3>1. v[i].active \in BOOLEAN
            BY <1>1, <2>0, EntryFields
        <3> QED BY <2>0, <2>a, <3>1 DEF AfterScope, SameReference
    <2> HIDE DEF c
    <2>6. w[i].shared <= b[i].shared
        BY <2>1, <2>2, <2>3 DEF GiveBack
    <2> QED BY <2>1, <2>4, <2>5, <2>6 DEF SameReference
<1>6. Below(b, w)
    BY <1>1, <1>2, <1>5 DEF Below, Within, v
<1> QED BY <1>6 DEF v, w

-----------------------------------------------------------------------------
(* The maximum of two clones claims no more than what both were made from.  *)
LEMMA MergeBelow ==
    ASSUME NEW b \in Seq(Entry), NEW l \in Seq(Entry), NEW r \in Seq(Entry), Below(b, l), Below(b, r)
    PROVE  /\ MergeVars(b, l, r) \in Seq(Entry) /\ Len(MergeVars(b, l, r)) = Len(b)
           /\ Below(b, MergeVars(b, l, r)) /\ (Calm(b) => Calm(MergeVars(b, l, r)))
<1> DEFINE w == MergeVars(b, l, r)
<1>1. w \in Seq(Entry) /\ Len(w) = Len(b)
    BY MergeVarsType DEF Below
<1>2. ASSUME NEW i \in DOMAIN b
      PROVE  /\ SameReference(b[i], w[i]) /\ w[i].shared <= b[i].shared
             /\ w[i].mutBorrow => b[i].mutBorrow
    <2> DEFINE status == IF "Moved" \in {l[i].status, r[i].status} THEN "Moved" ELSE "Available"
               shared == IF l[i].shared > r[i].shared THEN l[i].shared ELSE r[i].shared
               mutBorrow == l[i].mutBorrow \/ r[i].mutBorrow
    <2>1. w[i] = [b[i] EXCEPT !.status = status, !.shared = shared, !.mutBorrow = mutBorrow]
        BY DEF MergeVars
    <2>2. b[i] \in Entry
        OBVIOUS
    <2>3. /\ l[i].shared <= b[i].shared /\ r[i].shared <= b[i].shared
          /\ (l[i].mutBorrow => b[i].mutBorrow) /\ (r[i].mutBorrow => b[i].mutBorrow)
        BY DEF Below
    <2>4. shared <= b[i].shared /\ (mutBorrow => b[i].mutBorrow)
        BY <2>3
    <2> HIDE DEF status, shared, mutBorrow, w
    <2>5. w[i].shared = shared /\ w[i].mutBorrow = mutBorrow /\ SameReference(b[i], w[i])
        BY <2>1, <2>2 DEF SameReference, Entry
    <2> QED BY <2>4, <2>5
<1> HIDE DEF w
<1>3. Below(b, w)
    BY <1>1, <1>2 DEF Below
<1>4. Calm(b) => Calm(w)
    BY <1>1, <1>2, CalmBelow
<1> QED BY <1>1, <1>3, <1>4 DEF w

Joined(b, t) == Len(t) = Len(b) /\ Below(b, t) /\ (Calm(b) => Calm(t))

LEMMA MergeStateBelow ==
    ASSUME NEW t \in State, NEW l \in State, NEW r \in State, Below(t.vars, l.vars), Below(t.vars, r.vars)
    PROVE  Joined(t.vars, MergeState(t, l, r).vars)
<1> DEFINE t1 == MergeDiags(t, l)
           t2 == MergeDiags(t1, r)
           v == MergeVars(t2.vars, l.vars, r.vars)
<1>1. t1 \in State /\ t1.vars = t.vars
    BY MergeDiagsGrows DEF Grows
<1>2. t2 \in State /\ t2.vars = t1.vars
    <2> HIDE DEF t1
    <2> QED BY <1>1, MergeDiagsGrows DEF Grows
<1>3. MergeState(t, l, r) = [t2 EXCEPT !.vars = v]
    BY DEF MergeState
<1> HIDE DEF t1, t2
<1>4. MergeState(t, l, r).vars = MergeVars(t.vars, l.vars, r.vars)
    BY <1>1, <1>2, <1>3 DEF State
<1> QED BY <1>4, MergeBelow DEF Joined, State

LEMMA JoinOntoBelow ==
    ASSUME NEW base \in State, NEW s \in State, Below(base.vars, s.vars)
    PROVE  Joined(base.vars, JoinOnto(base, s).vars)
<1>1. Joined(base.vars, base.vars) /\ Below(base.vars, base.vars)
    BY BelowReflexive DEF Joined, State
<1>2. CASE s.terminated
    BY <1>1, <1>2, MergeDiagsGrows DEF JoinOnto
<1>3. CASE ~s.terminated
    BY <1>1, <1>3, MergeStateBelow DEF JoinOnto
<1> QED BY <1>2, <1>3

LEMMA JoinBranchesBelow ==
    ASSUME NEW base \in State, NEW l, NEW r, Grows(base, l), Grows(base, r),
           Below(base.vars, l.vars), Below(base.vars, r.vars)
    PROVE  Joined(base.vars, JoinBranches(base, l, r).vars)
<1> DEFINE J == JoinBranches(base, l, r)
<1>0. l \in State /\ r \in State
    BY DEF Grows
<1>1. CASE l.terminated /\ r.terminated
    <2> DEFINE t1 == MergeDiags(base, l)
               t2 == MergeDiags(t1, r)
    <2>1. t1 \in State /\ t1.vars = base.vars
        BY <1>0, MergeDiagsGrows DEF Grows
    <2>2. t2 \in State /\ t2.vars = t1.vars
        <3> HIDE DEF t1
        <3> QED BY <1>0, <2>1, MergeDiagsGrows DEF Grows
    <2>3. J = [t2 EXCEPT !.terminated = TRUE]
        BY <1>1 DEF JoinBranches
    <2> HIDE DEF t1, t2, J
    <2>4. J.vars = base.vars
        BY <2>1, <2>2, <2>3 DEF State
    <2> QED BY <2>4, BelowReflexive DEF Joined, State, J
<1>2. CASE l.terminated /\ ~r.terminated
    <2> DEFINE t1 == MergeState(base, r, r)
    <2>1. t1 \in State
        BY MergeStateGrows DEF Grows
    <2>2. J = MergeDiags(t1, l)
        BY <1>2 DEF JoinBranches
    <2> HIDE DEF t1
    <2>3. J.vars = t1.vars
        BY <1>0, <2>1, <2>2, MergeDiagsGrows
    <2> QED BY <1>0, <2>3, MergeStateBelow DEF t1
<1>3. CASE ~l.terminated /\ r.terminated
    <2> DEFINE t1 == MergeState(base, l, l)
    <2>1. t1 \in State
        BY MergeStateGrows DEF Grows
    <2>2. J = MergeDiags(t1, r)
        BY <1>3 DEF JoinBranches
    <2> HIDE DEF t1
    <2>3. J.vars = t1.vars
        BY <1>0, <2>1, <2>2, MergeDiagsGrows
    <2> QED BY <1>0, <2>3, MergeStateBelow DEF t1
<1>4. CASE ~l.terminated /\ ~r.terminated
    BY <1>0, <1>4, MergeStateBelow DEF JoinBranches
<1> QED BY <1>1, <1>2, <1>3, <1>4

-----------------------------------------------------------------------------
(* A reference that is out holds the entry it was lent from, unless it      *)
(* hides that entry behind its own name.                                    *)
LEMMA HiddenFind ==
    ASSUME NEW v \in Seq(Entry), NEW w \in Seq(Entry), NEW e \in Entry, NEW n, e.name # n,
           Len(v) = Len(w), \A i \in DOMAIN v : v[i].name = w[i].name /\ v[i].active = w[i].active
    PROVE  Find(Append(w, e), n) = Find(v, n)
<1> DEFINE z == Append(w, e)
<1>1. /\ Len(z) = Len(v) + 1 /\ z[Len(v) + 1] = e /\ \A i \in DOMAIN v : z[i] = w[i]
      /\ DOMAIN z = 1..(Len(v) + 1) /\ DOMAIN v = 1..Len(v) /\ Len(v) \in Nat
    OBVIOUS
<1> HIDE DEF z
<1>2. {i \in DOMAIN z : z[i].active /\ z[i].name = n} = {i \in DOMAIN v : v[i].active /\ v[i].name = n}
    BY <1>1
<1> QED BY <1>2 DEF Find, z

LEMMA LentWithin ==
    ASSUME NEW u \in Seq(Entry), NEW src \in Names, NEW m \in BOOLEAN, NEW e \in Entry,
           e.name # src, e.active, e.source = src, e.borrowMut = m, e.shared = 0, ~e.mutBorrow
    PROVE  /\ Append(Lent(u, Lender(u, src, m), m), e) \in Seq(Entry)
           /\ Within(u, Append(Lent(u, Lender(u, src, m), m), e))
           /\ Calm(u) => Calm(Append(Lent(u, Lender(u, src, m), m), e))
<1> DEFINE i == Lender(u, src, m)
           w == Lent(u, i, m)
           z == Append(w, e)
           N == Len(u) + 1
<1>1. Lendable(u, i, m) /\ i \in 0..Len(u)
    BY LenderLends DEF Lendable
<1>2. Counted(u, w, i, m)
    BY <1>1, LentIs
<1>a. i # 0 => i = Find(u, src)
    BY DEF Lender
<1> HIDE DEF i, w
<1>3. w \in Seq(Entry) /\ Len(w) = Len(u)
    BY <1>2 DEF Counted
<1>4. /\ z \in Seq(Entry) /\ Len(z) = N /\ z[N] = e /\ \A k \in DOMAIN u : z[k] = w[k] /\ k # N
      /\ DOMAIN z = 1..N /\ DOMAIN u = 1..Len(u) /\ SubSeq(z, 1, N) = z /\ Len(u) \in Nat
    BY <1>3
<1>5. Find(z, src) = Find(u, src)
    <2>1. \A k \in DOMAIN u : u[k].name = w[k].name /\ u[k].active = w[k].active
        BY <1>2 DEF Counted, Fixed
    <2> QED BY <1>3, <2>1, HiddenFind
<1> HIDE DEF z
<1>6. Owner(z, N) = Find(u, src)
    BY <1>4, <1>5 DEF Owner
<1>7. src # NoName
    BY NamesAssumption
<1>8. ASSUME NEW k PROVE Held(z, Len(u), k, m) = IF Find(u, src) = k THEN {N} ELSE {}
    BY <1>4, <1>6, <1>7 DEF Held
<1>9. ASSUME NEW k \in DOMAIN u
      PROVE  /\ SameReference(u[k], z[k])
             /\ z[k].shared <= u[k].shared + Cardinality(Held(z, Len(u), k, FALSE))
             /\ z[k].mutBorrow => u[k].mutBorrow \/ Held(z, Len(u), k, TRUE) # {}
    <2> DEFINE c == Cardinality(Held(z, Len(u), k, FALSE))
    <2>1. /\ Fixed(u[k], z[k])
          /\ z[k].shared = IF k = i /\ ~m THEN u[k].shared + 1 ELSE u[k].shared
          /\ z[k].mutBorrow = (u[k].mutBorrow \/ (k = i /\ m))
        BY <1>2, <1>4 DEF Counted
    <2>2. u[k].shared \in Nat /\ c \in Nat
        <3>1. c \in Nat
            BY <1>4, HeldFinite
        <3> HIDE DEF c
        <3> QED BY <3>1, EntryFields
    <2>b. k = i => Find(u, src) = k
        BY <1>4, <1>a
    <2>3. k = i /\ ~m => c = 1
        <3>1. SUFFICES ASSUME k = i, ~m PROVE c = 1
            OBVIOUS
        <3>2. Held(z, Len(u), k, FALSE) = {N}
            BY <1>8, <2>b, <3>1
        <3> QED BY <3>2, FS_Singleton
    <2>4. k = i /\ m => Held(z, Len(u), k, TRUE) # {}
        <3>1. SUFFICES ASSUME k = i, m PROVE Held(z, Len(u), k, TRUE) # {}
            OBVIOUS
        <3>2. Held(z, Len(u), k, TRUE) = {N}
            BY <1>8, <2>b, <3>1
        <3> QED BY <3>2
    <2> HIDE DEF c
    <2>5. z[k].shared <= u[k].shared + c
        BY <2>1, <2>2, <2>3
    <2> QED BY <2>1, <2>4, <2>5 DEF c, Fixed, SameReference
<1>10. Within(u, z)
    <2>1. Len(u) <= Len(z)
        BY <1>4
    <2> QED BY <1>9, <2>1 DEF Within
<1>11. ASSUME Calm(u) PROVE Calm(z)
    <2>1. ASSUME NEW k \in DOMAIN u PROVE ~(z[k].mutBorrow /\ z[k].shared > 0)
        <3>1. /\ z[k].shared = IF k = i /\ ~m THEN u[k].shared + 1 ELSE u[k].shared
              /\ z[k].mutBorrow = (u[k].mutBorrow \/ (k = i /\ m))
            BY <1>2, <1>4 DEF Counted
        <3>2. k = i => ~u[k].mutBorrow /\ (m => u[k].shared = 0)
            BY <1>1, <1>4 DEF Lendable
        <3>3. ~(u[k].mutBorrow /\ u[k].shared > 0)
            BY <1>11 DEF Calm
        <3>4. u[k].mutBorrow \in BOOLEAN /\ u[k].shared \in Nat
            BY EntryFields
        <3>5. CASE k = i /\ m
            BY <3>1, <3>2, <3>5
        <3>6. CASE k = i /\ ~m
            BY <3>1, <3>2, <3>6
        <3>7. CASE k # i
            BY <3>1, <3>3, <3>7
        <3> QED BY <3>5, <3>6, <3>7
    <2>2. ~(z[N].mutBorrow /\ z[N].shared > 0)
        BY <1>4
    <2>3. \A k \in DOMAIN z : k \in DOMAIN u \/ k = N
        BY <1>4
    <2> QED BY <2>1, <2>2, <2>3 DEF Calm
<1> QED BY <1>4, <1>10, <1>11 DEF z, w, i

(* An entry that borrows from nobody claims nothing.                        *)
LEMMA PlainWithin ==
    ASSUME NEW u \in Seq(Entry), NEW e \in Entry, e.shared = 0, ~e.mutBorrow
    PROVE  /\ Append(u, e) \in Seq(Entry) /\ Len(Append(u, e)) = Len(u) + 1
           /\ Within(u, Append(u, e)) /\ (Calm(u) => Calm(Append(u, e)))
<1> DEFINE z == Append(u, e)
<1>1. /\ z \in Seq(Entry) /\ Len(z) = Len(u) + 1 /\ z[Len(u) + 1] = e /\ \A k \in DOMAIN u : z[k] = u[k]
      /\ DOMAIN z = 1..(Len(u) + 1) /\ DOMAIN u = 1..Len(u) /\ Len(u) \in Nat
    OBVIOUS
<1> HIDE DEF z
<1>2. \A k \in DOMAIN u : u[k].shared \in Nat
    BY EntryFields
<1>3. Below(u, z)
    BY <1>1, <1>2 DEF Below, SameReference
<1>4. Calm(u) => Calm(z)
    BY <1>1 DEF Calm
<1> QED BY <1>1, <1>3, <1>4, BelowIsWithin DEF z

Follows(v, w) == Within(v, w) /\ (Calm(v) => Calm(w))

LEMMA FollowsTransitive ==
    ASSUME NEW u \in Seq(Entry), NEW v \in Seq(Entry), NEW w \in Seq(Entry),
           Follows(u, v), Follows(v, w)
    PROVE  Follows(u, w)
BY WithinTransitive DEF Follows

LEMMA OnlyStatusFollows ==
    ASSUME NEW v \in Seq(Entry), NEW w \in Seq(Entry), OnlyStatus(v, w)
    PROVE  Follows(v, w)
BY OnlyStatusBelow DEF Follows

LEMMA LentEntryIs ==
    ASSUME NEW u, NEW n \in Names, NEW m \in BOOLEAN, NEW src \in Names, NEW bm \in BOOLEAN, NEW line \in Nat,
           prog \in Seq(Statement)
    PROVE  /\ LentEntry(u, n, m, src, bm, line) \in Entry
           /\ LentEntry(u, n, m, src, bm, line).name = n
           /\ LentEntry(u, n, m, src, bm, line).active
           /\ LentEntry(u, n, m, src, bm, line).source = src
           /\ LentEntry(u, n, m, src, bm, line).borrowMut = bm
           /\ LentEntry(u, n, m, src, bm, line).shared = 0
           /\ ~LentEntry(u, n, m, src, bm, line).mutBorrow
<1> DEFINE be == EndLine(Lender(u, src, bm), n, line)
<1>1. be \in Int
    <2>1. LastUse(prog, n) \in Int
        <3>1. LastUse(prog, n) \in (DOMAIN prog) \cup {0}
            BY ExtremeType DEF LastUse
        <3> QED BY <3>1
    <2>2. LastNamed(n, line) \in {LastUse(prog, n), line} \cup {line}
        BY ExtremeType DEF LastNamed
    <2> QED BY <2>1, <2>2 DEF EndLine, Released
<1>2. RefType(bm) \in Types
    BY DEF RefType, Types
<1>3. LentEntry(u, n, m, src, bm, line) = NewRefEntry(n, RefType(bm), m, src, bm, be)
    BY DEF LentEntry
<1> HIDE DEF be
<1>4. NewRefEntry(n, RefType(bm), m, src, bm, be) \in Entry
    BY <1>1, <1>2, NewRefEntryType
<1> QED BY <1>3, <1>4 DEF NewRefEntry, NewEntry

LEMMA LetFollows ==
    ASSUME NEW s \in State, NEW x \in Statement, x.tag = "let", NEW line \in Nat,
           prog \in Seq(Statement), Borrowing(x) => x.e.name # x.name
    PROVE  Follows(s.vars, CheckLet(s, x, line).vars)
<1>1. PICK u \in Seq(Entry) :
              /\ OnlyStatus(s.vars, u)
              /\ IF IsBorrow(x) THEN CheckLet(s, x, line).vars = LetVars(u, x, line)
                 ELSE \E e : /\ BorrowsNothing(e, x.name)
                             /\ CheckLet(s, x, line).vars = Append(u, e)
    BY LetAppends
<1>2. s.vars \in Seq(Entry) /\ Follows(s.vars, u)
    BY <1>1, OnlyStatusFollows DEF State
<1>3. CASE IsBorrow(x)
    <2> DEFINE src == x.e.name
               bm == BorrowsMut(x)
               e == LentEntry(u, x.name, x.mutable, src, bm, line)
    <2>1. x.name \in Names /\ x.mutable \in BOOLEAN /\ src \in Names /\ bm \in BOOLEAN /\ src # x.name
        BY <1>3 DEF Statement, Expr, SimpleExpr, IsBorrow, BorrowsMut, Borrowing
    <2>2. /\ e \in Entry /\ e.name = x.name /\ e.active /\ e.source = src /\ e.borrowMut = bm
          /\ e.shared = 0 /\ ~e.mutBorrow
        BY <2>1, LentEntryIs
    <2>3. CheckLet(s, x, line).vars = Append(Lent(u, Lender(u, src, bm), bm), e)
        BY <1>1, <1>3 DEF LetVars, LentVars
    <2> HIDE DEF e, src, bm
    <2>4. /\ Append(Lent(u, Lender(u, src, bm), bm), e) \in Seq(Entry)
          /\ Follows(u, Append(Lent(u, Lender(u, src, bm), bm), e))
        BY <2>1, <2>2, LentWithin DEF Follows
    <2> QED BY <1>2, <2>3, <2>4, FollowsTransitive
<1>4. CASE ~IsBorrow(x)
    <2>1. PICK e : BorrowsNothing(e, x.name) /\ CheckLet(s, x, line).vars = Append(u, e)
        BY <1>1, <1>4
    <2>2. Append(u, e) \in Seq(Entry) /\ Follows(u, Append(u, e))
        BY <2>1, PlainWithin DEF BorrowsNothing, Follows
    <2> QED BY <1>2, <2>1, <2>2, FollowsTransitive
<1> QED BY <1>3, <1>4

LEMMA ExpireFollows ==
    ASSUME NEW s \in State, NEW line \in Nat
    PROVE  /\ Expire(s, line) \in State /\ Expire(s, line).vars \in Seq(Entry)
           /\ Follows(s.vars, Expire(s, line).vars)
<1>1. Expire(s, line) \in State /\ Expire(s, line).vars \in Seq(Entry) /\ s.vars \in Seq(Entry)
    BY ExpireGrows DEF Grows, State
<1> QED BY <1>1, ExpireBelow, BelowIsWithin DEF Follows

(* What a simple statement does to the claims.                              *)
LEMMA SimpleFollows ==
    ASSUME NEW s \in State, NEW x \in Statement, NEW line \in Nat, prog \in Seq(Statement),
           Borrowing(x) => x.e.name # x.name
    PROVE  Follows(s.vars, CheckSimple(Expire(s, line), x, line).vars)
<1> DEFINE t == Expire(s, line)
           u == CheckSimple(t, x, line)
<1>1. t \in State /\ t.vars \in Seq(Entry) /\ Follows(s.vars, t.vars) /\ s.vars \in Seq(Entry)
    BY ExpireFollows DEF State
<1> HIDE DEF t
<1>2. u.vars \in Seq(Entry)
    BY <1>1, CheckSimpleGrows DEF Grows, State
<1>3. Follows(t.vars, u.vars)
    <2>1. CASE x.tag = "let"
        BY <1>1, <2>1, LetFollows DEF CheckSimple
    <2>2. CASE x.tag # "let"
        BY <1>1, <1>2, <2>2, OthersOnlyMove, OnlyStatusFollows
    <2> QED BY <2>1, <2>2
<1> QED BY <1>1, <1>2, <1>3, FollowsTransitive DEF t

-----------------------------------------------------------------------------
(***************************************************************************)
(* The stack of walks once more: each state a caller holds on to claims    *)
(* what the walks above it claim, short of what these hold themselves.     *)
(***************************************************************************)
FrameOK(f) ==
    /\ f.start = Len(f.base.vars) + (IF f.kind = "for" THEN 1 ELSE 0)
    /\ f.kind = "else" => Below(f.base.vars, f.left.vars)
    /\ Calm(f.base.vars)

(* The variable of a `for' is no reference.                                 *)
Covered(f, vars) ==
    f.kind = "for" => /\ Len(f.base.vars) + 1 \in DOMAIN vars
                      /\ vars[Len(f.base.vars) + 1].source = NoName

Nest(fs, s) ==
    /\ Calm(s.vars)
    /\ \A k \in DOMAIN fs : FrameOK(fs[k]) /\ Within(fs[k].base.vars, s.vars) /\ Covered(fs[k], s.vars)
    /\ \A j, k \in DOMAIN fs : j < k => /\ Within(fs[j].base.vars, fs[k].base.vars)
                                        /\ Covered(fs[j], fs[k].base.vars)

LEMMA StillCovered ==
    ASSUME NEW f \in Frame, NEW v \in Seq(Entry), NEW w \in Seq(Entry), Covered(f, v), Within(v, w)
    PROVE  Covered(f, w)
<1> SUFFICES ASSUME f.kind = "for"
             PROVE  /\ Len(f.base.vars) + 1 \in DOMAIN w
                    /\ w[Len(f.base.vars) + 1].source = NoName
    BY DEF Covered
<1>1. Len(f.base.vars) + 1 \in DOMAIN v /\ v[Len(f.base.vars) + 1].source = NoName
    BY DEF Covered
<1>2. Len(v) <= Len(w) /\ \A r \in DOMAIN v : SameReference(v[r], w[r])
    BY DEF Within
<1>3. \A r \in DOMAIN v : r \in DOMAIN w
    BY <1>2
<1> QED BY <1>1, <1>2, <1>3 DEF SameReference

LEMMA FrameVars ==
    ASSUME NEW fs \in Seq(Frame), NEW k \in DOMAIN fs
    PROVE  fs[k] \in Frame /\ fs[k].base.vars \in Seq(Entry)
<1>1. fs[k] \in Frame
    OBVIOUS
<1> QED BY <1>1 DEF Frame, State

LEMMA NestGrows ==
    ASSUME NEW fs \in Seq(Frame), NEW s \in State, NEW t \in State, Nest(fs, s), Follows(s.vars, t.vars)
    PROVE  Nest(fs, t)
<1>1. s.vars \in Seq(Entry) /\ t.vars \in Seq(Entry)
    BY DEF State
<1>2. ASSUME NEW k \in DOMAIN fs PROVE Within(fs[k].base.vars, t.vars) /\ Covered(fs[k], t.vars)
    BY <1>1, FrameVars, WithinTransitive, StillCovered DEF Nest, Follows
<1> QED BY <1>2 DEF Nest, Follows

LEMMA NestPush ==
    ASSUME NEW fs \in Seq(Frame), NEW s \in State, NEW t \in State, NEW f \in Frame, Nest(fs, s),
           Follows(s.vars, f.base.vars), Follows(f.base.vars, t.vars), FrameOK(f), Covered(f, t.vars)
    PROVE  Nest(Append(fs, f), t)
<1> DEFINE gs == Append(fs, f)
           N == Len(fs) + 1
<1>1. /\ \A k \in DOMAIN fs : gs[k] = fs[k] /\ k < N
      /\ gs[N] = f /\ \A k \in DOMAIN gs : k \in DOMAIN fs \/ k = N
      /\ DOMAIN gs \subseteq Int /\ N \in Int
    OBVIOUS
<1> HIDE DEF gs, N
<1>2. s.vars \in Seq(Entry) /\ t.vars \in Seq(Entry) /\ f.base.vars \in Seq(Entry)
    BY DEF State, Frame
<1>3. Calm(t.vars) /\ Within(f.base.vars, t.vars)
    BY DEF Nest, Follows
<1>4. ASSUME NEW k \in DOMAIN fs
      PROVE  /\ Within(fs[k].base.vars, f.base.vars) /\ Covered(fs[k], f.base.vars)
             /\ Within(fs[k].base.vars, t.vars) /\ Covered(fs[k], t.vars) /\ FrameOK(fs[k])
    <2>1. fs[k] \in Frame /\ fs[k].base.vars \in Seq(Entry)
        BY FrameVars
    <2>2. Within(fs[k].base.vars, f.base.vars) /\ Covered(fs[k], f.base.vars)
        BY <1>2, <2>1, WithinTransitive, StillCovered DEF Nest, Follows
    <2>3. Within(fs[k].base.vars, t.vars) /\ Covered(fs[k], t.vars)
        BY <1>2, <1>3, <2>1, <2>2, WithinTransitive, StillCovered
    <2> QED BY <2>2, <2>3 DEF Nest
<1>5. ASSUME NEW j \in DOMAIN gs, NEW k \in DOMAIN gs, j < k
      PROVE  Within(gs[j].base.vars, gs[k].base.vars) /\ Covered(gs[j], gs[k].base.vars)
    <2>1. j \in DOMAIN fs /\ gs[j] = fs[j]
        BY <1>1, <1>5
    <2>2. CASE k = N
        BY <1>1, <1>4, <2>1, <2>2
    <2>3. CASE k # N
        BY <1>1, <1>5, <2>1, <2>3 DEF Nest
    <2> QED BY <2>2, <2>3
<1>6. ASSUME NEW k \in DOMAIN gs
      PROVE  FrameOK(gs[k]) /\ Within(gs[k].base.vars, t.vars) /\ Covered(gs[k], t.vars)
    BY <1>1, <1>3, <1>4
<1> QED BY <1>3, <1>5, <1>6 DEF Nest, gs

LEMMA NestReplace ==
    ASSUME NEW fs \in Seq(Frame), NEW s \in State, NEW t \in State, NEW f \in Frame, Nest(fs, s),
           fs # <<>>, NEW gs, Replaced(fs, gs, f), Within(fs[Len(fs)].base.vars, f.base.vars),
           Follows(f.base.vars, t.vars), FrameOK(f), Covered(f, t.vars)
    PROVE  Nest(gs, t)
<1> DEFINE N == Len(fs)
<1>1. /\ \A k \in DOMAIN fs : k # N => gs[k] = fs[k] /\ k < N
      /\ N \in DOMAIN fs /\ gs[N] = f /\ DOMAIN gs = DOMAIN fs /\ DOMAIN fs \subseteq Int
    BY DEF Replaced
<1>a. Within(fs[N].base.vars, f.base.vars)
    OBVIOUS
<1> HIDE DEF N
<1>2. t.vars \in Seq(Entry) /\ f.base.vars \in Seq(Entry) /\ fs[N].base.vars \in Seq(Entry)
    BY <1>1, FrameVars DEF State, Frame
<1>3. Calm(t.vars) /\ Within(f.base.vars, t.vars)
    BY DEF Follows, FrameOK
<1>4. ASSUME NEW k \in DOMAIN fs, k # N
      PROVE  /\ Within(fs[k].base.vars, f.base.vars) /\ Covered(fs[k], f.base.vars)
             /\ Within(fs[k].base.vars, t.vars) /\ Covered(fs[k], t.vars) /\ FrameOK(fs[k])
    <2>1. fs[k] \in Frame /\ fs[k].base.vars \in Seq(Entry)
        BY FrameVars
    <2>0. Within(fs[k].base.vars, fs[N].base.vars) /\ Covered(fs[k], fs[N].base.vars)
        BY <1>1, <1>4 DEF Nest
    <2>2. Within(fs[k].base.vars, f.base.vars) /\ Covered(fs[k], f.base.vars)
        BY <1>2, <1>a, <2>0, <2>1, WithinTransitive, StillCovered
    <2>3. Within(fs[k].base.vars, t.vars) /\ Covered(fs[k], t.vars)
        BY <1>2, <1>3, <2>1, <2>2, WithinTransitive, StillCovered
    <2> QED BY <2>2, <2>3 DEF Nest
<1>5. ASSUME NEW j \in DOMAIN gs, NEW k \in DOMAIN gs, j < k
      PROVE  Within(gs[j].base.vars, gs[k].base.vars) /\ Covered(gs[j], gs[k].base.vars)
    <2>1. j \in DOMAIN fs /\ j # N /\ gs[j] = fs[j]
        BY <1>1, <1>5
    <2>2. CASE k = N
        BY <1>1, <1>4, <2>1, <2>2
    <2>3. CASE k # N
        BY <1>1, <1>5, <2>1, <2>3 DEF Nest
    <2> QED BY <2>2, <2>3
<1>6. ASSUME NEW k \in DOMAIN gs
      PROVE  FrameOK(gs[k]) /\ Within(gs[k].base.vars, t.vars) /\ Covered(gs[k], t.vars)
    BY <1>1, <1>3, <1>4
<1> QED BY <1>3, <1>5, <1>6 DEF Nest

LEMMA NestPop ==
    ASSUME NEW fs \in Seq(Frame), NEW s \in State, NEW t \in State, Nest(fs, s), fs # <<>>,
           Follows(fs[Len(fs)].base.vars, t.vars)
    PROVE  Nest(SubSeq(fs, 1, Len(fs) - 1), t)
<1> DEFINE N == Len(fs)
           gs == SubSeq(fs, 1, N - 1)
<1>1. /\ \A k \in DOMAIN gs : k \in DOMAIN fs /\ gs[k] = fs[k] /\ k < N
      /\ N \in DOMAIN fs
    OBVIOUS
<1>a. Follows(fs[N].base.vars, t.vars)
    OBVIOUS
<1> HIDE DEF N, gs
<1>2. t.vars \in Seq(Entry) /\ fs[N].base.vars \in Seq(Entry)
    BY <1>1, FrameVars DEF State
<1>3. ASSUME NEW k \in DOMAIN gs
      PROVE  FrameOK(gs[k]) /\ Within(gs[k].base.vars, t.vars) /\ Covered(gs[k], t.vars)
    <2>1. fs[k] \in Frame /\ fs[k].base.vars \in Seq(Entry) /\ FrameOK(fs[k]) /\ gs[k] = fs[k]
        BY <1>1, FrameVars DEF Nest
    <2>2. Within(fs[k].base.vars, fs[N].base.vars) /\ Covered(fs[k], fs[N].base.vars)
        BY <1>1 DEF Nest
    <2> QED BY <1>2, <1>a, <2>1, <2>2, WithinTransitive, StillCovered DEF Follows
<1>4. Calm(t.vars)
    BY <1>1, <1>a DEF Nest, FrameOK, Follows
<1>5. ASSUME NEW j \in DOMAIN gs, NEW k \in DOMAIN gs, j < k
      PROVE  Within(gs[j].base.vars, gs[k].base.vars) /\ Covered(gs[j], gs[k].base.vars)
    BY <1>1, <1>5 DEF Nest
<1> QED BY <1>3, <1>4, <1>5 DEF Nest, gs, N

-----------------------------------------------------------------------------
(* Every action keeps the claims nested.                                    *)
LEMMA Reached ==
    ASSUME Inv'
    PROVE  st' \in State /\ frames' \in Seq(Frame) /\ st'.vars \in Seq(Entry)
BY DEF Inv, TypeOK, State

LEMMA SimpleStmtNests ==
    ASSUME Inv, Inv', Nest(frames, st), OwnersNotHidden, SimpleStmt
    PROVE  Nest(frames', st')
<1>1. /\ Walking /\ st' = CheckSimple(Expire(st, pc), prog[pc], pc) /\ frames' = frames
    BY DEF SimpleStmt
<1>2. Borrowing(prog[pc]) => prog[pc].e.name # prog[pc].name
    BY <1>1, Walked DEF OwnersNotHidden
<1>3. Follows(st.vars, st'.vars)
    BY <1>1, <1>2, Walked, SimpleFollows
<1> QED BY <1>1, <1>3, Walked, Reached, NestGrows

(* A region that is opened: its base claims what the state before claimed.  *)
LEMMA OpenNests ==
    ASSUME Inv, Inv', Nest(frames, st), NEW f \in Frame, Push(f), f.kind # "else",
           f.start = Len(f.base.vars) + (IF f.kind = "for" THEN 1 ELSE 0),
           Follows(st.vars, f.base.vars), Follows(f.base.vars, st'.vars), Covered(f, st'.vars)
    PROVE  Nest(frames', st')
<1>1. Calm(f.base.vars)
    BY DEF Nest, Follows
<1>2. FrameOK(f)
    BY <1>1 DEF FrameOK
<1> QED BY <1>2, Walked, Reached, NestPush DEF Push

LEMMA FrameStart ==
    ASSUME NEW kind, NEW base, NEW start
    PROVE  NewFrame(kind, base, start).start = start
BY DEF NewFrame

LEMMA FollowsReflexive == ASSUME NEW v \in Seq(Entry) PROVE Follows(v, v)
BY BelowReflexive DEF Follows

LEMMA OpenBlockNests ==
    ASSUME Inv, Inv', Nest(frames, st), OpenBlock
    PROVE  Nest(frames', st')
<1> DEFINE f == NewFrame("block", st', Len(st.vars))
<1>1. Walking /\ st' = Expire(st, pc) /\ Push(f)
    BY DEF OpenBlock, Opening, At
<1>2. Follows(st.vars, st'.vars) /\ Len(st'.vars) = Len(st.vars) /\ Follows(st'.vars, st'.vars)
    BY <1>1, Walked, Reached, ExpireFollows, ExpireBelow, FollowsReflexive
<1>3. Len(st.vars) \in Nat /\ pc \in Nat
    BY Walked DEF State
<1>4. f \in Frame /\ f.base = st' /\ f.kind = "block" /\ f.start = Len(st.vars)
    BY <1>3, Reached, FrameType, FrameStart DEF Kinds
<1> HIDE DEF f
<1>5. Covered(f, st'.vars) /\ f.start = Len(f.base.vars) + (IF f.kind = "for" THEN 1 ELSE 0)
    BY <1>2, <1>3, <1>4 DEF Covered
<1> QED BY <1>1, <1>2, <1>4, <1>5, OpenNests

LEMMA OpenConditionNests ==
    ASSUME Inv, Inv', Nest(frames, st), NEW tag \in {"if", "while", "match"},
           NEW kind \in {"then", "while", "match"}, OpenCondition(tag, kind)
    PROVE  Nest(frames', st')
<1> DEFINE f == NewFrame(kind, st', Len(st.vars))
           s == Expire(st, pc)
<1>1. /\ Walking /\ prog[pc].tag = tag /\ st' = CheckExpr(s, prog[pc].e, FALSE, pc) /\ Push(f)
    BY DEF OpenCondition, Opening, At
<1>2. prog[pc].e \in Expr
    BY <1>1, Walked DEF Statement
<1>3. /\ s \in State /\ s.vars \in Seq(Entry) /\ Follows(st.vars, s.vars) /\ Len(s.vars) = Len(st.vars)
      /\ st.vars \in Seq(Entry)
    BY <1>1, Walked, ExpireFollows, ExpireBelow DEF State
<1> HIDE DEF s
<1>4. OnlyStatus(s.vars, st'.vars)
    BY <1>1, <1>2, <1>3, Walked, ExprOnlyMoves
<1>5. Follows(st.vars, st'.vars) /\ Follows(st'.vars, st'.vars)
    BY <1>3, <1>4, Reached, OnlyStatusFollows, FollowsTransitive, FollowsReflexive
<1>6. Len(st'.vars) = Len(st.vars)
    BY <1>3, <1>4 DEF OnlyStatus
<1>7. Len(st.vars) \in Nat /\ pc \in Nat
    BY Walked DEF State
<1>8. f \in Frame /\ f.base = st' /\ f.kind = kind /\ f.start = Len(st.vars)
    BY <1>7, Reached, FrameType, FrameStart DEF Kinds
<1> HIDE DEF f
<1>9. f.kind \notin {"for", "else"}
    BY <1>8
<1>10. Covered(f, st'.vars) /\ f.start = Len(f.base.vars) + (IF f.kind = "for" THEN 1 ELSE 0)
    <2>1. f.start = Len(st'.vars) /\ f.base.vars = st'.vars /\ Len(st'.vars) \in Nat
        BY <1>6, <1>7, <1>8
    <2>2. Covered(f, st'.vars)
        BY <1>9 DEF Covered
    <2>3. (IF f.kind = "for" THEN 1 ELSE 0) = 0
        BY <1>9
    <2>4. f.start = Len(f.base.vars) + 0
        BY <2>1
    <2> QED BY <2>2, <2>3, <2>4
<1> QED BY <1>1, <1>5, <1>8, <1>9, <1>10, OpenNests

LEMMA OpenForNests ==
    ASSUME Inv, Inv', Nest(frames, st), OpenFor
    PROVE  Nest(frames', st')
<1> DEFINE base == Expire(st, pc)
           f == NewFrame("for", base, Len(st.vars) + 1)
           e == NewEntry(prog[pc].name, "copy", TRUE, 0)
<1>1. Walking /\ prog[pc].tag = "for" /\ Push(f) /\ st' = AddVar(base, e)
    BY DEF OpenFor, Opening, At
<1>2. /\ base \in State /\ base.vars \in Seq(Entry) /\ Follows(st.vars, base.vars)
      /\ Len(base.vars) = Len(st.vars) /\ Len(st.vars) \in Nat
    BY <1>1, Walked, ExpireFollows, ExpireBelow DEF State
<1>3. prog[pc].name \in Names
    BY <1>1, Walked DEF Statement
<1>4. e \in Entry
    <2>1. "copy" \in Types /\ TRUE \in BOOLEAN /\ 0 \in 0..2
        BY DEF Types
    <2> QED BY <1>3, <2>1, NewEntryType
<1>5. e.shared = 0 /\ ~e.mutBorrow /\ e.source = NoName
    BY DEF NewEntry
<1> HIDE DEF base, e
<1>6. st'.vars = Append(base.vars, e)
    BY <1>1, <1>2, <1>4, AddVarGrows
<1>7. Follows(base.vars, st'.vars) /\ Len(st'.vars) = Len(base.vars) + 1
    BY <1>2, <1>4, <1>5, <1>6, PlainWithin DEF Follows
<1>8. Len(st.vars) + 1 \in Nat /\ pc \in Nat
    BY <1>2, Walked
<1>9. f \in Frame /\ f.base = base /\ f.kind = "for" /\ f.start = Len(st.vars) + 1
    BY <1>2, <1>8, FrameType, FrameStart DEF Kinds
<1> HIDE DEF f
<1>10. st'.vars[Len(base.vars) + 1] = e /\ Len(base.vars) + 1 \in DOMAIN st'.vars
    BY <1>2, <1>4, <1>6
<1>11. Covered(f, st'.vars) /\ f.start = Len(f.base.vars) + (IF f.kind = "for" THEN 1 ELSE 0)
    BY <1>2, <1>5, <1>9, <1>10 DEF Covered
<1> QED BY <1>1, <1>2, <1>7, <1>9, <1>11, OpenNests

(* The innermost region, left: it claims no more than its base.             *)
LEMMA LeavingBelow ==
    ASSUME Inv, Nest(frames, st), frames # <<>>
    PROVE  /\ LeaveScope(st, Top.start) \in State /\ Top.base.vars \in Seq(Entry)
           /\ FrameOK(Top) /\ Below(Top.base.vars, LeaveScope(st, Top.start).vars)
           /\ Follows(Top.base.vars, LeaveScope(st, Top.start).vars)
           /\ PassResult \in State /\ Joined(Top.base.vars, PassResult.vars)
           /\ Follows(Top.base.vars, PassResult.vars) /\ Calm(PassResult.vars)
<1> DEFINE s == LeaveScope(st, Top.start)
           b == Top.base.vars
<1>1. /\ Top \in Frame /\ Top.start \in Nat /\ Top.base \in State /\ b \in Seq(Entry)
      /\ st.vars \in Seq(Entry)
    BY Walked, TopFrame DEF Frame, State
<1>2. FrameOK(Top) /\ Within(b, st.vars) /\ Covered(Top, st.vars) /\ Calm(st.vars) /\ Calm(b)
    BY TopFrame DEF Nest, FrameOK, Top
<1>3. s \in State /\ s.vars \in Seq(Entry)
    BY <1>1, Walked, LeaveScopeGrows DEF Grows, State
<1>4. Len(b) <= Top.start /\ \A r \in (Len(b) + 1)..Top.start : st.vars[r].source = NoName
    <2>1. Len(b) \in Nat
        BY <1>1
    <2>2. CASE Top.kind = "for"
        BY <1>2, <2>1, <2>2 DEF FrameOK, Covered
    <2>3. CASE Top.kind # "for"
        BY <1>2, <2>1, <2>3 DEF FrameOK
    <2> QED BY <2>2, <2>3
<1>5. Below(b, s.vars) /\ Calm(s.vars)
    BY <1>1, <1>2, <1>4, Walked, LeaveBelow, LeaveCalm
<1> HIDE DEF s
<1>6. PassResult \in State /\ PassResult.vars \in Seq(Entry)
    BY Leaving DEF PassResult, Grows, State
<1>7. Joined(b, PassResult.vars)
    BY <1>1, <1>3, <1>5, JoinOntoBelow DEF PassResult, s
<1> HIDE DEF b
<1>8. Follows(b, s.vars) /\ Follows(b, PassResult.vars) /\ Calm(PassResult.vars)
    BY <1>1, <1>2, <1>3, <1>5, <1>6, <1>7, BelowIsWithin DEF Follows, Joined
<1> QED BY <1>1, <1>2, <1>3, <1>5, <1>6, <1>7, <1>8 DEF s, b

(* The innermost region goes on with another clone of the same entries.     *)
LEMMA GoOnNests ==
    ASSUME Inv, Inv', Nest(frames, st), frames # <<>>, NEW f \in Frame, ReplaceTop(f),
           Top.kind # "for", f.kind # "for", f.start = Top.start,
           Joined(Top.base.vars, f.base.vars), Follows(f.base.vars, st'.vars),
           f.kind = "else" => Below(f.base.vars, f.left.vars)
    PROVE  Nest(frames', st')
<1>1. Top.base.vars \in Seq(Entry) /\ FrameOK(Top) /\ f.base.vars \in Seq(Entry)
    BY LeavingBelow DEF Frame, State
<1>2. FrameOK(f)
    BY <1>1 DEF FrameOK, Joined
<1>3. Within(Top.base.vars, f.base.vars)
    BY <1>1, BelowIsWithin DEF Joined
<1>4. Covered(f, st'.vars)
    BY DEF Covered
<1>5. Replaced(frames, frames', f) /\ Within(frames[Len(frames)].base.vars, f.base.vars)
    BY <1>3 DEF ReplaceTop, Replaced, Top
<1> QED BY <1>2, <1>4, <1>5, Walked, Reached, NestReplace

LEMMA EnterElseNests ==
    ASSUME Inv, Inv', Nest(frames, st), EnterElse
    PROVE  Nest(frames', st')
<1> DEFINE left == LeaveScope(st, Top.start)
           f == [Top EXCEPT !.kind = "else", !.left = left]
<1>1. /\ Walking /\ frames # <<>> /\ Top.kind = "then" /\ ReplaceTop(f) /\ st' = Expire(Top.base, pc)
    BY DEF EnterElse, Closing, At
<1>2. Top \in Frame /\ Top.base \in State
    BY <1>1, TopFrame
<1>3. left \in State /\ Below(Top.base.vars, left.vars) /\ Top.base.vars \in Seq(Entry)
    BY <1>1, LeavingBelow
<1> HIDE DEF left
<1>4. f \in Frame /\ f.kind = "else" /\ f.left = left /\ f.base = Top.base /\ f.start = Top.start
    BY <1>2, <1>3 DEF Frame, Kinds
<1> HIDE DEF f
<1>5. Joined(Top.base.vars, f.base.vars)
    BY <1>3, <1>4, BelowReflexive DEF Joined
<1>6. Follows(f.base.vars, st'.vars)
    BY <1>1, <1>2, <1>4, Walked, ExpireFollows
<1> QED BY <1>1, <1>3, <1>4, <1>5, <1>6, GoOnNests

LEMMA EnterArmNests ==
    ASSUME Inv, Inv', Nest(frames, st), EnterArm
    PROVE  Nest(frames', st')
<1> DEFINE arm == LeaveScope(st, Top.start)
           base == IF Top.kind = "match" THEN Top.base ELSE JoinOnto(Top.base, arm)
           more == Top.joined \/ (Top.kind = "arm" /\ ~arm.terminated)
           f == [Top EXCEPT !.kind = "arm", !.base = base, !.joined = more]
<1>1. /\ Walking /\ frames # <<>> /\ Top.kind \in {"match", "arm"} /\ ReplaceTop(f)
      /\ st' = Expire(base, pc)
    BY DEF EnterArm, Closing, At
<1>2. Top \in Frame /\ Top.base \in State
    BY <1>1, TopFrame
<1>3. base \in State /\ Joined(Top.base.vars, base.vars)
    <2>1. CASE Top.kind = "match"
        BY <1>2, <2>1, BelowReflexive DEF Joined, State
    <2>2. CASE Top.kind # "match"
        BY <1>1, <2>2, LeavingBelow DEF PassResult
    <2> QED BY <2>1, <2>2
<1>4. more \in BOOLEAN
    BY <1>2 DEF Frame
<1> HIDE DEF base, arm, more
<1>5. f \in Frame /\ f.kind = "arm" /\ f.base = base /\ f.start = Top.start
    BY <1>2, <1>3, <1>4 DEF Frame, Kinds
<1> HIDE DEF f
<1>6. Follows(f.base.vars, st'.vars)
    BY <1>1, <1>3, <1>5, Walked, ExpireFollows
<1> QED BY <1>1, <1>3, <1>5, <1>6, GoOnNests

LEMMA RepeatWhileNests ==
    ASSUME Inv, Inv', Nest(frames, st), RepeatWhile
    PROVE  Nest(frames', st')
<1> DEFINE f == [Top EXCEPT !.base = PassResult, !.passes = Top.passes + 1]
<1>1. frames # <<>> /\ Top.kind = "while" /\ ReplaceTop(f) /\ st' = PassResult
    BY DEF RepeatWhile, Closing, At
<1>2. Top \in Frame /\ Top.passes + 1 \in Nat
    BY <1>1, TopFrame DEF Frame
<1>3. PassResult \in State /\ Joined(Top.base.vars, PassResult.vars)
    BY <1>1, LeavingBelow
<1>4. f \in Frame /\ f.kind = "while" /\ f.base = PassResult /\ f.start = Top.start
    BY <1>1, <1>2, <1>3 DEF Frame, Kinds
<1> HIDE DEF f
<1>5. Follows(f.base.vars, st'.vars)
    BY <1>1, <1>3, <1>4, FollowsReflexive DEF State
<1> QED BY <1>1, <1>3, <1>4, <1>5, GoOnNests

LEMMA CloseNests ==
    ASSUME Inv, Inv', Nest(frames, st), NEW kinds, NEW s, Close(kinds, s),
           Follows(Top.base.vars, s.vars)
    PROVE  Nest(frames', st')
<1>1. frames # <<>> /\ st' = s /\ frames' = SubSeq(frames, 1, Len(frames) - 1)
    BY DEF Close, Closing, Pop
<1> QED BY <1>1, Walked, Reached, NestPop DEF Top

LEMMA JoinedFollows ==
    ASSUME NEW b \in Seq(Entry), NEW t \in Seq(Entry), Joined(b, t)
    PROVE  Follows(b, t)
BY BelowIsWithin DEF Joined, Follows

LEMMA CloseActionsNest ==
    ASSUME Inv, Inv', Nest(frames, st),
           EndBlock \/ EndThen \/ EndElse \/ EndFor \/ EndEmptyMatch \/ EndMatch \/ EndWhile
    PROVE  Nest(frames', st')
<1> DEFINE s == LeaveScope(st, Top.start)
           b == Top.base.vars
<1>0. frames # <<>>
    BY DEF EndBlock, EndThen, EndElse, EndFor, EndEmptyMatch, EndMatch, EndWhile, Close, Closing
<1>1. /\ Top.base \in State /\ s \in State /\ b \in Seq(Entry) /\ FrameOK(Top)
      /\ Grows(Top.base, s) /\ Grows(Top.base, Top.base)
      /\ Below(b, s.vars) /\ Below(b, b) /\ Follows(b, s.vars) /\ Follows(b, b)
      /\ PassResult \in State /\ Follows(b, PassResult.vars) /\ PassResult = JoinOnto(Top.base, s)
    BY <1>0, TopFrame, Leaving, LeavingBelow, GrowsReflexive, BelowReflexive, FollowsReflexive
    DEF PassResult
<1>2. CASE EndBlock
    <2>1. Close({"block"}, s)
        BY <1>2 DEF EndBlock
    <2> HIDE DEF s
    <2> QED BY <1>1, <2>1, CloseNests
<1>3. CASE EndThen
    <2> DEFINE u == JoinBranches(Top.base, s, Top.base)
    <2>1. Close({"then"}, u)
        BY <1>3 DEF EndThen
    <2> HIDE DEF s
    <2>2. Joined(b, u.vars) /\ Grows(Top.base, u)
        BY <1>1, JoinBranchesBelow, JoinBranchesGrows
    <2> HIDE DEF u
    <2>3. Follows(b, u.vars)
        BY <1>1, <2>2, JoinedFollows DEF Grows, State
    <2> QED BY <2>1, <2>3, CloseNests
<1>4. CASE EndElse
    <2> DEFINE u == JoinBranches(Top.base, Top.left, s)
    <2>1. Close({"else"}, u) /\ Grows(Top.base, Top.left) /\ Below(b, Top.left.vars)
        BY <1>0, <1>1, <1>4, TopFrame DEF EndElse, Close, Closing, LeftOK, FrameOK
    <2> HIDE DEF s
    <2>2. Joined(b, u.vars) /\ Grows(Top.base, u)
        BY <1>1, <2>1, JoinBranchesBelow, JoinBranchesGrows
    <2> HIDE DEF u
    <2>3. Follows(b, u.vars)
        BY <1>1, <2>2, JoinedFollows DEF Grows, State
    <2> QED BY <2>1, <2>3, CloseNests
<1>5. CASE EndFor \/ EndWhile
    <2>1. PICK kinds \in {{"for"}, {"while"}} : Close(kinds, PassResult)
        BY <1>5 DEF EndFor, EndWhile, PassResult
    <2> QED BY <1>1, <2>1, CloseNests
<1>6. CASE EndEmptyMatch
    <2>1. Close({"match"}, Top.base)
        BY <1>6 DEF EndEmptyMatch
    <2> QED BY <1>1, <2>1, CloseNests
<1>7. CASE EndMatch
    <2> DEFINE more == PassResult.terminated \/ (s.terminated /\ ~Top.joined)
               u == [PassResult EXCEPT !.terminated = more]
    <2>1. Close({"arm"}, u)
        BY <1>7 DEF EndMatch, PassResult
    <2>2. u.vars = PassResult.vars
        BY <1>1 DEF State
    <2> HIDE DEF u
    <2> QED BY <1>1, <2>1, <2>2, CloseNests
<1> QED BY <1>2, <1>3, <1>4, <1>5, <1>6, <1>7, <1>0

LEMMA FinishNests ==
    ASSUME Inv, Inv', Nest(frames, st), Finish
    PROVE  Nest(frames', st')
<1>1. frames' = <<>> /\ st' = LeaveScope(st, Len(Params)) /\ Len(Params) \in Nat
    BY ParamsAssumption DEF Finish
<1>2. Calm(st'.vars)
    BY <1>1, Walked, LeaveCalm DEF Nest
<1> QED BY <1>1, <1>2 DEF Nest

Claims == OwnersNotHidden => Nest(frames, st)

LEMMA InitClaims == Init => Claims
<1> SUFFICES ASSUME Init PROVE Nest(frames, st)
    BY DEF Claims
<1>1. st.vars = Params /\ frames = <<>>
    BY DEF Init
<1>2. \A i \in DOMAIN Params : Params[i].shared = 0
    <2>1. \A n, ty, m, p : NewEntry(n, ty, m, p).shared = 0
        BY DEF NewEntry
    <2> QED BY <2>1, ParamsAssumption
<1>3. Calm(st.vars)
    BY <1>1, <1>2 DEF Calm
<1> QED BY <1>1, <1>3 DEF Nest

LEMMA NextClaims == Inv /\ Claims /\ [Check]_checkVars => Claims'
<1> SUFFICES ASSUME Inv, Claims, [Check]_checkVars, OwnersNotHidden' PROVE Nest(frames', st')
    BY DEF Claims
<1>0. Inv'
    BY NextInv
<1>1. CASE UNCHANGED checkVars
    BY <1>1 DEF checkVars, Claims, OwnersNotHidden
<1>2. CASE Check
    <2>0. Step
        BY <1>2 DEF Check
    <2>a. prog' = prog
        BY <2>0 DEF Step, SimpleStmt, SkipDeadCode, OpenBlock, OpenIf, OpenWhile, OpenMatch, OpenCondition,
            OpenFor, EnterElse, EnterArm, EndBlock, EndThen, EndElse, EndFor, EndEmptyMatch, EndMatch,
            RepeatWhile, EndWhile, Close, Finish
    <2>1. OwnersNotHidden /\ Nest(frames, st)
        BY <2>a DEF Claims, OwnersNotHidden
    <2>2. CASE SimpleStmt
        BY <1>0, <2>1, <2>2, SimpleStmtNests
    <2>3. CASE SkipDeadCode
        BY <2>1, <2>3 DEF SkipDeadCode
    <2>4. CASE OpenBlock
        BY <1>0, <2>1, <2>4, OpenBlockNests
    <2>5. CASE OpenIf \/ OpenWhile \/ OpenMatch
        BY <1>0, <2>1, <2>5, OpenConditionNests DEF OpenIf, OpenWhile, OpenMatch
    <2>6. CASE OpenFor
        BY <1>0, <2>1, <2>6, OpenForNests
    <2>7. CASE EnterElse
        BY <1>0, <2>1, <2>7, EnterElseNests
    <2>8. CASE EnterArm
        BY <1>0, <2>1, <2>8, EnterArmNests
    <2>9. CASE EndBlock \/ EndThen \/ EndElse \/ EndFor \/ EndEmptyMatch \/ EndMatch \/ EndWhile
        BY <1>0, <2>1, <2>9, CloseActionsNest
    <2>10. CASE RepeatWhile
        BY <1>0, <2>1, <2>10, RepeatWhileNests
    <2>11. CASE Finish
        BY <1>0, <2>1, <2>11, FinishNests
    <2> QED BY <2>0, <2>2, <2>3, <2>4, <2>5, <2>6, <2>7, <2>8, <2>9, <2>10, <2>11 DEF Step
<1> QED BY <1>1, <1>2

(***************************************************************************)
(* The counters of an owner never claim a mutable and a shared borrow at   *)
(* once, through every branch, arm and pass whose clones are merged by     *)
(* taking the maximum of their counters, in every function body where no   *)
(* reference hides the owner it borrows from.                              *)
(***************************************************************************)
THEOREM NeverBoth == Spec => []Exclusive
<1>1. Inv /\ Claims => Exclusive
    BY DEF Claims, Nest, Calm, Exclusive
<1>2. Init => Inv /\ Claims
    BY InitInv, InitClaims
<1>3. Inv /\ Claims /\ [Check]_checkVars => (Inv /\ Claims)'
    BY NextInv, NextClaims
<1> QED BY <1>1, <1>2, <1>3, PTL DEF Spec

-----------------------------------------------------------------------------
(* The passes over the body of a loop.  A pass leaves the counters as they  *)
(* were, by Claims, so what it changes is that entries have been moved.     *)
Moved(vars) == {i \in DOMAIN vars : vars[i].status = "Moved"}

(* The joins that end a pass only move entries.                             *)
PassMoves(b, w) ==
    /\ w \in Seq(Entry) /\ Len(w) = Len(b)
    /\ \A i \in DOMAIN b : w[i] = b[i] \/ (i \notin Moved(b) /\ i \in Moved(w))
    /\ Moved(b) \subseteq Moved(w)

LEMMA MergeMoves ==
    ASSUME NEW b \in Seq(Entry), NEW s \in Seq(Entry), Below(b, s)
    PROVE  PassMoves(b, MergeVars(b, b, s))
<1> DEFINE w == MergeVars(b, b, s)
<1>1. w \in Seq(Entry) /\ Len(w) = Len(b)
    BY MergeVarsType DEF Below
<1>2. ASSUME NEW i \in DOMAIN b
      PROVE  /\ w[i] = b[i] \/ (b[i].status # "Moved" /\ w[i].status = "Moved")
             /\ b[i].status = "Moved" => w[i].status = "Moved"
    <2> DEFINE status == IF "Moved" \in {b[i].status, s[i].status} THEN "Moved" ELSE "Available"
               shared == IF b[i].shared > s[i].shared THEN b[i].shared ELSE s[i].shared
               mutBorrow == b[i].mutBorrow \/ s[i].mutBorrow
    <2>1. w[i] = [b[i] EXCEPT !.status = status, !.shared = shared, !.mutBorrow = mutBorrow]
        BY DEF MergeVars
    <2>2. b[i] \in Entry /\ i \in DOMAIN s /\ s[i] \in Entry
        BY DEF Below
    <2>3. /\ s[i].shared <= b[i].shared /\ (s[i].mutBorrow => b[i].mutBorrow)
          /\ s[i].shared \in Nat /\ b[i].shared \in Nat
        BY <2>2, EntryFields DEF Below
    <2>4. shared = b[i].shared /\ mutBorrow = b[i].mutBorrow
        <3>1. shared = b[i].shared
            BY <2>3
        <3>2. b[i].mutBorrow \in BOOLEAN /\ s[i].mutBorrow \in BOOLEAN
            BY <2>2 DEF Entry
        <3>3. mutBorrow = b[i].mutBorrow
            BY <2>3, <3>2
        <3> QED BY <3>1, <3>3
    <2>5. status \in {"Moved", "Available"} /\ (b[i].status = "Moved" => status = "Moved")
          /\ b[i].status \in {"Moved", "Available"} /\ (status = "Available" => b[i].status = "Available")
        BY <2>2 DEF Entry
    <2> HIDE DEF status, shared, mutBorrow, w
    <2>6. w[i].status = status
        BY <2>1, <2>2 DEF Entry
    <2>7. CASE status = b[i].status
        <3>1. w[i] = [b[i] EXCEPT !.status = b[i].status, !.shared = b[i].shared, !.mutBorrow = b[i].mutBorrow]
            BY <2>1, <2>4, <2>7
        <3>2. [b[i] EXCEPT !.status = b[i].status, !.shared = b[i].shared, !.mutBorrow = b[i].mutBorrow] = b[i]
            BY <2>2 DEF Entry
        <3> QED BY <3>1, <3>2
    <2>8. CASE status # b[i].status
        BY <2>5, <2>6, <2>8
    <2> QED BY <2>5, <2>6, <2>7, <2>8
<1> HIDE DEF w
<1>3. DOMAIN w = DOMAIN b
    BY <1>1
<1> QED BY <1>1, <1>2, <1>3 DEF PassMoves, Moved, w

LEMMA MovedCount ==
    ASSUME NEW v \in Seq(Entry)
    PROVE  IsFiniteSet(Moved(v)) /\ Cardinality(Moved(v)) \in Nat
<1>1. Moved(v) \subseteq DOMAIN v
    BY DEF Moved
<1> QED BY <1>1, CountType

(* A pass that changes something moves an entry more.                       *)
LEMMA ChangeCounts ==
    ASSUME NEW b \in Seq(Entry), NEW w, PassMoves(b, w), w # b
    PROVE  Cardinality(Moved(b)) + 1 <= Cardinality(Moved(w))
<1>1. w \in Seq(Entry) /\ DOMAIN w = DOMAIN b /\ Moved(b) \subseteq Moved(w)
    BY DEF PassMoves
<1>2. PICK i \in DOMAIN b : w[i] # b[i]
    BY <1>1
<1>3. i \notin Moved(b) /\ i \in Moved(w)
    BY <1>2 DEF PassMoves
<1>4. /\ IsFiniteSet(Moved(b)) /\ Cardinality(Moved(b)) \in Nat
      /\ IsFiniteSet(Moved(w)) /\ Cardinality(Moved(w)) \in Nat
    BY <1>1, MovedCount
<1>5. Cardinality(Moved(b)) <= Cardinality(Moved(w)) /\ (Cardinality(Moved(b)) = Cardinality(Moved(w)) => Moved(b) = Moved(w))
    BY <1>1, <1>4, FS_Subset
<1> QED BY <1>3, <1>4, <1>5

LEMMA PassResultMoves ==
    ASSUME Inv, Nest(frames, st), frames # <<>>
    PROVE  Top.base.vars \in Seq(Entry) /\ PassMoves(Top.base.vars, PassResult.vars)
<1> DEFINE s == LeaveScope(st, Top.start)
           b == Top.base.vars
           t1 == MergeDiags(Top.base, Top.base)
           t2 == MergeDiags(t1, s)
<1>1. /\ s \in State /\ b \in Seq(Entry) /\ Below(b, s.vars) /\ Top.base \in State
    BY LeavingBelow, TopFrame
<1> HIDE DEF s
<1>2. PassResult = JoinOnto(Top.base, s)
    BY DEF PassResult, s
<1>3. CASE s.terminated
    <2>1. PassResult.vars = b
        BY <1>1, <1>2, <1>3, MergeDiagsGrows DEF JoinOnto
    <2> QED BY <1>1, <2>1 DEF PassMoves
<1>4. CASE ~s.terminated
    <2>1. t1 \in State /\ t1.vars = b
        BY <1>1, MergeDiagsGrows DEF Grows
    <2>2. t2 \in State /\ t2.vars = b
        <3> HIDE DEF t1
        <3> QED BY <1>1, <2>1, MergeDiagsGrows DEF Grows
    <2>3. PassResult = [t2 EXCEPT !.vars = MergeVars(t2.vars, b, s.vars)]
        BY <1>2, <1>4 DEF JoinOnto, MergeState
    <2> HIDE DEF t1, t2
    <2>4. PassResult.vars = MergeVars(b, b, s.vars)
        BY <2>2, <2>3 DEF State
    <2>5. s.vars \in Seq(Entry)
        BY <1>1 DEF State
    <2> QED BY <1>1, <2>4, <2>5, MergeMoves
<1> QED BY <1>1, <1>3, <1>4

(* Each pass a loop has been given for a change has moved an entry.         *)
Earned(f) == f.kind = "while" => f.passes <= Cardinality(Moved(f.base.vars))
Passes == OwnersNotHidden => \A k \in DOMAIN frames : Earned(frames[k])

LEMMA NewFrameEarned ==
    ASSUME NEW kind, NEW base \in State, NEW start, NEW m \in Nat
    PROVE  Earned(NewFrame(kind, base, start))
<1>1. base.vars \in Seq(Entry)
    BY DEF State
<1>2. 0 <= Cardinality(Moved(base.vars))
    BY <1>1, MovedCount
<1> QED BY <1>2 DEF Earned, NewFrame

LEMMA RepeatWhileEarned ==
    ASSUME Inv, Nest(frames, st), RepeatWhile, \A k \in DOMAIN frames : Earned(frames[k])
    PROVE  \A k \in DOMAIN frames' : Earned(frames'[k])
<1> DEFINE b == Top.base.vars
           w == PassResult.vars
           f == [Top EXCEPT !.base = PassResult, !.passes = Top.passes + 1]
<1>1. frames # <<>> /\ Top.kind = "while" /\ ReplaceTop(f) /\ w # b
    BY DEF RepeatWhile, Closing, At, Again
<1>2. Top \in Frame /\ Top.passes \in Nat /\ Len(frames) \in DOMAIN frames
    BY <1>1, TopFrame DEF Frame
<1>3. Top.passes <= Cardinality(Moved(b))
    BY <1>1, <1>2 DEF Earned, Top
<1>4. b \in Seq(Entry) /\ PassMoves(b, w)
    BY <1>1, PassResultMoves
<1>5. w \in Seq(Entry)
    BY <1>4 DEF PassMoves
<1> HIDE DEF b, w
<1>6. Cardinality(Moved(b)) + 1 <= Cardinality(Moved(w))
    BY <1>1, <1>4, ChangeCounts
<1>7. Top.passes + 1 <= Cardinality(Moved(w))
    <2>1. Cardinality(Moved(b)) \in Nat /\ Cardinality(Moved(w)) \in Nat
        BY <1>4, <1>5, MovedCount
    <2> QED BY <1>2, <1>3, <1>6, <2>1
<1>8. f.passes = Top.passes + 1 /\ f.base = PassResult
    BY <1>2 DEF Frame
<1>9. Earned(f)
    BY <1>7, <1>8 DEF Earned, w
<1> HIDE DEF f
<1>10. /\ DOMAIN frames' = DOMAIN frames
       /\ \A k \in DOMAIN frames : frames'[k] = f \/ frames'[k] = frames[k]
    BY <1>1, Walked DEF ReplaceTop
<1> QED BY <1>9, <1>10

(* No other step gives a loop a pass.                                       *)
LEMMA OpenEarned ==
    ASSUME Inv, Inv', OpenBlock \/ OpenIf \/ OpenWhile \/ OpenMatch \/ OpenFor, \A k \in DOMAIN frames : Earned(frames[k])
    PROVE  \A k \in DOMAIN frames' : Earned(frames'[k])
<1>1. PICK kind, base, start : Push(NewFrame(kind, base, start))
    BY DEF OpenBlock, OpenIf, OpenWhile, OpenMatch, OpenCondition, OpenFor
<1> DEFINE f == NewFrame(kind, base, start)
<1>2. frames' = Append(frames, f) /\ frames \in Seq(Frame)  /\ frames' \in Seq(Frame)
    BY <1>1, Walked, Reached DEF Push
<1> HIDE DEF f
<1>3. Len(frames) + 1 \in DOMAIN frames' /\ frames'[Len(frames) + 1] = f
    BY <1>2
<1>4. f.base \in State
    BY <1>2, <1>3, FrameBase
<1>5. f.base = base
    BY DEF f, NewFrame
<1>6. Earned(f)
    BY <1>4, <1>5, NewFrameEarned DEF f
<1>7. \A k \in DOMAIN frames' : frames'[k] = f \/ (k \in DOMAIN frames /\ frames'[k] = frames[k])
    BY <1>2
<1> QED BY <1>6, <1>7

LEMMA OthersEarned ==
    ASSUME Inv, Step, ~RepeatWhile, ~(OpenBlock \/ OpenIf \/ OpenWhile \/ OpenMatch \/ OpenFor),
           \A k \in DOMAIN frames : Earned(frames[k])
    PROVE  \A k \in DOMAIN frames' : Earned(frames'[k])
<1>0. frames \in Seq(Frame)
    BY Walked
<1>1. CASE SimpleStmt \/ SkipDeadCode
    BY <1>1 DEF SimpleStmt, SkipDeadCode
<1>2. CASE EnterElse \/ EnterArm
    <2>1. frames # <<>>
        BY <1>2 DEF EnterElse, EnterArm, Closing
    <2>2. PICK f : ReplaceTop(f) /\ f.kind \in {"else", "arm"}
        <3>1. Top \in Frame
            BY <2>1, TopFrame
        <3>2. CASE EnterElse
            <4> DEFINE f == [Top EXCEPT !.kind = "else", !.left = LeaveScope(st, Top.start)]
            <4>1. ReplaceTop(f)
                BY <3>2 DEF EnterElse
            <4>2. f.kind = "else"
                BY <3>1 DEF Frame
            <4> QED BY <4>1, <4>2
        <3>3. CASE EnterArm
            <4> DEFINE arm == LeaveScope(st, Top.start)
                       joined == IF Top.kind = "match" THEN Top.base ELSE JoinOnto(Top.base, arm)
                       f == [Top EXCEPT !.kind = "arm", !.base = joined,
                                        !.joined = Top.joined \/ (Top.kind = "arm" /\ ~arm.terminated)]
            <4>1. ReplaceTop(f)
                BY <3>3 DEF EnterArm
            <4>2. f.kind = "arm"
                BY <3>1 DEF Frame
            <4> HIDE DEF f
            <4> QED BY <4>1, <4>2
        <3> QED BY <1>2, <3>2, <3>3
    <2>3. Earned(f)
        BY <2>2 DEF Earned
    <2>4. /\ DOMAIN frames' = DOMAIN frames
          /\ \A k \in DOMAIN frames : frames'[k] = f \/ frames'[k] = frames[k]
        BY <1>0, <2>1, <2>2 DEF ReplaceTop
    <2> QED BY <2>3, <2>4
<1>3. CASE EndBlock \/ EndThen \/ EndElse \/ EndFor \/ EndEmptyMatch \/ EndMatch \/ EndWhile
    <2>1. frames # <<>> /\ frames' = SubSeq(frames, 1, Len(frames) - 1)
        BY <1>3 DEF EndBlock, EndThen, EndElse, EndFor, EndEmptyMatch, EndMatch, EndWhile, Close, Closing, Pop
    <2>2. \A k \in DOMAIN frames' : k \in DOMAIN frames /\ frames'[k] = frames[k]
        BY <1>0, <2>1
    <2> QED BY <2>2
<1>4. CASE Finish
    BY <1>4 DEF Finish
<1> QED BY <1>1, <1>2, <1>3, <1>4 DEF Step

LEMMA NextPasses == Inv /\ Claims /\ Passes /\ [Check]_checkVars => Passes'
<1> SUFFICES ASSUME Inv, Claims, Passes, [Check]_checkVars, OwnersNotHidden'
             PROVE  \A k \in DOMAIN frames' : Earned(frames'[k])
    BY DEF Passes, Earned, Moved
<1>0. Inv'
    BY NextInv
<1>1. prog' = prog
    BY DEF Check, Step, SimpleStmt, SkipDeadCode, OpenBlock, OpenIf, OpenWhile, OpenMatch, OpenCondition,
        OpenFor, EnterElse, EnterArm, EndBlock, EndThen, EndElse, EndFor, EndEmptyMatch, EndMatch,
        RepeatWhile, EndWhile, Close, Finish, checkVars
<1>2. OwnersNotHidden /\ Nest(frames, st) /\ \A k \in DOMAIN frames : Earned(frames[k])
    BY <1>1 DEF Claims, Passes, OwnersNotHidden
<1>3. CASE UNCHANGED checkVars
    BY <1>2, <1>3 DEF checkVars
<1>4. CASE Step
    <2>1. CASE RepeatWhile
        BY <1>2, <2>1, RepeatWhileEarned
    <2>2. CASE OpenBlock \/ OpenIf \/ OpenWhile \/ OpenMatch \/ OpenFor
        BY <1>0, <1>2, <2>2, OpenEarned
    <2>3. CASE ~RepeatWhile /\ ~(OpenBlock \/ OpenIf \/ OpenWhile \/ OpenMatch \/ OpenFor)
        BY <1>2, <1>4, <2>3, OthersEarned
    <2> QED BY <2>1, <2>2, <2>3
<1> QED BY <1>3, <1>4 DEF Check

FewMoved == Cardinality(Moved(PassResult.vars)) < MaxPasses

(***************************************************************************)
(* No loop is cut off by the bound on its passes unless as many variables  *)
(* as the bound have been moved: each pass that changes the state leaves   *)
(* the counters as they were and moves an entry more, so that the 8 passes *)
(* of ownership_check_stmt_in are enough for any loop before or in which   *)
(* fewer than 8 variables are moved.                                       *)
(***************************************************************************)
THEOREM PassesSuffice == Spec => [](OwnersNotHidden /\ FewMoved => LoopsSettle)
<1>1. Inv /\ Claims /\ Passes => (OwnersNotHidden /\ FewMoved => LoopsSettle)
    <2> SUFFICES ASSUME Inv, Claims, Passes, OwnersNotHidden, FewMoved, Closing("end", {"while"}),
                        PassResult.vars # Top.base.vars
                 PROVE  Again
        BY DEF LoopsSettle
    <2> DEFINE b == Top.base.vars
               w == PassResult.vars
    <2>1. frames # <<>> /\ Top.kind = "while" /\ Nest(frames, st)
        BY DEF Closing, Claims
    <2>2. Top \in Frame /\ Top.passes \in Nat /\ Len(frames) \in DOMAIN frames
        BY <2>1, TopFrame DEF Frame
    <2>3. Top.passes <= Cardinality(Moved(b))
        BY <2>1, <2>2 DEF Passes, Earned, Top
    <2>4. b \in Seq(Entry) /\ PassMoves(b, w) /\ w # b /\ Cardinality(Moved(w)) < MaxPasses
        BY <2>1, PassResultMoves DEF FewMoved
    <2> HIDE DEF b, w
    <2>5. Cardinality(Moved(b)) + 1 <= Cardinality(Moved(w))
        BY <2>4, ChangeCounts
    <2>6. Cardinality(Moved(b)) \in Nat /\ Cardinality(Moved(w)) \in Nat
        BY <2>4, MovedCount DEF PassMoves
    <2>7. Top.passes + 1 < MaxPasses
        BY <2>2, <2>3, <2>4, <2>5, <2>6, MaxPassesAssumption
    <2> QED BY <2>4, <2>7 DEF Again, b, w
<1>2. Init => Inv /\ Claims /\ Passes
    BY InitInv, InitClaims DEF Init, Passes
<1>3. Inv /\ Claims /\ Passes /\ [Check]_checkVars => (Inv /\ Claims /\ Passes)'
    BY NextInv, NextClaims, NextPasses
<1> QED BY <1>1, <1>2, <1>3, PTL DEF Spec
-----------------------------------------------------------------------------
(***************************************************************************)
(* Straight-line code.  As long as the body is walked no entry leaves its  *)
(* scope and no name is declared twice, so a source names the same entry   *)
(* from the borrow to its end; each reference that is out was counted once *)
(* when it was taken and is counted down once when it expires.             *)
(***************************************************************************)
Counts(vars) ==
    \A i \in DOMAIN vars : /\ vars[i].shared = Cardinality(Out(vars, i, FALSE))
                           /\ vars[i].mutBorrow <=> Out(vars, i, TRUE) # {}
Single(vars) ==
    \A i \in DOMAIN vars : Out(vars, i, TRUE) # {} =>
        Out(vars, i, FALSE) = {} /\ \E r : Out(vars, i, TRUE) = {r}
Lenders(vars) ==
    \A r \in DOMAIN vars : vars[r].active /\ (vars[r].borrowEnd >= 0 => Find(vars, vars[r].source) \in 1..(r - 1))

Balanced(vars) == Counts(vars) /\ Single(vars) /\ Lenders(vars)

LEMMA OutType ==
    ASSUME NEW v \in Seq(Entry), NEW i, NEW m
    PROVE  Out(v, i, m) \subseteq DOMAIN v /\ IsFiniteSet(Out(v, i, m)) /\ Cardinality(Out(v, i, m)) \in Nat
<1>1. Out(v, i, m) \subseteq DOMAIN v
    BY DEF Out
<1> QED BY <1>1, CountType

(* Who is out is told by names, sources and ends of borrows.                *)
LEMMA SameOut ==
    ASSUME NEW v \in Seq(Entry), NEW w \in Seq(Entry), OnlyStatus(v, w)
    PROVE  (\A i, m : Out(w, i, m) = Out(v, i, m)) /\ (Balanced(v) => Balanced(w))
<1>1. DOMAIN v = DOMAIN w /\ \A k \in DOMAIN v : Fixed(v[k], w[k])
    BY DEF OnlyStatus
<1>2. \A n : Find(w, n) = Find(v, n)
    <2>1. \A k \in DOMAIN v : v[k].name = w[k].name /\ v[k].active = w[k].active
        BY <1>1 DEF Fixed
    <2> QED BY <2>1, SameFind DEF OnlyStatus
<1>3. \A i, m : Out(w, i, m) = Out(v, i, m)
    BY <1>1, <1>2 DEF Out, Fixed
<1>4. Counts(v) => Counts(w)
    BY <1>1, <1>3 DEF Counts, OnlyStatus
<1>5. Single(v) => Single(w)
    <2>1. SUFFICES ASSUME Single(v), NEW i \in DOMAIN w, Out(w, i, TRUE) # {}
                   PROVE  Out(w, i, FALSE) = {} /\ \E r : Out(w, i, TRUE) = {r}
        BY DEF Single
    <2>2. Out(w, i, TRUE) = Out(v, i, TRUE) /\ Out(w, i, FALSE) = Out(v, i, FALSE)
        BY <1>3
    <2> QED BY <1>1, <2>1, <2>2 DEF Single
<1>6. Lenders(v) => Lenders(w)
    BY <1>1, <1>2 DEF Lenders, Fixed
<1> QED BY <1>3, <1>4, <1>5, <1>6 DEF Balanced

(* What expires is out, and is counted down.                                *)
LEMMA ExpireBalances ==
    ASSUME NEW s \in State, NEW line \in Nat, Balanced(s.vars)
    PROVE  Balanced(Expire(s, line).vars)
<1> DEFINE v == s.vars
           w == Expire(s, line).vars
           due == Due(v, line)
<1>1. v \in Seq(Entry) /\ Expired(v, w, due) /\ Balanced(v)
    BY ExpireIs DEF State
<1>0. \A r \in DOMAIN v : r \in due <=> (v[r].active /\ v[r].borrowEnd >= 0 /\ v[r].borrowEnd < line)
    BY DEF Due
<1>00. due \subseteq DOMAIN v
    BY DEF Due
<1> HIDE DEF v, w, due
<1>2. w \in Seq(Entry) /\ Len(w) = Len(v) /\ DOMAIN w = DOMAIN v
    BY <1>1 DEF Expired
<1>3. ASSUME NEW r \in DOMAIN v
      PROVE  /\ Kin(v[r], w[r]) /\ SameReference(v[r], w[r]) /\ v[r].borrowEnd \in Int
             /\ w[r].borrowEnd = IF r \in due /\ v[r].source # NoName THEN Released ELSE v[r].borrowEnd
    <2>1. v[r].borrowEnd \in Int
        BY <1>1, EntryFields
    <2> QED BY <1>1, <2>1 DEF Expired, Kin
<1>4. \A n : Find(w, n) = Find(v, n)
    <2>1. \A k \in DOMAIN v : v[k].name = w[k].name /\ v[k].active = w[k].active
        BY <1>3 DEF SameReference
    <2> QED BY <1>1, <1>2, <2>1, SameFind
<1>5. Find(v, NoName) = 0
    <2>1. {i \in DOMAIN v : v[i].active /\ v[i].name = NoName} = {}
        BY <1>1, EntryFields, NamesAssumption
    <2> QED BY <2>1 DEF Find, LastOf
<1>6. ASSUME NEW i \in DOMAIN v, NEW m
      PROVE  /\ GivenBack(v, due, i, m) = {r \in Out(v, i, m) : r \in due}
             /\ Out(w, i, m) = {r \in Out(v, i, m) : r \notin due}
    <2>1. i # 0
        BY <1>1
    <2>2. \A r \in DOMAIN v : Find(v, v[r].source) = i => v[r].source # NoName
        BY <1>5, <2>1
    <2>3. GivenBack(v, due, i, m) = {r \in Out(v, i, m) : r \in due}
        BY <1>0, <1>00, <2>2 DEF GivenBack, Out
    <2>4. ASSUME NEW r \in DOMAIN v
          PROVE  r \in Out(w, i, m) <=> r \in Out(v, i, m) /\ r \notin due
        <3>1. w[r].active = v[r].active /\ w[r].borrowMut = v[r].borrowMut /\ w[r].source = v[r].source
            BY <1>3 DEF SameReference
        <3>2. CASE Find(v, v[r].source) = i /\ r \in due
            <4>1. w[r].borrowEnd = Released
                BY <1>3, <2>2, <3>2
            <4>2. r \notin Out(w, i, m)
                BY <4>1 DEF Out, Released
            <4> QED BY <3>2, <4>2
        <3>3. CASE Find(v, v[r].source) = i /\ r \notin due
            <4>1. w[r].borrowEnd = v[r].borrowEnd
                BY <1>3, <3>3
            <4> QED BY <1>2, <1>4, <3>1, <3>3, <4>1 DEF Out
        <3>4. CASE Find(v, v[r].source) # i
            BY <1>4, <3>1, <3>4 DEF Out
        <3> QED BY <3>2, <3>3, <3>4
    <2>5. Out(w, i, m) \subseteq DOMAIN v /\ Out(v, i, m) \subseteq DOMAIN v
        BY <1>2 DEF Out
    <2> QED BY <2>3, <2>4, <2>5
<1>7. ASSUME NEW i \in DOMAIN v
      PROVE  /\ w[i].shared = Cardinality(Out(w, i, FALSE))
             /\ w[i].mutBorrow <=> Out(w, i, TRUE) # {}
    <2> DEFINE A == GivenBack(v, due, i, FALSE)
               B == Out(w, i, FALSE)
    <2>1. A \cup B = Out(v, i, FALSE) /\ A \cap B = {}
        BY <1>6
    <2>2. IsFiniteSet(A) /\ IsFiniteSet(B)
        <3>1. A \subseteq Out(v, i, FALSE) /\ B \subseteq Out(v, i, FALSE)
            BY <1>6
        <3> QED BY <1>1, <3>1, OutType, FS_Subset
    <2>3. v[i].shared = Cardinality(Out(v, i, FALSE)) /\ (v[i].mutBorrow <=> Out(v, i, TRUE) # {})
        BY <1>1 DEF Balanced, Counts
    <2>4. w[i].shared = GiveBack(v[i].shared, Cardinality(A))
        BY <1>1 DEF Expired
    <2>5. w[i].mutBorrow = (v[i].mutBorrow /\ GivenBack(v, due, i, TRUE) = {})
        BY <1>1 DEF Expired
    <2> HIDE DEF A, B
    <2>6. /\ Cardinality(A \cup B) = Cardinality(A) + Cardinality(B)
          /\ Cardinality(A) \in Nat /\ Cardinality(B) \in Nat
        BY <2>1, <2>2, DisjointUnion
    <2>7. w[i].shared = Cardinality(B)
        <3>1. v[i].shared = Cardinality(A) + Cardinality(B)
            BY <2>1, <2>3, <2>6
        <3> QED BY <2>4, <2>6, <3>1 DEF GiveBack
    <2>8. w[i].mutBorrow <=> Out(w, i, TRUE) # {}
        <3>1. CASE Out(v, i, TRUE) = {}
            <4>1. ~w[i].mutBorrow
                BY <2>3, <2>5, <3>1
            <4>2. Out(w, i, TRUE) = {}
                BY <1>6, <3>1
            <4> QED BY <4>1, <4>2
        <3>2. CASE Out(v, i, TRUE) # {}
            <4>1. PICK r : Out(v, i, TRUE) = {r}
                BY <1>1, <3>2 DEF Balanced, Single
            <4>2. v[i].mutBorrow
                BY <2>3, <3>2
            <4>3. GivenBack(v, due, i, TRUE) = {x \in {r} : x \in due} /\ Out(w, i, TRUE) = {x \in {r} : x \notin due}
                BY <1>6, <4>1
            <4>4. CASE r \in due
                <5>1. GivenBack(v, due, i, TRUE) # {} /\ Out(w, i, TRUE) = {}
                    BY <4>3, <4>4
                <5>2. ~w[i].mutBorrow
                    BY <2>5, <5>1
                <5> QED BY <5>1, <5>2
            <4>5. CASE r \notin due
                <5>1. GivenBack(v, due, i, TRUE) = {} /\ Out(w, i, TRUE) # {}
                    BY <4>3, <4>5
                <5>2. w[i].mutBorrow
                    BY <2>5, <4>2, <5>1
                <5> QED BY <5>1, <5>2
            <4> QED BY <4>4, <4>5
        <3> QED BY <3>1, <3>2
    <2> QED BY <2>7, <2>8 DEF B
<1>8. Counts(w)
    BY <1>2, <1>7 DEF Counts
<1>9. Single(w)
    <2>1. ASSUME NEW i \in DOMAIN v, Out(w, i, TRUE) # {}
          PROVE  Out(w, i, FALSE) = {} /\ \E r : Out(w, i, TRUE) = {r}
        <3>1. Out(w, i, TRUE) \subseteq Out(v, i, TRUE) /\ Out(w, i, FALSE) \subseteq Out(v, i, FALSE)
            BY <1>6
        <3>2. PICK r : Out(v, i, TRUE) = {r} /\ Out(v, i, FALSE) = {}
            BY <1>1, <2>1, <3>1 DEF Balanced, Single
        <3>3. Out(w, i, TRUE) = {r}
            BY <2>1, <3>1, <3>2
        <3> QED BY <3>1, <3>2, <3>3
    <2> QED BY <1>2, <2>1 DEF Single
<1>10. Lenders(w)
    <2>1. ASSUME NEW r \in DOMAIN v
          PROVE  w[r].active /\ (w[r].borrowEnd >= 0 => Find(w, w[r].source) \in 1..(r - 1))
        <3>1. w[r].active = v[r].active /\ w[r].source = v[r].source
            BY <1>3 DEF SameReference
        <3>2. w[r].borrowEnd >= 0 => v[r].borrowEnd >= 0
            BY <1>3 DEF Released
        <3>3. v[r].active /\ (v[r].borrowEnd >= 0 => Find(v, v[r].source) \in 1..(r - 1))
            BY <1>1 DEF Balanced, Lenders
        <3>4. w[r].active
            BY <3>1, <3>3
        <3> QED BY <1>4, <3>1, <3>2, <3>3, <3>4
    <2> QED BY <1>2, <2>1 DEF Lenders
<1> QED BY <1>8, <1>9, <1>10 DEF Balanced, w

(* An entry with a name of its own leaves every other name where it was.    *)
LEMMA FreshFind ==
    ASSUME NEW w \in Seq(Entry), NEW e \in Entry, e.active, NEW n
    PROVE  Find(Append(w, e), n) = IF e.name = n THEN Len(w) + 1 ELSE Find(w, n)
<1> DEFINE z == Append(w, e)
           N == Len(w) + 1
           S == {i \in DOMAIN z : z[i].active /\ z[i].name = n}
<1>1. CASE e.name # n
    BY <1>1, HiddenFind
<1>2. CASE e.name = n
    <2>1. z[N] = e /\ DOMAIN z = 1..N /\ N \in Nat /\ N \in DOMAIN z
        OBVIOUS
    <2> HIDE DEF z, N
    <2>a. N \in S
        BY <1>2, <2>1
    <2>2. N \in S /\ \A j \in S : j \in Int /\ j <= N
        BY <2>1, <2>a
    <2> HIDE DEF S
    <2>3. \A i \in S : (\A j \in S : j <= i) => i = N
        BY <2>2
    <2>4. LastOf(S, 0) = N
        BY <2>2, <2>3 DEF LastOf
    <2> QED BY <1>2, <2>4 DEF Find, S, z, N
<1> QED BY <1>1, <1>2

Unnamed(vars, n) == \A i \in DOMAIN vars : vars[i].name # n

LEMMA UnnamedFind ==
    ASSUME NEW v \in Seq(Entry), NEW n, Unnamed(v, n)
    PROVE  Find(v, n) = 0
<1>1. {i \in DOMAIN v : v[i].active /\ v[i].name = n} = {}
    BY DEF Unnamed
<1> QED BY <1>1 DEF Find, LastOf

(* Appending an entry that is not out counts nothing.                       *)
LEMMA AppendedOut ==
    ASSUME NEW w \in Seq(Entry), NEW e \in Entry, e.active, Unnamed(w, e.name), Lenders(w),
           NEW i \in 1..(Len(w) + 1), NEW m
    PROVE  Out(Append(w, e), i, m) =
               Out(w, i, m) \cup (IF e.borrowEnd >= 0 /\ e.borrowMut = m /\ Find(Append(w, e), e.source) = i
                                  THEN {Len(w) + 1} ELSE {})
<1> DEFINE z == Append(w, e)
           N == Len(w) + 1
<1>1. /\ z[N] = e /\ DOMAIN z = 1..N /\ \A r \in DOMAIN w : z[r] = w[r] /\ r # N /\ r \in DOMAIN z
      /\ \A r \in DOMAIN z : r \in DOMAIN w \/ r = N
      /\ N \in DOMAIN z
    OBVIOUS
<1>2. ASSUME NEW r \in DOMAIN w, w[r].borrowEnd >= 0
      PROVE  Find(z, w[r].source) = Find(w, w[r].source)
    <2>1. w[r].source # e.name
        BY <1>2, UnnamedFind DEF Lenders
    <2> QED BY <2>1, FreshFind
<1> HIDE DEF z, N
<1>3. \A r \in DOMAIN w : r \in Out(z, i, m) <=> r \in Out(w, i, m)
    BY <1>1, <1>2 DEF Out
<1>4. N \in Out(z, i, m) <=> e.borrowEnd >= 0 /\ e.borrowMut = m /\ Find(z, e.source) = i
    BY <1>1 DEF Out
<1>5. Out(z, i, m) \subseteq DOMAIN z /\ Out(w, i, m) \subseteq DOMAIN w
    BY DEF Out
<1> QED BY <1>1, <1>3, <1>4, <1>5 DEF z, N

(* Nobody borrows from an entry that is not there yet.                      *)
LEMMA NotYetLent ==
    ASSUME NEW w \in Seq(Entry), Lenders(w), NEW m
    PROVE  Out(w, Len(w) + 1, m) = {}
<1>1. \A r \in DOMAIN w : w[r].borrowEnd >= 0 => Find(w, w[r].source) # Len(w) + 1
    BY FindType
<1> QED BY <1>1 DEF Out

LEMMA PlainBalances ==
    ASSUME NEW u \in Seq(Entry), NEW e \in Entry, Balanced(u), Unnamed(u, e.name),
           e.active, e.shared = 0, ~e.mutBorrow, e.borrowEnd < 0
    PROVE  Balanced(Append(u, e))
<1> DEFINE z == Append(u, e)
           N == Len(u) + 1
<1>1. /\ z[N] = e /\ DOMAIN z = 1..N /\ N \in Nat
      /\ \A r \in DOMAIN u : z[r] = u[r] /\ r # N
      /\ \A r \in 1..N : r \in DOMAIN u \/ r = N
    OBVIOUS
<1>2. \A i \in 1..N : \A m : Out(z, i, m) = Out(u, i, m)
    <2>1. ~(e.borrowEnd >= 0)
        BY EntryFields
    <2>2. Lenders(u)
        BY DEF Balanced
    <2>3. \A i \in 1..(Len(u) + 1) : \A m : Out(Append(u, e), i, m) =
              Out(u, i, m) \cup (IF e.borrowEnd >= 0 /\ e.borrowMut = m /\ Find(Append(u, e), e.source) = i
                                 THEN {Len(u) + 1} ELSE {})
        BY <2>2, AppendedOut
    <2> HIDE DEF z
    <2>4. \A i \in 1..N : \A m : Out(Append(u, e), i, m) = Out(u, i, m)
        <3>1. ASSUME NEW i \in 1..N, NEW m PROVE Out(Append(u, e), i, m) = Out(u, i, m)
            <4> DEFINE added == IF e.borrowEnd >= 0 /\ e.borrowMut = m /\ Find(Append(u, e), e.source) = i
                                THEN {Len(u) + 1} ELSE {}
            <4>1. added = {}
                BY <2>1
            <4>2. Out(Append(u, e), i, m) = Out(u, i, m) \cup added
                BY <2>3
            <4> HIDE DEF added
            <4> QED BY <4>1, <4>2
        <3> QED BY <3>1
    <2> QED BY <2>4 DEF z
<1>3. \A m : Out(u, N, m) = {}
    BY NotYetLent DEF Balanced
<1>4. \A r \in DOMAIN u : u[r].borrowEnd >= 0 => Find(z, u[r].source) = Find(u, u[r].source)
    <2>1. ASSUME NEW r \in DOMAIN u, u[r].borrowEnd >= 0 PROVE u[r].source # e.name
        BY <2>1, UnnamedFind DEF Balanced, Lenders
    <2> QED BY <2>1, FreshFind
<1> HIDE DEF z, N
<1>5. Counts(z)
    <2>1. ASSUME NEW i \in 1..N
          PROVE  z[i].shared = Cardinality(Out(z, i, FALSE)) /\ (z[i].mutBorrow <=> Out(z, i, TRUE) # {})
        <3>1. CASE i = N
            <4>1. Out(z, i, FALSE) = {} /\ Out(z, i, TRUE) = {}
                BY <1>2, <1>3, <3>1
            <4> QED BY <1>1, <3>1, <4>1, FS_EmptySet
        <3>2. CASE i # N
            <4>1. i \in DOMAIN u /\ z[i] = u[i]
                BY <1>1, <3>2
            <4>2. Out(z, i, FALSE) = Out(u, i, FALSE) /\ Out(z, i, TRUE) = Out(u, i, TRUE)
                BY <1>2
            <4>3. u[i].shared = Cardinality(Out(u, i, FALSE)) /\ (u[i].mutBorrow <=> Out(u, i, TRUE) # {})
                BY <4>1 DEF Balanced, Counts
            <4> QED BY <4>1, <4>2, <4>3
        <3> QED BY <3>1, <3>2
    <2> QED BY <1>1, <2>1 DEF Counts
<1>6. Single(z)
    <2>1. ASSUME NEW i \in 1..N, Out(z, i, TRUE) # {}
          PROVE  Out(z, i, FALSE) = {} /\ \E r : Out(z, i, TRUE) = {r}
        <3>1. Out(z, i, FALSE) = Out(u, i, FALSE) /\ Out(z, i, TRUE) = Out(u, i, TRUE)
            BY <1>2
        <3>2. i \in DOMAIN u
            BY <1>1, <1>3, <2>1, <3>1
        <3> QED BY <2>1, <3>1, <3>2 DEF Balanced, Single
    <2> QED BY <1>1, <2>1 DEF Single
<1>7. Lenders(z)
    <2>1. ASSUME NEW r \in 1..N
          PROVE  z[r].active /\ (z[r].borrowEnd >= 0 => Find(z, z[r].source) \in 1..(r - 1))
        <3>1. CASE r = N
            <4>1. ~(e.borrowEnd >= 0)
                BY EntryFields
            <4> QED BY <1>1, <3>1, <4>1
        <3>2. CASE r # N
            BY <1>1, <1>4, <3>2 DEF Balanced, Lenders
        <3> QED BY <3>1, <3>2
    <2> QED BY <1>1, <2>1 DEF Lenders
<1> QED BY <1>5, <1>6, <1>7 DEF Balanced, z

(* A reference that is granted is out, and is counted by its owner.         *)
LEMMA LentBalances ==
    ASSUME NEW u \in Seq(Entry), NEW src \in Names, NEW m \in BOOLEAN, NEW e \in Entry,
           Balanced(u), Unnamed(u, e.name), e.active, e.source = src, e.borrowMut = m,
           e.shared = 0, ~e.mutBorrow, Lender(u, src, m) # 0, e.borrowEnd >= 0
    PROVE  Balanced(Append(Lent(u, Lender(u, src, m), m), e))
<1> DEFINE g == Lender(u, src, m)
           w == Lent(u, g, m)
           z == Append(w, e)
           N == Len(u) + 1
<1>1. Lendable(u, g, m) /\ g \in 1..Len(u) /\ g = Find(u, src) /\ g # 0
    <2>1. Lendable(u, g, m) /\ g # 0
        BY LenderLends
    <2>2. g = Find(u, src)
        BY <2>1 DEF Lender
    <2> QED BY <2>1, <2>2 DEF Lendable
<1>2. Counted(u, w, g, m)
    <2>1. g \in 0..Len(u)
        BY <1>1
    <2> HIDE DEF g
    <2> QED BY <2>1, LentIs
<1> HIDE DEF g, w
<1>3. /\ w \in Seq(Entry) /\ Len(w) = Len(u) /\ DOMAIN w = DOMAIN u
      /\ \A k \in DOMAIN u : Fixed(u[k], w[k])
    BY <1>2 DEF Counted
<1>4. /\ z[N] = e /\ DOMAIN z = 1..N /\ N \in Nat /\ g \in 1..N /\ g \in DOMAIN u /\ g # N
      /\ \A r \in DOMAIN u : z[r] = w[r] /\ r # N
      /\ \A r \in 1..N : r \in DOMAIN u \/ r = N
    BY <1>1, <1>3
<1>5. \A n : Find(w, n) = Find(u, n)
    <2>1. \A k \in DOMAIN u : u[k].name = w[k].name /\ u[k].active = w[k].active
        BY <1>3 DEF Fixed
    <2> QED BY <1>3, <2>1, SameFind
<1>6. \A i, k : Out(w, i, k) = Out(u, i, k)
    BY <1>3, <1>5 DEF Out, Fixed
<1>7. Lenders(w) /\ Unnamed(w, e.name)
    BY <1>3, <1>5 DEF Lenders, Balanced, Unnamed, Fixed
<1>8. src # e.name
    BY <1>1, UnnamedFind
<1>9. Find(z, src) = g
    BY <1>1, <1>3, <1>5, <1>8, FreshFind
<1>10. ASSUME NEW i \in 1..N, NEW k
       PROVE  Out(z, i, k) = Out(u, i, k) \cup (IF k = m /\ i = g THEN {N} ELSE {})
    <2> DEFINE added == IF e.borrowEnd >= 0 /\ e.borrowMut = k /\ Find(z, e.source) = i THEN {Len(w) + 1} ELSE {}
    <2>1. Out(z, i, k) = Out(w, i, k) \cup added
        BY <1>3, <1>7, AppendedOut
    <2>2. added = IF k = m /\ i = g THEN {N} ELSE {}
        BY <1>3, <1>9
    <2> HIDE DEF added
    <2> QED BY <1>6, <2>1, <2>2
<1>19. ASSUME NEW i \in 1..N, i # g
       PROVE  Out(z, i, TRUE) = Out(u, i, TRUE) /\ Out(z, i, FALSE) = Out(u, i, FALSE)
    <2>1. ASSUME NEW k PROVE Out(z, i, k) = Out(u, i, k)
        <3>1. Out(z, i, k) = Out(u, i, k) \cup (IF k = m /\ i = g THEN {N} ELSE {})
            BY <1>10
        <3> QED BY <1>19, <3>1
    <2> QED BY <2>1
<1>20. Out(z, g, m) = Out(u, g, m) \cup {N} /\ \A k : k # m => Out(z, g, k) = Out(u, g, k)
    <2>1. ASSUME NEW k PROVE Out(z, g, k) = Out(u, g, k) \cup (IF k = m /\ g = g THEN {N} ELSE {})
        BY <1>4, <1>10
    <2>2. Out(z, g, m) = Out(u, g, m) \cup {N}
        BY <2>1
    <2>3. ASSUME NEW k, k # m PROVE Out(z, g, k) = Out(u, g, k)
        BY <2>1, <2>3
    <2> QED BY <2>2, <2>3
<1>21. m => Out(z, g, TRUE) = Out(u, g, TRUE) \cup {N} /\ Out(z, g, FALSE) = Out(u, g, FALSE)
    <2>1. CASE m
        BY <1>20, <2>1
    <2>2. CASE ~m
        BY <2>2
    <2> QED BY <2>1, <2>2
<1>22. ~m => Out(z, g, FALSE) = Out(u, g, FALSE) \cup {N} /\ Out(z, g, TRUE) = Out(u, g, TRUE)
    <2>1. CASE m
        BY <2>1
    <2>2. CASE ~m
        BY <1>20, <2>2
    <2> QED BY <2>1, <2>2
<1>11. \A k : Out(u, N, k) = {} /\ \A i : Out(u, i, k) \subseteq DOMAIN u
    BY NotYetLent, OutType DEF Balanced
<1>12. \A r \in DOMAIN w : w[r].borrowEnd >= 0 => Find(z, w[r].source) = Find(w, w[r].source)
    <2>1. ASSUME NEW r \in DOMAIN w, w[r].borrowEnd >= 0 PROVE w[r].source # e.name
        BY <1>3, <1>7, <2>1, UnnamedFind DEF Lenders
    <2> QED BY <1>3, <2>1, FreshFind
<1> HIDE DEF z, N
<1>13. ASSUME NEW i \in DOMAIN u
       PROVE  /\ z[i].shared = IF i = g /\ ~m THEN u[i].shared + 1 ELSE u[i].shared
              /\ z[i].mutBorrow = (u[i].mutBorrow \/ (i = g /\ m))
              /\ u[i].shared = Cardinality(Out(u, i, FALSE)) /\ (u[i].mutBorrow <=> Out(u, i, TRUE) # {})
    BY <1>2, <1>4 DEF Counted, Balanced, Counts
<1>14. ~u[g].mutBorrow /\ (m => u[g].shared = 0)
    BY <1>1 DEF Lendable
<1>15. Out(u, g, TRUE) = {} /\ (m => Out(u, g, FALSE) = {})
    <2>1. m => Cardinality(Out(u, g, FALSE)) = 0
        BY <1>4, <1>13, <1>14
    <2> QED BY <1>4, <1>13, <1>14, <2>1, OutType, FS_EmptySet
<1>16. Counts(z)
    <2>1. ASSUME NEW i \in 1..N
          PROVE  z[i].shared = Cardinality(Out(z, i, FALSE)) /\ (z[i].mutBorrow <=> Out(z, i, TRUE) # {})
        <3>1. CASE i = N
            <4>1. Out(z, i, FALSE) = {} /\ Out(z, i, TRUE) = {}
                BY <1>4, <1>11, <1>19, <3>1
            <4> QED BY <1>4, <3>1, <4>1, FS_EmptySet
        <3>2. CASE i = g /\ m
            <4>1. Out(z, i, FALSE) = Out(u, i, FALSE) /\ N \in Out(z, i, TRUE)
                BY <1>21, <3>2
            <4> QED BY <1>4, <1>13, <3>2, <4>1
        <3>3. CASE i = g /\ ~m
            <4>1. Out(z, i, FALSE) = Out(u, i, FALSE) \cup {N} /\ Out(z, i, TRUE) = Out(u, i, TRUE)
                BY <1>22, <3>3
            <4>2. N \notin Out(u, i, FALSE)
                BY <1>4, <1>11
            <4>3. Cardinality(Out(u, i, FALSE) \cup {N}) = Cardinality(Out(u, i, FALSE)) + 1
                BY <4>2, OutType, FS_AddElement
            <4> QED BY <1>4, <1>13, <3>3, <4>1, <4>3
        <3>4. CASE i # N /\ i # g
            <4>1. i \in DOMAIN u
                BY <1>4, <3>4
            <4>2. Out(z, i, FALSE) = Out(u, i, FALSE) /\ Out(z, i, TRUE) = Out(u, i, TRUE)
                BY <1>19, <3>4
            <4> QED BY <1>13, <3>4, <4>1, <4>2
        <3> QED BY <3>1, <3>2, <3>3, <3>4
    <2> QED BY <1>4, <2>1 DEF Counts
<1>17. Single(z)
    <2>1. ASSUME NEW i \in 1..N, Out(z, i, TRUE) # {}
          PROVE  Out(z, i, FALSE) = {} /\ \E r : Out(z, i, TRUE) = {r}
        <3>1. CASE i = g
            <4>1. m
                BY <1>22, <1>15, <2>1, <3>1
            <4>2. Out(z, i, FALSE) = {} /\ Out(z, i, TRUE) = {N}
                BY <1>21, <1>15, <3>1, <4>1
            <4> QED BY <4>2
        <3>2. CASE i # g
            <4>1. Out(z, i, FALSE) = Out(u, i, FALSE) /\ Out(z, i, TRUE) = Out(u, i, TRUE)
                BY <1>19, <3>2
            <4>2. i \in DOMAIN u
                BY <1>4, <1>11, <2>1, <4>1
            <4> QED BY <2>1, <4>1, <4>2 DEF Balanced, Single
        <3> QED BY <3>1, <3>2
    <2> QED BY <1>4, <2>1 DEF Single
<1>18. Lenders(z)
    <2>1. ASSUME NEW r \in 1..N
          PROVE  z[r].active /\ (z[r].borrowEnd >= 0 => Find(z, z[r].source) \in 1..(r - 1))
        <3>1. CASE r = N
            <4>1. g \in 1..(N - 1)
                BY <1>4
            <4> QED BY <1>4, <1>9, <3>1, <4>1
        <3>2. CASE r # N
            <4>1. r \in DOMAIN w /\ z[r] = w[r]
                BY <1>3, <1>4, <3>2
            <4> QED BY <1>7, <1>12, <4>1 DEF Lenders
        <3> QED BY <3>1, <3>2
    <2> QED BY <1>4, <2>1 DEF Lenders
<1> QED BY <1>16, <1>17, <1>18 DEF Balanced, z, w, g

(* What a statement does to the entries: it may release a reference, and    *)
(* a `let' appends an entry of its own name.                                *)
Succeeds(v, w, x) ==
    /\ Len(v) <= Len(w)
    /\ \A i \in DOMAIN v : v[i].name = w[i].name /\ (v[i].borrowEnd < 0 => w[i].borrowEnd < 0)
    /\ \A i \in DOMAIN w : i > Len(v) => x.tag = "let" /\ w[i].name = x.name

LEMMA SucceedsTransitive ==
    ASSUME NEW u \in Seq(Entry), NEW v \in Seq(Entry), NEW w \in Seq(Entry), NEW x,
           Succeeds(u, v, x), Succeeds(v, w, x)
    PROVE  Succeeds(u, w, x)
<1>1. DOMAIN u \subseteq DOMAIN v /\ DOMAIN v \subseteq DOMAIN w /\ Len(u) <= Len(w)
    BY DEF Succeeds
<1>2. \A i \in DOMAIN u : u[i].name = w[i].name /\ (u[i].borrowEnd < 0 => w[i].borrowEnd < 0)
    BY <1>1 DEF Succeeds
<1>3. ASSUME NEW i \in DOMAIN w, i > Len(u) PROVE x.tag = "let" /\ w[i].name = x.name
    <2>1. CASE i \in DOMAIN v
        BY <1>3, <2>1 DEF Succeeds
    <2>2. CASE i \notin DOMAIN v
        BY <1>3, <2>2 DEF Succeeds
    <2> QED BY <2>1, <2>2
<1> QED BY <1>1, <1>2, <1>3 DEF Succeeds

LEMMA FixedSucceeds ==
    ASSUME NEW v \in Seq(Entry), NEW w \in Seq(Entry), Len(v) = Len(w), NEW x,
           \A i \in DOMAIN v : Fixed(v[i], w[i])
    PROVE  Succeeds(v, w, x)
BY DEF Succeeds, Fixed

LEMMA ExpireSucceeds ==
    ASSUME NEW s \in State, NEW line \in Nat, NEW x
    PROVE  Succeeds(s.vars, Expire(s, line).vars, x)
<1> DEFINE v == s.vars
           w == Expire(s, line).vars
           due == Due(v, line)
<1>1. v \in Seq(Entry) /\ Expired(v, w, due)
    BY ExpireIs DEF State
<1> HIDE DEF v, w, due
<1>2. w \in Seq(Entry) /\ Len(w) = Len(v)
    BY <1>1 DEF Expired
<1>3. ASSUME NEW i \in DOMAIN v
      PROVE  v[i].name = w[i].name /\ (v[i].borrowEnd < 0 => w[i].borrowEnd < 0)
    <2>1. Kin(v[i], w[i]) /\ w[i].borrowEnd = IF i \in due /\ v[i].source # NoName THEN Released ELSE v[i].borrowEnd
        BY <1>1 DEF Expired
    <2>2. Released < 0
        BY DEF Released
    <2> QED BY <2>1, <2>2 DEF Kin, SameReference
<1>4. Succeeds(v, w, x)
    BY <1>1, <1>2, <1>3 DEF Succeeds
<1> QED BY <1>4 DEF v, w

LEMMA AppendSucceeds ==
    ASSUME NEW v \in Seq(Entry), NEW e \in Entry, NEW x, x.tag = "let", e.name = x.name
    PROVE  Append(v, e) \in Seq(Entry) /\ Succeeds(v, Append(v, e), x)
<1> DEFINE z == Append(v, e)
<1>1. /\ z \in Seq(Entry) /\ Len(z) = Len(v) + 1 /\ Len(v) \in Nat /\ z[Len(v) + 1] = e
      /\ \A i \in DOMAIN v : z[i] = v[i]
      /\ \A i \in DOMAIN z : i > Len(v) => i = Len(v) + 1
    OBVIOUS
<1> HIDE DEF z
<1>2. Succeeds(v, z, x)
    BY <1>1 DEF Succeeds
<1> QED BY <1>1, <1>2 DEF z

LEMMA LentEnds ==
    ASSUME NEW u, NEW n \in Names, NEW m \in BOOLEAN, NEW src \in Names, NEW bm \in BOOLEAN, NEW line \in Nat,
           prog \in Seq(Statement)
    PROVE  IF Lender(u, src, bm) = 0 THEN LentEntry(u, n, m, src, bm, line).borrowEnd < 0
           ELSE LentEntry(u, n, m, src, bm, line).borrowEnd >= 0
<1> DEFINE g == Lender(u, src, bm)
<1>1. LentEntry(u, n, m, src, bm, line).borrowEnd = EndLine(g, n, line)
    BY DEF LentEntry, NewRefEntry, NewEntry
<1>2. LastNamed(n, line) \in Nat
    <2>1. LastUse(prog, n) \in (DOMAIN prog) \cup {0}
        BY ExtremeType DEF LastUse
    <2>2. LastNamed(n, line) \in {LastUse(prog, n), line} \cup {line}
        BY ExtremeType DEF LastNamed
    <2> QED BY <2>1, <2>2
<1> HIDE DEF g
<1>3. IF g = 0 THEN EndLine(g, n, line) < 0 ELSE EndLine(g, n, line) >= 0
    BY <1>2 DEF EndLine, Released
<1> QED BY <1>1, <1>3 DEF g

(* A `let' takes up one borrow for the reference it declares, or none.      *)
LEMMA LetBalances ==
    ASSUME NEW s \in State, NEW x \in Statement, x.tag = "let", NEW line \in Nat,
           prog \in Seq(Statement), Balanced(s.vars), Unnamed(s.vars, x.name)
    PROVE  /\ Balanced(CheckLet(s, x, line).vars)
           /\ Succeeds(s.vars, CheckLet(s, x, line).vars, x)
<1>1. PICK u \in Seq(Entry) :
              /\ OnlyStatus(s.vars, u)
              /\ IF IsBorrow(x) THEN CheckLet(s, x, line).vars = LetVars(u, x, line)
                 ELSE \E e : /\ BorrowsNothing(e, x.name)
                             /\ CheckLet(s, x, line).vars = Append(u, e)
    BY LetAppends
<1>2. s.vars \in Seq(Entry) /\ Balanced(u) /\ Unnamed(u, x.name) /\ Succeeds(s.vars, u, x)
    <2>1. s.vars \in Seq(Entry)
        BY DEF State
    <2>2. Balanced(u)
        BY <1>1, <2>1, SameOut
    <2>3. Unnamed(u, x.name)
        BY <1>1, <2>1 DEF OnlyStatus, Fixed, Unnamed
    <2>4. Succeeds(s.vars, u, x)
        BY <1>1, <2>1, FixedSucceeds DEF OnlyStatus
    <2> QED BY <2>1, <2>2, <2>3, <2>4
<1>3. CASE IsBorrow(x)
    <2> DEFINE src == x.e.name
               bm == BorrowsMut(x)
               g == Lender(u, src, bm)
               e == LentEntry(u, x.name, x.mutable, src, bm, line)
    <2>1. x.name \in Names /\ x.mutable \in BOOLEAN /\ src \in Names /\ bm \in BOOLEAN
        BY <1>3 DEF Statement, Expr, SimpleExpr, IsBorrow, BorrowsMut
    <2>2. /\ e \in Entry /\ e.name = x.name /\ e.active /\ e.source = src /\ e.borrowMut = bm
          /\ e.shared = 0 /\ ~e.mutBorrow
        BY <2>1, LentEntryIs
    <2>3. CheckLet(s, x, line).vars = Append(Lent(u, g, bm), e)
        BY <1>1, <1>3 DEF LetVars, LentVars
    <2>4. IF g = 0 THEN e.borrowEnd < 0 ELSE e.borrowEnd >= 0
        BY <2>1, LentEnds
    <2>5. g \in 0..Len(u) /\ Lendable(u, g, bm)
        <3>1. Lendable(u, g, bm)
            BY <2>1, LenderLends
        <3> HIDE DEF g
        <3> QED BY <3>1 DEF Lendable
    <2> HIDE DEF e, src, bm
    <2>6. Balanced(Append(Lent(u, g, bm), e))
        <3>1. CASE g = 0
            <4>1. Lent(u, g, bm) = u
                BY <3>1 DEF Lent
            <4>2. Balanced(Append(u, e))
                BY <1>2, <2>2, <2>4, <3>1, PlainBalances
            <4> QED BY <4>1, <4>2
        <3>2. CASE g # 0
            BY <1>2, <2>1, <2>2, <2>4, <3>2, LentBalances
        <3> QED BY <3>1, <3>2
    <2>7. Succeeds(s.vars, Append(Lent(u, g, bm), e), x)
        <3> DEFINE w == Lent(u, g, bm)
        <3> HIDE DEF g
        <3>1. Counted(u, w, g, bm)
            BY <2>1, <2>5, LentIs
        <3> HIDE DEF w
        <3>2. w \in Seq(Entry) /\ Succeeds(u, w, x)
            BY <3>1, FixedSucceeds DEF Counted
        <3>3. Append(w, e) \in Seq(Entry) /\ Succeeds(w, Append(w, e), x)
            BY <2>2, <3>2, AppendSucceeds
        <3>4. Succeeds(s.vars, Append(w, e), x)
            BY <1>2, <3>2, <3>3, SucceedsTransitive
        <3> QED BY <3>4 DEF w
    <2> QED BY <2>3, <2>6, <2>7
<1>4. CASE ~IsBorrow(x)
    <2>1. PICK e : BorrowsNothing(e, x.name) /\ CheckLet(s, x, line).vars = Append(u, e)
        BY <1>1, <1>4
    <2>2. Balanced(Append(u, e))
        BY <1>2, <2>1, PlainBalances DEF BorrowsNothing
    <2>3. Append(u, e) \in Seq(Entry) /\ Succeeds(u, Append(u, e), x)
        BY <2>1, AppendSucceeds DEF BorrowsNothing
    <2>4. Succeeds(s.vars, Append(u, e), x)
        BY <1>2, <2>3, SucceedsTransitive
    <2> QED BY <2>1, <2>2, <2>4
<1> QED BY <1>3, <1>4

LEMMA SimpleBalances ==
    ASSUME NEW s \in State, NEW x \in Statement, NEW line \in Nat, prog \in Seq(Statement),
           Balanced(s.vars), x.tag = "let" => Unnamed(s.vars, x.name)
    PROVE  /\ Balanced(CheckSimple(Expire(s, line), x, line).vars)
           /\ Succeeds(s.vars, CheckSimple(Expire(s, line), x, line).vars, x)
<1> DEFINE t == Expire(s, line)
           u == CheckSimple(t, x, line)
<1>1. /\ t \in State /\ t.vars \in Seq(Entry) /\ s.vars \in Seq(Entry)
      /\ Balanced(t.vars) /\ Succeeds(s.vars, t.vars, x) /\ Len(t.vars) = Len(s.vars)
    BY ExpireFollows, ExpireBalances, ExpireSucceeds, ExpireBelow DEF State
<1> HIDE DEF t
<1>2. u.vars \in Seq(Entry)
    BY <1>1, CheckSimpleGrows DEF Grows, State
<1>3. Balanced(u.vars) /\ Succeeds(t.vars, u.vars, x)
    <2>1. CASE x.tag = "let"
        <3>1. Unnamed(t.vars, x.name)
            BY <1>1, <2>1 DEF Unnamed, Succeeds
        <3>2. u = CheckLet(t, x, line)
            BY <2>1 DEF CheckSimple
        <3> QED BY <1>1, <2>1, <3>1, <3>2, LetBalances
    <2>2. CASE x.tag # "let"
        <3>1. OnlyStatus(t.vars, u.vars)
            BY <1>1, <2>2, OthersOnlyMove
        <3> HIDE DEF u
        <3> QED BY <1>1, <1>2, <3>1, SameOut, FixedSucceeds DEF OnlyStatus
    <2> QED BY <2>1, <2>2
<1>4. Succeeds(s.vars, u.vars, x)
    BY <1>1, <1>2, <1>3, SucceedsTransitive
<1> QED BY <1>3, <1>4 DEF t

-----------------------------------------------------------------------------
(* The entries of a walk through straight-line code, up to a line: the      *)
(* parameters and then one for each `let' before that line.                 *)
Known(p, vars, line) ==
    /\ Len(Params) <= Len(vars)
    /\ \A i \in DOMAIN Params : vars[i].name = Params[i].name /\ vars[i].borrowEnd < 0
    /\ \A i \in DOMAIN vars : i > Len(Params) =>
        \E k \in 1..(line - 1) : p[k].tag = "let" /\ p[k].name = vars[i].name

(* After the check nothing is borrowed any more.                            *)
Settled(vars) ==
    \A i \in DOMAIN vars : /\ \A m : Out(vars, i, m) = {}
                           /\ vars[i].active => vars[i].shared = 0 /\ ~vars[i].mutBorrow

Accounts ==
    StraightLine =>
        /\ frames = <<>>
        /\ finished => Settled(st.vars)
        /\ ~finished => Balanced(st.vars) /\ Known(prog, st.vars, pc)

LEMMA KnownNames ==
    ASSUME NEW v \in Seq(Entry), NEW line \in DOMAIN prog, prog \in Seq(Statement), NamesApart,
           Known(prog, v, line), prog[line].tag = "let"
    PROVE  Unnamed(v, prog[line].name)
<1>1. ASSUME NEW i \in DOMAIN v PROVE v[i].name # prog[line].name
    <2>1. CASE i \in DOMAIN Params
        BY <2>1 DEF NamesApart, Known
    <2>2. CASE i \notin DOMAIN Params
        <3>1. i > Len(Params)
            BY <2>2, ParamsAssumption
        <3> QED BY <3>1 DEF NamesApart, Known
    <2> QED BY <2>1, <2>2
<1> QED BY <1>1 DEF Unnamed

LEMMA KnownGrows ==
    ASSUME NEW v \in Seq(Entry), NEW w \in Seq(Entry), NEW line \in Nat, NEW next \in Nat, line < next,
           Known(prog, v, line), Succeeds(v, w, prog[line]), line >= 1
    PROVE  Known(prog, w, next)
<1>1. Len(Params) \in Nat /\ DOMAIN Params = 1..Len(Params)
    BY ParamsAssumption
<1>2. Len(Params) <= Len(w) /\ \A i \in DOMAIN Params : i \in DOMAIN v
    BY <1>1 DEF Known, Succeeds
<1>3. \A i \in DOMAIN Params : w[i].name = Params[i].name /\ w[i].borrowEnd < 0
    BY <1>2 DEF Known, Succeeds
<1>4. ASSUME NEW i \in DOMAIN w, i > Len(Params)
      PROVE  \E k \in 1..(next - 1) : prog[k].tag = "let" /\ prog[k].name = w[i].name
    <2>1. CASE i \in DOMAIN v
        <3>1. PICK k \in 1..(line - 1) : prog[k].tag = "let" /\ prog[k].name = v[i].name
            BY <1>4, <2>1 DEF Known
        <3>2. k \in 1..(next - 1) /\ v[i].name = w[i].name
            BY <2>1 DEF Succeeds
        <3> QED BY <3>1, <3>2
    <2>2. CASE i \notin DOMAIN v
        <3>1. prog[line].tag = "let" /\ w[i].name = prog[line].name
            BY <2>2 DEF Succeeds
        <3>2. line \in 1..(next - 1)
            OBVIOUS
        <3> QED BY <3>1, <3>2
    <2> QED BY <2>1, <2>2
<1> QED BY <1>2, <1>3, <1>4 DEF Known

(* What is found is found among the entries up to any later one.            *)
LEMMA PrefixFind ==
    ASSUME NEW v \in Seq(Entry), NEW r \in DOMAIN v, NEW n, Find(v, n) \in 1..r
    PROVE  Find(SubSeq(v, 1, r), n) = Find(v, n)
<1> DEFINE S == {i \in DOMAIN v : v[i].active /\ v[i].name = n}
           p == SubSeq(v, 1, r)
           T == {i \in DOMAIN p : p[i].active /\ p[i].name = n}
           f == Find(v, n)
<1>1. DOMAIN p = 1..r /\ \A i \in 1..r : p[i] = v[i] /\ i \in DOMAIN v
    OBVIOUS
<1>2. f = LastOf(S, 0) /\ Find(p, n) = LastOf(T, 0) /\ f # 0 /\ S \subseteq Nat
    BY DEF Find
<1> HIDE DEF f, p
<1>3. T = {i \in S : i \in 1..r}
    BY <1>1
<1> HIDE DEF S, T
<1>4. f \in S /\ \A j \in S : j <= f
    BY <1>2 DEF LastOf
<1>5. f \in T /\ \A j \in T : j <= f
    BY <1>3, <1>4 DEF f
<1>6. \A i \in T : (\A j \in T : j <= i) => i = f
    BY <1>2, <1>3, <1>5
<1>7. LastOf(T, 0) = f
    BY <1>5, <1>6 DEF LastOf
<1> QED BY <1>2, <1>7 DEF f, p

(* The references that are out when the body has been walked are held past  *)
(* the parameters.                                                          *)
LEMMA OutIsHeld ==
    ASSUME NEW v \in Seq(Entry), NEW line, Balanced(v), Known(prog, v, line), NEW i \in DOMAIN v, NEW m
    PROVE  Out(v, i, m) \subseteq Held(v, Len(Params), i, m)
<1>1. Find(v, NoName) = 0
    <2>1. Unnamed(v, NoName)
        BY EntryFields, NamesAssumption DEF Unnamed
    <2> QED BY <2>1, UnnamedFind
<1>2. ASSUME NEW r \in Out(v, i, m) PROVE r \in Held(v, Len(Params), i, m)
    <2>1. r \in DOMAIN v /\ v[r].active /\ v[r].borrowEnd >= 0 /\ v[r].borrowMut = m /\ Find(v, v[r].source) = i
        BY DEF Out
    <2>2. v[r].borrowEnd \in Int /\ Len(Params) \in Nat /\ DOMAIN Params = 1..Len(Params)
        BY <2>1, EntryFields, ParamsAssumption
    <2>3. r \notin DOMAIN Params
        BY <2>1, <2>2 DEF Known
    <2>4. r \in (Len(Params) + 1)..Len(v)
        BY <2>1, <2>2, <2>3
    <2>5. v[r].source # NoName
        BY <1>1, <2>1
    <2>6. Find(v, v[r].source) \in 1..r
        BY <2>1 DEF Balanced, Lenders
    <2>7. Owner(v, r) = i
        BY <2>1, <2>6, PrefixFind DEF Owner
    <2> QED BY <2>1, <2>4, <2>5, <2>7 DEF Held
<1> QED BY <1>2

LEMMA LeaveSettles ==
    ASSUME NEW v \in Seq(Entry), NEW w, NEW line, Balanced(v), Known(prog, v, line),
           LeftScope(v, w, Len(Params))
    PROVE  Settled(w)
<1> DEFINE n == Len(Params)
<1>1. n \in Nat /\ w \in Seq(Entry) /\ DOMAIN w = DOMAIN v /\ DOMAIN Params = 1..n
      /\ \A i \in DOMAIN v : AfterScope(v, w[i], i, n)
    BY ParamsAssumption DEF LeftScope
<1>2. ASSUME NEW i \in DOMAIN w, NEW m PROVE Out(w, i, m) = {}
    <2>1. ASSUME NEW r \in DOMAIN w, w[r].active, w[r].borrowEnd >= 0 PROVE FALSE
        <3>1. r <= n /\ w[r].borrowEnd = v[r].borrowEnd
            BY <1>1, <2>1 DEF AfterScope
        <3>2. r \in DOMAIN Params
            BY <1>1, <3>1
        <3>3. v[r].borrowEnd < 0 /\ v[r].borrowEnd \in Int
            BY <1>1, <3>2, EntryFields DEF Known
        <3> QED BY <2>1, <3>1, <3>3
    <2> QED BY <2>1 DEF Out
<1>3. ASSUME NEW i \in DOMAIN w PROVE w[i].shared = 0 /\ ~w[i].mutBorrow
    <2> DEFINE held == Held(v, n, i, FALSE)
               out == Out(v, i, FALSE)
    <2>1. Out(v, i, FALSE) \subseteq held /\ Out(v, i, TRUE) \subseteq Held(v, n, i, TRUE)
        BY <1>1, OutIsHeld
    <2>2. v[i].shared = Cardinality(out) /\ (v[i].mutBorrow <=> Out(v, i, TRUE) # {})
        BY <1>1 DEF Balanced, Counts
    <2>3. Cardinality(out) <= Cardinality(held) /\ Cardinality(out) \in Nat /\ Cardinality(held) \in Nat
        <3>1. IsFiniteSet(held) /\ Cardinality(held) \in Nat
            BY <1>1, HeldFinite
        <3>2. out \subseteq held /\ Cardinality(out) \in Nat
            BY <2>1, OutType
        <3> HIDE DEF held, out
        <3> QED BY <3>1, <3>2, FS_Subset
    <2>4. /\ w[i].shared = GiveBack(v[i].shared, Cardinality(held))
          /\ w[i].mutBorrow = (v[i].mutBorrow /\ Held(v, n, i, TRUE) = {})
        BY <1>1 DEF AfterScope
    <2> HIDE DEF held, out, n
    <2>5. w[i].shared = 0
        BY <2>2, <2>3, <2>4 DEF GiveBack
    <2>6. ~w[i].mutBorrow
        BY <2>1, <2>2, <2>4
    <2> QED BY <2>5, <2>6
<1> QED BY <1>2, <1>3 DEF Settled

LEMMA InitAccounts == Init => Accounts
<1> SUFFICES ASSUME Init PROVE frames = <<>> /\ ~finished /\ Balanced(st.vars) /\ Known(prog, st.vars, pc)
    BY DEF Accounts
<1>1. st.vars = Params /\ frames = <<>> /\ ~finished /\ Params \in Seq(Entry)
    BY ParamsAssumption DEF Init
<1>2. ASSUME NEW i \in DOMAIN Params
      PROVE  Params[i].shared = 0 /\ ~Params[i].mutBorrow /\ Params[i].borrowEnd < 0 /\ Params[i].active
    <2>1. \A n, ty, m, p : /\ NewEntry(n, ty, m, p).shared = 0 /\ ~NewEntry(n, ty, m, p).mutBorrow
                           /\ NewEntry(n, ty, m, p).borrowEnd < 0 /\ NewEntry(n, ty, m, p).active
        BY DEF NewEntry, NotABorrow
    <2> QED BY <2>1, ParamsAssumption
<1>3. \A i, m : Out(Params, i, m) = {}
    <2>1. \A i \in DOMAIN Params : ~(Params[i].borrowEnd >= 0)
        BY <1>1, <1>2, EntryFields
    <2> QED BY <2>1 DEF Out
<1>4. Balanced(Params)
    <2>1. Counts(Params)
        BY <1>2, <1>3, FS_EmptySet DEF Counts
    <2>2. Single(Params)
        BY <1>3 DEF Single
    <2>3. Lenders(Params)
        BY <1>1, <1>2, EntryFields DEF Lenders
    <2> QED BY <2>1, <2>2, <2>3 DEF Balanced
<1>5. Known(prog, Params, pc)
    BY <1>1, <1>2 DEF Known
<1> QED BY <1>1, <1>4, <1>5

(* Straight-line code opens no region.                                      *)
LEMMA OnlySimple ==
    ASSUME Inv, StraightLine, frames = <<>>, Step
    PROVE  SimpleStmt \/ SkipDeadCode \/ Finish
<1>1. ASSUME NEW tag, At(tag) PROVE tag \in SimpleTags
    BY <1>1, Walked DEF At, StraightLine
<1>a. ~At("block") /\ ~At("if") /\ ~At("while") /\ ~At("match") /\ ~At("for")
    BY <1>1 DEF SimpleTags
<1>2. ~OpenBlock /\ ~OpenIf /\ ~OpenWhile /\ ~OpenMatch /\ ~OpenFor
    BY <1>a DEF OpenBlock, OpenIf, OpenWhile, OpenMatch, OpenFor, OpenCondition, Opening
<1>3. ~(\E tag, kinds : Closing(tag, kinds))
    BY DEF Closing
<1>4. /\ ~EnterElse /\ ~EnterArm /\ ~EndBlock /\ ~EndThen /\ ~EndElse /\ ~EndFor
      /\ ~EndEmptyMatch /\ ~EndMatch /\ ~EndWhile /\ ~RepeatWhile
    BY <1>3 DEF EnterElse, EnterArm, EndBlock, EndThen, EndElse, EndFor, EndEmptyMatch, EndMatch,
        EndWhile, RepeatWhile, Close
<1> QED BY <1>2, <1>4 DEF Step

LEMMA NextAccounts == Inv /\ Accounts /\ [Check]_checkVars => Accounts'
<1> SUFFICES ASSUME Inv, Accounts, [Check]_checkVars, StraightLine'
             PROVE  /\ frames' = <<>>
                    /\ finished' => Settled(st'.vars)
                    /\ ~finished' => Balanced(st'.vars) /\ Known(prog', st'.vars, pc')
    BY DEF Accounts
<1>0. Inv'
    BY NextInv
<1>1. prog' = prog
    BY DEF checkVars, Check, Step, SimpleStmt, SkipDeadCode, OpenBlock, OpenIf, OpenWhile, OpenMatch, OpenCondition,
        OpenFor, EnterElse, EnterArm, EndBlock, EndThen, EndElse, EndFor, EndEmptyMatch, EndMatch,
        RepeatWhile, EndWhile, Close, Finish
<1>2. /\ StraightLine /\ NamesApart /\ frames = <<>> /\ (finished => Settled(st.vars))
      /\ ~finished => Balanced(st.vars) /\ Known(prog, st.vars, pc)
    BY <1>1 DEF Accounts, StraightLine, NamesApart
<1>3. CASE UNCHANGED checkVars
    BY <1>2, <1>3 DEF checkVars
<1>4. CASE Step
    <2>1. SimpleStmt \/ SkipDeadCode \/ Finish
        BY <1>2, <1>4, OnlySimple
    <2>2. st.vars \in Seq(Entry) /\ st \in State /\ prog \in Seq(Statement)
        BY Walked DEF State
    <2>3. CASE SimpleStmt
        <3>1. /\ Walking /\ ~finished /\ frames' = frames /\ finished' = finished /\ pc' = pc + 1
              /\ st' = CheckSimple(Expire(st, pc), prog[pc], pc)
            BY <2>3 DEF SimpleStmt, Walking
        <3>2. pc \in DOMAIN prog /\ pc \in Nat /\ pc >= 1 /\ prog[pc] \in Statement
            BY <2>2, <3>1, Walked
        <3>3. prog[pc].tag = "let" => Unnamed(st.vars, prog[pc].name)
            BY <1>2, <2>2, <3>1, <3>2, KnownNames
        <3>4. Balanced(st'.vars) /\ Succeeds(st.vars, st'.vars, prog[pc])
            BY <1>2, <2>2, <3>1, <3>2, <3>3, SimpleBalances
        <3>5. Known(prog', st'.vars, pc')
            <4>1. st'.vars \in Seq(Entry) /\ pc' \in Nat /\ pc < pc'
                BY <1>0, <3>1, <3>2, Reached
            <4> QED BY <1>1, <1>2, <2>2, <3>1, <3>2, <3>4, <4>1, KnownGrows
        <3> QED BY <1>2, <3>1, <3>4, <3>5
    <2>4. CASE SkipDeadCode
        <3>1. /\ Walking /\ ~finished /\ frames' = frames /\ finished' = finished /\ st' = st
              /\ pc' = Boundary(prog, pc)
            BY <2>4 DEF SkipDeadCode, Walking
        <3>2. pc \in Nat /\ pc' \in Nat /\ pc <= pc'
            <4> DEFINE S == {j \in pc..Len(prog) : prog[j].tag \in DividerTags \cup {"end"} /\ Balance(prog, pc, j - 1) = 0}
            <4>1. pc' \in S \cup {Len(prog) + 1}
                BY <3>1, ExtremeType DEF Boundary
            <4>2. pc \in 1..Len(prog) /\ Len(prog) \in Nat /\ S \subseteq pc..Len(prog)
                BY <3>1, Walked
            <4> HIDE DEF S
            <4> QED BY <4>1, <4>2
        <3>3. \A i \in 1..(pc - 1) : i \in 1..(pc' - 1)
            <4> DEFINE a == pc
                       b == pc'
            <4>1. a \in Nat /\ b \in Nat /\ a <= b
                BY <3>2
            <4> HIDE DEF a, b
            <4>2. \A i \in 1..(a - 1) : i \in 1..(b - 1)
                BY <4>1
            <4> QED BY <4>2 DEF a, b
        <3>4. Known(prog', st'.vars, pc')
            BY <1>1, <1>2, <3>1, <3>3 DEF Known
        <3> QED BY <1>2, <3>1, <3>4
    <2>5. CASE Finish
        <3>1. /\ ~finished /\ frames' = frames /\ finished' /\ st' = LeaveScope(st, Len(Params))
              /\ Len(Params) \in Nat
            BY <2>5, ParamsAssumption DEF Finish
        <3>2. LeftScope(st.vars, st'.vars, Len(Params))
            BY <2>2, <3>1, LeaveIs
        <3>3. Settled(st'.vars)
            BY <1>2, <2>2, <3>1, <3>2, LeaveSettles
        <3> QED BY <1>2, <3>1, <3>3
    <2> QED BY <2>1, <2>3, <2>4, <2>5
<1> QED BY <1>3, <1>4 DEF Check

(***************************************************************************)
(* In straight-line code the counters of an owner are exact: it claims as  *)
(* many shared borrows as shared references to it are out, and a mutable   *)
(* one just when a mutable reference is out.  Four functions take borrows  *)
(* up and give them back, by the name of the owner each time; none is      *)
(* forgotten, none is given back twice, whichever end comes first: the     *)
(* last use of the reference, a return, or the end of the function.        *)
(***************************************************************************)
THEOREM BorrowsAccounted == Spec => []Accounting
<1>1. Inv /\ Accounts => Accounting
    <2> SUFFICES ASSUME Inv, Accounts, StraightLine, NEW i \in DOMAIN st.vars, st.vars[i].active
                 PROVE  /\ st.vars[i].shared = Cardinality(Out(st.vars, i, FALSE))
                        /\ st.vars[i].mutBorrow <=> Out(st.vars, i, TRUE) # {}
        BY DEF Accounting
    <2>1. CASE finished
        BY <2>1, FS_EmptySet DEF Accounts, Settled
    <2>2. CASE ~finished
        BY <2>2 DEF Accounts, Balanced, Counts
    <2> QED BY <2>1, <2>2
<1>2. Init => Inv /\ Accounts
    BY InitInv, InitAccounts
<1>3. Inv /\ Accounts /\ [Check]_checkVars => (Inv /\ Accounts)'
    BY NextInv, NextAccounts
<1> QED BY <1>1, <1>2, <1>3, PTL DEF Spec

(***************************************************************************)
(* Aliasing or mutation, never both: in straight-line code a mutable       *)
(* reference that is out is the only reference to its owner.               *)
(***************************************************************************)
THEOREM OneMutableOrShared == Spec => []AliasXorMutable
<1>1. Inv /\ Accounts => AliasXorMutable
    <2> SUFFICES ASSUME Inv, Accounts, StraightLine, NEW i \in DOMAIN st.vars, Out(st.vars, i, TRUE) # {}
                 PROVE  Cardinality(Out(st.vars, i, TRUE) \cup Out(st.vars, i, FALSE)) = 1
        BY DEF AliasXorMutable
    <2>1. ~finished /\ Single(st.vars)
        BY DEF Accounts, Settled, Balanced
    <2>2. PICK r : Out(st.vars, i, TRUE) = {r} /\ Out(st.vars, i, FALSE) = {}
        BY <2>1 DEF Single
    <2>3. Out(st.vars, i, TRUE) \cup Out(st.vars, i, FALSE) = {r}
        BY <2>2
    <2> QED BY <2>3, FS_Singleton
<1>2. Init => Inv /\ Accounts
    BY InitInv, InitAccounts
<1>3. Inv /\ Accounts /\ [Check]_checkVars => (Inv /\ Accounts)'
    BY NextInv, NextAccounts
<1> QED BY <1>1, <1>2, <1>3, PTL DEF Spec
=============================================================================
